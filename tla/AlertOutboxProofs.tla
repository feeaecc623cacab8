-------------------------- MODULE AlertOutboxProofs --------------------------
(* Theorems about AlertOutbox, for any number of alerts, chats and faults.  *)
EXTENDS AlertOutbox, FiniteSetTheorems, TLAPS

LEMMA ChannelTyped == \A d \in Dests : ChannelOf[d] \in Channels
BY DEF Channels

LEMMA AbandonsTyped ==
  ASSUME TypeOK, NEW d \in left, Abandons(d)
  PROVE  errors' \subseteq Channels /\ left' \subseteq Dests
BY ChannelTyped DEF TypeOK, Abandons

LEMMA ReachedTyped ==
  ASSUME TypeOK, NEW d \in left, phase = "deliver", current \in Alerts, Reached(d)
  PROVE  copies' \in [Dests \X Texts -> Nat]
BY OutboxAssumption DEF TypeOK, Reached

(* Between claim and record the dispatcher holds an alert that is SENDING.  *)
Holding == phase # "idle" => current \in Alerts /\ status[current] = "SENDING"

LEMMA TypesInit == Init => TypeOK /\ Holding
BY OutboxAssumption DEF Init, TypeOK, Holding, Statuses

LEMMA TypesNext == TypeOK /\ Holding /\ [Next]_vars => TypeOK' /\ Holding'
<1> SUFFICES ASSUME TypeOK, Holding, [Next]_vars PROVE TypeOK' /\ Holding'
  OBVIOUS
<1> USE DEF table, memory, world
<1>1. ASSUME NEW a \in Alerts, Insert(a) PROVE TypeOK' /\ Holding'
  BY <1>1 DEF TypeOK, Holding, Insert, Statuses
<1>2. ASSUME NEW a \in Alerts, Elapse(a) PROVE TypeOK' /\ Holding'
  BY <1>2 DEF TypeOK, Holding, Elapse
<1>3. ASSUME NEW a \in Alerts, Suppress(a) PROVE TypeOK' /\ Holding'
  BY <1>3 DEF TypeOK, Holding, Suppress, Statuses
<1>4. ASSUME NEW a \in Alerts, Claim(a) PROVE TypeOK' /\ Holding'
  BY <1>4 DEF TypeOK, Holding, Claim, ClaimRow, ToTry, Statuses
<1>5. ASSUME NEW a \in Alerts, ClaimUnacknowledged(a) PROVE TypeOK' /\ Holding'
  BY <1>5, OutboxAssumption DEF TypeOK, Holding, ClaimUnacknowledged, ClaimRow, Statuses
<1>6. ASSUME NEW d \in Dests, TryAccepted(d) PROVE TypeOK' /\ Holding'
  <2>1. copies' \in [Dests \X Texts -> Nat]
    BY <1>6, ReachedTyped DEF TryAccepted, Holding
  <2>2. delivered' \subseteq Dests \X Texts
    BY <1>6, OutboxAssumption DEF TypeOK, Holding, TryAccepted
  <2> QED
    BY <1>6, <2>1, <2>2 DEF TypeOK, Holding, TryAccepted
<1>7. ASSUME NEW d \in Dests, TryRefused(d) PROVE TypeOK' /\ Holding'
  BY <1>7, AbandonsTyped DEF TypeOK, Holding, TryRefused
<1>8. ASSUME NEW d \in Dests, TryLost(d) PROVE TypeOK' /\ Holding'
  <2>1. copies' \in [Dests \X Texts -> Nat]
    BY <1>8, ReachedTyped DEF TryLost, Holding
  <2>2. losses' \in 0..MaxLosses
    BY <1>8, OutboxAssumption DEF TypeOK, TryLost
  <2> QED
    BY <1>8, <2>1, <2>2, AbandonsTyped DEF TypeOK, Holding, TryLost
<1>9. CASE EndDelivery
  BY <1>9 DEF TypeOK, Holding, EndDelivery
<1>10. CASE RecordSent \/ RecordRefused
  BY <1>10 DEF TypeOK, Holding, RecordSent, RecordRefused, Release, Statuses
<1>11. CASE RecordFails
  BY <1>11, OutboxAssumption DEF TypeOK, Holding, RecordFails, Release
<1>12. CASE Crash
  BY <1>12, OutboxAssumption DEF TypeOK, Holding, Crash, Requeued, Statuses
<1>13. CASE UNCHANGED vars
  BY <1>13 DEF TypeOK, Holding, vars
<1> QED
  BY <1>1, <1>2, <1>3, <1>4, <1>5, <1>6, <1>7, <1>8, <1>9, <1>10, <1>11, <1>12, <1>13
     DEF Next, Dispatch

(* Type correctness of the outbox.                                          *)
THEOREM OutboxTypes == Spec => []TypeOK
BY TypesInit, TypesNext, PTL DEF Spec

-----------------------------------------------------------------------------
(* Attempts.  A pending alert has an attempt in reserve for every crash.    *)

Reserve == \A a \in Alerts :
  /\ attempts[a] <= MaxAttempts + crashes
  /\ status[a] \in {"ABSENT", "PENDING"} => attempts[a] < MaxAttempts + crashes

LEMMA ReserveNext == TypeOK /\ Holding /\ Reserve /\ [Next]_vars => Reserve'
<1> SUFFICES ASSUME TypeOK, Holding, Reserve, [Next]_vars PROVE Reserve'
  OBVIOUS
<1> USE OutboxAssumption DEF table, memory, world
<1>1. ASSUME NEW a \in Alerts, Insert(a) \/ Elapse(a) \/ Suppress(a) PROVE Reserve'
  BY <1>1 DEF TypeOK, Reserve, Insert, Elapse, Suppress
<1>2. ASSUME NEW a \in Alerts, ClaimRow(a), UNCHANGED crashes PROVE Reserve'
  BY <1>2 DEF TypeOK, Reserve, ClaimRow, IsNextDue, Due
<1>3. ASSUME NEW a \in Alerts, Claim(a) \/ ClaimUnacknowledged(a) PROVE Reserve'
  BY <1>2, <1>3 DEF Claim, ClaimUnacknowledged
<1>4. ASSUME NEW d \in Dests, TryAccepted(d) \/ TryRefused(d) \/ TryLost(d) PROVE Reserve'
  BY <1>4 DEF Reserve, TryAccepted, TryRefused, TryLost
<1>5. CASE EndDelivery \/ RecordFails \/ UNCHANGED vars
  BY <1>5 DEF Reserve, EndDelivery, RecordFails, Release, vars
<1>6. CASE RecordSent \/ RecordRefused
  BY <1>6 DEF TypeOK, Holding, Reserve, RecordSent, RecordRefused, GivesUp
<1>7. CASE Crash
  BY <1>7 DEF TypeOK, Reserve, Crash, Requeued
<1> QED
  BY <1>1, <1>3, <1>4, <1>5, <1>6, <1>7 DEF Next, Dispatch

(* The attempt limit holds up to one extra attempt per restart, because     *)
(* recover() re-queues without looking at attempts.                         *)
THEOREM AttemptsAreBounded == Spec => []AttemptsBounded
<1>1. Init => Reserve
  BY OutboxAssumption DEF Init, Reserve
<1>2. Reserve => AttemptsBounded
  BY DEF Reserve, AttemptsBounded
<1> QED
  BY <1>1, <1>2, TypesInit, TypesNext, ReserveNext, PTL DEF Spec

-----------------------------------------------------------------------------
(* The promise.  Every copy a chat received is credited to at most one      *)
(* alert: a SENT one, one its bot is done with, or the one about to be      *)
(* recorded; one more copy is on account in the sink's memory.              *)

Credited(c, x) == {a \in Alerts :
  /\ TextOf[a] = x
  /\ \/ status[a] = "SENT"
     \/ <<a, c>> \in channelsDone
     \/ phase = "sent" /\ a = current}

OnAccount(d, x) == IF <<d, x>> \in delivered THEN 1 ELSE 0

Credit == \A d \in Dests, x \in Texts :
  copies[<<d, x>>] >= Cardinality(Credited(ChannelOf[d], x)) + OnAccount(d, x)

(* A chat that is no longer to be tried was reached or its bot failed.      *)
Tracked == phase = "deliver" =>
  \A d \in Dests \ left :
    \/ ChannelOf[d] \in errors
    \/ <<current, ChannelOf[d]>> \in channelsDone
    \/ <<d, TextOf[current]>> \in delivered

LEMMA CreditedFinite ==
  ASSUME NEW S, S \subseteq Alerts
  PROVE  IsFiniteSet(S) /\ Cardinality(S) \in Nat
BY OutboxAssumption, FS_Subset, FS_CardinalityType

LEMMA CountGrowsByOne ==
  ASSUME NEW S, NEW T, NEW e, IsFiniteSet(S), T \subseteq S \cup {e}
  PROVE  Cardinality(T) <= Cardinality(S) + 1
<1>0. Cardinality(S) \in Nat
  BY FS_CardinalityType
<1>1. IsFiniteSet(S \cup {e}) /\ Cardinality(S \cup {e}) <= Cardinality(S) + 1
  <2>1. IsFiniteSet(S \cup {e}) /\ Cardinality(S \cup {e})
          = IF e \in S THEN Cardinality(S) ELSE Cardinality(S) + 1
    BY FS_AddElement
  <2> QED
    BY <1>0, <2>1
<1>2. T \in SUBSET (S \cup {e})
  OBVIOUS
<1>3. IsFiniteSet(T) /\ Cardinality(T) <= Cardinality(S \cup {e})
  BY <1>1, <1>2, FS_Subset
<1>4. Cardinality(T) \in Nat /\ Cardinality(S \cup {e}) \in Nat /\ Cardinality(S) \in Nat
  BY <1>1, <1>3, FS_CardinalityType
<1> QED
  BY <1>1, <1>3, <1>4

LEMMA CreditedCounts == \A c, x : Cardinality(Credited(c, x)) \in Nat
BY CreditedFinite DEF Credited

(* Fewer credits and more copies keep the books in order.                   *)
LEMMA CreditShrinks ==
  ASSUME TypeOK, TypeOK', Credit,
         \A c, x : Credited(c, x)' \subseteq Credited(c, x),
         delivered' \subseteq delivered,
         \A i \in Dests \X Texts : copies'[i] >= copies[i]
  PROVE  Credit'
<1> SUFFICES ASSUME NEW d \in Dests, NEW x \in Texts
             PROVE  copies'[<<d, x>>] >= Cardinality(Credited(ChannelOf[d], x)') + OnAccount(d, x)'
  BY DEF Credit
<1>1. Cardinality(Credited(ChannelOf[d], x)') <= Cardinality(Credited(ChannelOf[d], x))
  <2>1. IsFiniteSet(Credited(ChannelOf[d], x))
    BY CreditedFinite DEF Credited
  <2>2. Credited(ChannelOf[d], x)' \in SUBSET Credited(ChannelOf[d], x)
    OBVIOUS
  <2> QED
    BY <2>1, <2>2, FS_Subset
<1>2. OnAccount(d, x)' <= OnAccount(d, x) /\ OnAccount(d, x) \in Nat /\ OnAccount(d, x)' \in Nat
  BY DEF OnAccount
<1>3. copies[<<d, x>>] >= Cardinality(Credited(ChannelOf[d], x)) + OnAccount(d, x)
  BY DEF Credit
<1>4. copies[<<d, x>>] \in Nat /\ copies'[<<d, x>>] \in Nat /\ copies'[<<d, x>>] >= copies[<<d, x>>]
  BY DEF TypeOK
<1>5. Cardinality(Credited(ChannelOf[d], x)) \in Nat
  BY CreditedCounts
<1>6. Cardinality(Credited(ChannelOf[d], x)') \in Nat
  <2>1. Credited(ChannelOf[d], x)' \subseteq Alerts
    BY DEF Credited
  <2> QED
    BY <2>1, CreditedFinite
<1> QED
  BY <1>1, <1>2, <1>3, <1>4, <1>5, <1>6

LEMMA CreditTry ==
  ASSUME TypeOK, TypeOK', Holding, Credit, NEW d \in Dests, TryAccepted(d)
  PROVE  Credit'
<1> USE DEF table
<1>1. current \in Alerts /\ TextOf[current] \in Texts
  BY OutboxAssumption DEF Holding, TryAccepted
<1> DEFINE i == <<d, TextOf[current]>>
<1>2. \A c, x : Credited(c, x)' = Credited(c, x)
  BY DEF TryAccepted, Credited
<1> SUFFICES ASSUME NEW e \in Dests, NEW x \in Texts
             PROVE  copies'[<<e, x>>] >= Cardinality(Credited(ChannelOf[e], x)) + OnAccount(e, x)'
  BY <1>2 DEF Credit
<1>3. copies[<<e, x>>] >= Cardinality(Credited(ChannelOf[e], x)) + OnAccount(e, x)
      /\ copies[<<e, x>>] \in Nat /\ Cardinality(Credited(ChannelOf[e], x)) \in Nat
  BY CreditedCounts DEF Credit, TypeOK
<1>4. CASE <<e, x>> = i
  <2>1. copies'[<<e, x>>] = copies[<<e, x>>] + 1
    BY <1>1, <1>4 DEF TryAccepted, Reached, TypeOK
  <2> QED
    BY <1>3, <2>1 DEF OnAccount
<1>5. CASE <<e, x>> # i
  <2>1. copies'[<<e, x>>] = copies[<<e, x>>]
    BY <1>1, <1>5 DEF TryAccepted, Reached, TypeOK
  <2>2. <<e, x>> \in delivered' <=> <<e, x>> \in delivered
    BY <1>5 DEF TryAccepted
  <2> QED
    BY <1>3, <2>1, <2>2 DEF OnAccount
<1> QED
  BY <1>4, <1>5

LEMMA CreditEnd ==
  ASSUME TypeOK, TypeOK', Holding, Credit, Tracked, EndDelivery
  PROVE  Credit'
<1> USE DEF table, world
<1>1. current \in Alerts /\ TextOf[current] \in Texts
  BY OutboxAssumption DEF Holding, EndDelivery
<1> DEFINE good == {c \in Channels : <<current, c>> \notin channelsDone /\ c \notin errors}
<1> SUFFICES ASSUME NEW d \in Dests, NEW x \in Texts
             PROVE  copies[<<d, x>>] >= Cardinality(Credited(ChannelOf[d], x)') + OnAccount(d, x)'
  BY DEF Credit, EndDelivery
<1> DEFINE c == ChannelOf[d]
           old == Credited(c, x)
           new == Credited(c, x)'
<1>2. c \in Channels
  BY ChannelTyped
<1>3. copies[<<d, x>>] >= Cardinality(old) + OnAccount(d, x) /\ copies[<<d, x>>] \in Nat
  BY DEF Credit, TypeOK
<1>4. IsFiniteSet(old) /\ IsFiniteSet(new) /\ Cardinality(old) \in Nat /\ Cardinality(new) \in Nat
  <2>1. old \subseteq Alerts /\ new \subseteq Alerts
    BY DEF Credited
  <2> QED
    BY <2>1, CreditedFinite
<1>5. delivered' \subseteq delivered
  BY DEF EndDelivery
<1>6. CASE c \in good /\ x = TextOf[current]
  <2>1. <<d, x>> \in delivered /\ <<d, x>> \notin delivered'
    BY <1>6 DEF Tracked, EndDelivery
  <2>2. new \subseteq old \cup {current}
    BY DEF Credited, EndDelivery, AllReached, Holding
  <2>3. Cardinality(new) <= Cardinality(old) + 1
    <3> HIDE DEF old, new
    <3> QED
      BY <1>4, <2>2, CountGrowsByOne
  <2> QED
    BY <1>3, <1>4, <2>1, <2>3 DEF OnAccount
<1>7. CASE ~(c \in good /\ x = TextOf[current])
  <2>1. new \subseteq old
    BY <1>2, <1>7 DEF Credited, EndDelivery, AllReached, Holding
  <2>2. Cardinality(new) <= Cardinality(old)
    BY <1>4, <2>1, FS_Subset
  <2> QED
    BY <1>3, <1>4, <1>5, <2>2 DEF OnAccount
<1> QED
  BY <1>6, <1>7

Books == TypeOK /\ Holding /\ Credit /\ Tracked

LEMMA BooksNext == Books /\ [Next]_vars => Books'
<1> SUFFICES ASSUME Books, [Next]_vars PROVE Books'
  OBVIOUS
<1> USE DEF table, memory, world
<1>1. TypeOK /\ Holding /\ Credit /\ Tracked /\ TypeOK' /\ Holding'
  BY TypesNext DEF Books
<1>2. ASSUME \A c, x : Credited(c, x)' \subseteq Credited(c, x),
             delivered' \subseteq delivered, UNCHANGED copies
      PROVE  Credit'
  BY <1>1, <1>2, CreditShrinks DEF TypeOK
<1>3. ASSUME NEW a \in Alerts, Insert(a) \/ Elapse(a) \/ Suppress(a) PROVE Books'
  <2>1. \A c, x : Credited(c, x)' \subseteq Credited(c, x)
    BY <1>1, <1>3 DEF Credited, Insert, Elapse, Suppress, TypeOK
  <2>2. Tracked'
    BY <1>1, <1>3 DEF Tracked, Insert, Elapse, Suppress
  <2> QED
    BY <1>1, <1>2, <1>3, <2>1, <2>2 DEF Books, Insert, Elapse, Suppress
<1>4. ASSUME NEW a \in Alerts, Claim(a) \/ ClaimUnacknowledged(a) PROVE Books'
  <2>1. \A c, x : Credited(c, x)' \subseteq Credited(c, x)
    BY <1>1, <1>4 DEF Credited, Claim, ClaimUnacknowledged, ClaimRow, TypeOK
  <2>2. Tracked'
    BY <1>1, <1>4 DEF Tracked, Claim, ClaimUnacknowledged, ClaimRow, ToTry
  <2> QED
    BY <1>1, <1>2, <1>4, <2>1, <2>2 DEF Books, Claim, ClaimUnacknowledged
<1>5. ASSUME NEW d \in Dests, TryAccepted(d) PROVE Books'
  <2>1. Tracked'
    BY <1>1, <1>5 DEF Tracked, TryAccepted
  <2> QED
    BY <1>1, <1>5, <2>1, CreditTry DEF Books
<1>6. ASSUME NEW d \in Dests, TryRefused(d) \/ TryLost(d) PROVE Books'
  <2>1. \A c, x : Credited(c, x)' \subseteq Credited(c, x)
    BY <1>6 DEF Credited, TryRefused, TryLost
  <2>2. \A i \in Dests \X Texts : copies'[i] >= copies[i]
    BY <1>1, <1>6 DEF TryRefused, TryLost, Reached, TypeOK
  <2>3. Tracked'
    BY <1>1, <1>6 DEF Tracked, TryRefused, TryLost, Abandons
  <2> QED
    BY <1>1, <1>6, <2>1, <2>2, <2>3, CreditShrinks DEF Books, TryRefused, TryLost
<1>7. CASE EndDelivery
  <2>1. Tracked'
    BY <1>7 DEF Tracked, EndDelivery
  <2> QED
    BY <1>1, <1>7, <2>1, CreditEnd DEF Books
<1>8. CASE RecordSent \/ RecordRefused \/ RecordFails
  <2>1. \A c, x : Credited(c, x)' \subseteq Credited(c, x)
    BY <1>1, <1>8 DEF Credited, RecordSent, RecordRefused, RecordFails, Release, TypeOK, Holding
  <2>2. Tracked'
    BY <1>8 DEF Tracked, RecordSent, RecordRefused, RecordFails, Release
  <2> QED
    BY <1>1, <1>2, <1>8, <2>1, <2>2 DEF Books, RecordSent, RecordRefused, RecordFails, Release
<1>9. CASE Crash
  <2>1. \A c, x : Credited(c, x)' \subseteq Credited(c, x)
    BY <1>1, <1>9 DEF Credited, Crash, Requeued, TypeOK
  <2>2. Tracked'
    BY <1>9 DEF Tracked, Crash
  <2> QED
    BY <1>1, <1>2, <1>9, <2>1, <2>2 DEF Books, Crash
<1>10. CASE UNCHANGED vars
  <2>1. \A c, x : Credited(c, x)' \subseteq Credited(c, x)
    BY <1>10 DEF Credited, vars
  <2>2. Tracked'
    BY <1>1, <1>10 DEF Tracked, vars
  <2> QED
    BY <1>1, <1>2, <1>10, <2>1, <2>2 DEF Books, vars
<1> QED
  BY <1>3, <1>4, <1>5, <1>6, <1>7, <1>8, <1>9, <1>10 DEF Next, Dispatch

LEMMA BooksInit == Init => Books
<1> SUFFICES ASSUME Init PROVE Credit /\ Tracked
  BY TypesInit DEF Books
<1>1. \A c, x : Credited(c, x) = {}
  BY DEF Init, Credited
<1> QED
  BY <1>1, FS_EmptySet DEF Init, Credit, Tracked, OnAccount

-----------------------------------------------------------------------------
(* The refinement: each step of the outbox is a step of AlertDelivery or    *)
(* leaves its state alone.                                                  *)

LEMMA SameCardinality == \A S : Promise!Cardinality(S) = Cardinality(S)
  BY DEF Cardinality, IsFiniteSet, Promise!Cardinality, Promise!IsFiniteSet

LEMMA RecordSentDelivers ==
  ASSUME Books, RecordSent
  PROVE  Promise!Deliver(current)
<1> USE DEF table, memory, world
<1> DEFINE x == TextOf[current]
<1>1. current \in Alerts /\ status[current] = "SENDING" /\ x \in Texts
  BY OutboxAssumption DEF Books, Holding, RecordSent
<1>2. ASSUME NEW d \in Dests
      PROVE  copies[<<d, x>>] > Cardinality(Promise!Sent(x))
  <2> DEFINE sent == Promise!Sent(x)
             credited == Credited(ChannelOf[d], x)
  <2>1. sent \subseteq Alerts /\ current \notin sent
    BY <1>1 DEF Promise!Sent, Promised
  <2>2. sent \cup {current} \subseteq credited
    BY <1>1, <2>1 DEF Promise!Sent, Promised, Credited, RecordSent, Books, TypeOK, Statuses
  <2>3. IsFiniteSet(credited) /\ Cardinality(credited) \in Nat /\ Cardinality(sent) \in Nat
        /\ IsFiniteSet(sent)
    BY <2>1, CreditedFinite DEF Credited
  <2> HIDE DEF sent, credited
  <2>4. IsFiniteSet(sent \cup {current})
        /\ Cardinality(sent \cup {current}) = Cardinality(sent) + 1
    BY <2>1, <2>3, FS_AddElement
  <2>5. sent \cup {current} \in SUBSET credited
    BY <2>2
  <2>6. Cardinality(sent \cup {current}) <= Cardinality(credited)
    BY <2>3, <2>5, FS_Subset
  <2>7. copies[<<d, x>>] >= Cardinality(credited) /\ copies[<<d, x>>] \in Nat
    BY <1>1, <2>3 DEF credited, Books, Credit, OnAccount, TypeOK
  <2> QED
    BY <2>3, <2>4, <2>6, <2>7 DEF sent
<1>3. Promised[current] = "open" /\ Promised' = [Promised EXCEPT ![current] = "sent"]
  BY <1>1 DEF Promised, RecordSent, Books, TypeOK
<1> QED
  BY <1>2, <1>3, SameCardinality DEF Promise!Deliver, Promise!Move, RecordSent

LEMMA OutboxStepsRefine ==
  Books /\ [Next]_vars => [Promise!Next]_<<Promised, copies>>
<1> SUFFICES ASSUME Books, [Next]_vars
             PROVE  Promise!Next \/ UNCHANGED <<Promised, copies>>
  OBVIOUS
<1> USE DEF table, memory, world
<1>1. TypeOK /\ Holding
  BY DEF Books
<1>2. ASSUME NEW a \in Alerts, Insert(a) PROVE Promise!Next
  <2>1. Promised[a] = "new" /\ Promised' = [Promised EXCEPT ![a] = "open"]
    BY <1>1, <1>2 DEF Insert, Promised, TypeOK
  <2> QED
    BY <1>2, <2>1 DEF Insert, Promise!Next, Promise!Accept, Promise!Move
<1>3. ASSUME NEW a \in Alerts, Suppress(a) PROVE Promise!Next
  <2>1. Promised[a] = "open" /\ Promised' = [Promised EXCEPT ![a] = "dropped"]
    BY <1>1, <1>3 DEF Suppress, IsNextDue, Due, Promised, TypeOK
  <2> QED
    BY <1>3, <2>1 DEF Suppress, Promise!Next, Promise!GiveUp, Promise!Move
<1>4. ASSUME NEW a \in Alerts, Claim(a) \/ ClaimUnacknowledged(a)
      PROVE  UNCHANGED <<Promised, copies>>
  BY <1>1, <1>4 DEF Claim, ClaimUnacknowledged, ClaimRow, IsNextDue, Due, Promised, TypeOK
<1>5. ASSUME NEW d \in Dests, TryAccepted(d) \/ TryLost(d) PROVE Promise!Next
  <2>1. current \in Alerts /\ Promised[current] = "open"
    BY <1>1, <1>5 DEF TryAccepted, TryLost, Holding, Promised
  <2>2. Promised' = Promised
    BY <1>5 DEF TryAccepted, TryLost, Promised
  <2>3. Promise!Copy(current, d)
    BY <1>5, <2>1, <2>2 DEF TryAccepted, TryLost, Reached, Promise!Copy
  <2> QED
    BY <1>5, <2>1, <2>3 DEF Promise!Next
<1>6. CASE RecordSent
  <2>1. current \in Alerts
    BY <1>1, <1>6 DEF RecordSent, Holding
  <2> QED
    BY <1>6, <2>1, RecordSentDelivers DEF Promise!Next
<1>7. CASE RecordRefused
  <2>1. current \in Alerts /\ status[current] = "SENDING"
    BY <1>1, <1>7 DEF RecordRefused, Holding
  <2>2. CASE GivesUp
    <3>1. Promised[current] = "open" /\ Promised' = [Promised EXCEPT ![current] = "dropped"]
      BY <1>1, <1>7, <2>1, <2>2 DEF RecordRefused, Promised, TypeOK
    <3> QED
      BY <1>7, <2>1, <3>1 DEF RecordRefused, Promise!Next, Promise!GiveUp, Promise!Move
  <2>3. CASE ~GivesUp
    BY <1>1, <1>7, <2>1, <2>3 DEF RecordRefused, Promised, TypeOK
  <2> QED
    BY <2>2, <2>3
<1>8. CASE Crash
  BY <1>1, <1>8 DEF Crash, Requeued, Promised, TypeOK
<1>9. CASE (\E a \in Alerts : Elapse(a)) \/ (\E d \in Dests : TryRefused(d)) \/ EndDelivery
           \/ RecordFails \/ UNCHANGED vars
  BY <1>9 DEF Elapse, TryRefused, EndDelivery, RecordFails, Promised, vars
<1> QED
  BY <1>2, <1>3, <1>4, <1>5, <1>6, <1>7, <1>8, <1>9 DEF Next, Dispatch

(* The outbox implements AlertDelivery: a row is recorded SENT only when    *)
(* every chat has a copy for it, through partial failures, retries, shared  *)
(* texts, restarts and database errors.                                     *)
THEOREM OutboxKeepsPromise == Spec => KeepsPromise
<1>1. Init => Promise!Init
  BY DEF Init, Promise!Init, Promised
<1> QED
  BY <1>1, BooksInit, BooksNext, OutboxStepsRefine, PTL DEF Spec, KeepsPromise, Promise!Spec

-----------------------------------------------------------------------------
(* Copies.  Since the last crash a chat got one copy for every alert that  *)
(* its bot has spent on it and one that is on account; no bot spends an     *)
(* alert twice before a crash.                                              *)

Tried(x) == {a \in Alerts : TextOf[a] = x /\ attempts[a] > 0}

(* Alerts that bot c will not send again before a crash.                    *)
Spent(c, x) == {a \in Tried(x) :
  \/ status[a] = "SENT"
  \/ status[a] = "SENDING" /\ a # current
  \/ <<a, c>> \in channelsDone
  \/ phase = "sent" /\ a = current}

Balance == \A d \in Dests, x \in Texts :
  copies[<<d, x>>] <= Cardinality(Tried(x)) * crashes + losses
                        + Cardinality(Spent(ChannelOf[d], x)) + OnAccount(d, x)

(* A chat still to be tried has no copy on account, its bot is not done.    *)
Untried == phase = "deliver" =>
  \A d \in left : <<d, TextOf[current]>> \notin delivered
                    /\ <<current, ChannelOf[d]>> \notin channelsDone

Counted == \A a \in Alerts : status[a] = "SENDING" => attempts[a] > 0

Ledger == Balance /\ NoNeedlessCopy /\ Untried /\ Counted

LEMMA TriedFacts ==
  ASSUME NEW c, NEW x
  PROVE  /\ IsFiniteSet(Tried(x)) /\ Cardinality(Tried(x)) \in Nat
         /\ IsFiniteSet(Spent(c, x)) /\ Cardinality(Spent(c, x)) \in Nat
         /\ Cardinality(Spent(c, x)) <= Cardinality(Tried(x))
<1>1. Tried(x) \subseteq Alerts /\ Spent(c, x) \subseteq Tried(x)
  BY DEF Tried, Spent
<1>2. IsFiniteSet(Tried(x)) /\ Cardinality(Tried(x)) \in Nat
  BY <1>1, CreditedFinite
<1>3. IsFiniteSet(Spent(c, x)) /\ Cardinality(Spent(c, x)) \in Nat
  BY <1>1, CreditedFinite
<1> QED
  BY <1>1, <1>2, <1>3, FS_Subset

LEMMA TriedFactsNext ==
  ASSUME NEW c, NEW x
  PROVE  /\ IsFiniteSet(Tried(x)') /\ Cardinality(Tried(x)') \in Nat
         /\ IsFiniteSet(Spent(c, x)') /\ Cardinality(Spent(c, x)') \in Nat
         /\ Cardinality(Spent(c, x)') <= Cardinality(Tried(x)')
<1>1. Tried(x)' \subseteq Alerts /\ Spent(c, x)' \subseteq Tried(x)'
  BY DEF Tried, Spent
<1>2. IsFiniteSet(Tried(x)') /\ Cardinality(Tried(x)') \in Nat
  BY <1>1, CreditedFinite
<1>3. IsFiniteSet(Spent(c, x)') /\ Cardinality(Spent(c, x)') \in Nat
  BY <1>1, CreditedFinite
<1> QED
  BY <1>1, <1>2, <1>3, FS_Subset

LEMMA ProductFacts ==
  ASSUME NEW m \in Nat, NEW n \in Nat, NEW k \in Nat, m <= n
  PROVE  /\ m * k \in Nat /\ n * k \in Nat /\ m * k <= n * k
         /\ n * (1 + k) = n * k + n /\ n * (k + 1) = n * k + n
<1>1. /\ m * k \in Nat /\ n * k \in Nat /\ (n - m) * k >= 0
      /\ n * k = m * k + (n - m) * k
  BY SMT
<1>2. (n - m) * k \in Int
  BY SMT
<1>3. n * (1 + k) = n * k + n /\ n * (k + 1) = n * k + n
  BY SMT
<1> QED
  BY <1>1, <1>2, <1>3

(* The books of one chat and text, in plain numbers.                        *)
LEMMA OnBooks ==
  ASSUME TypeOK, Ledger, NEW d \in Dests, NEW x \in Texts
  PROVE  LET t == Cardinality(Tried(x)) IN
         /\ copies[<<d, x>>] \in Nat /\ crashes \in Nat /\ losses \in Nat
         /\ copies[<<d, x>>] <= t * crashes + losses
                                  + Cardinality(Spent(ChannelOf[d], x)) + OnAccount(d, x)
         /\ copies[<<d, x>>] <= t * crashes + t + losses
<1>1. copies[<<d, x>>] \in Nat /\ crashes \in Nat /\ losses \in Nat
  BY OutboxAssumption DEF TypeOK
<1>2. copies[<<d, x>>] <= Cardinality(Tried(x)) * (1 + crashes) + losses
  BY DEF Ledger, NoNeedlessCopy, Tried
<1>3. Cardinality(Tried(x)) \in Nat
  BY TriedFacts
<1>4. Cardinality(Tried(x)) * (1 + crashes) = Cardinality(Tried(x)) * crashes + Cardinality(Tried(x))
  BY <1>1, <1>3, ProductFacts
<1>5. copies[<<d, x>>] <= Cardinality(Tried(x)) * crashes + losses
                            + Cardinality(Spent(ChannelOf[d], x)) + OnAccount(d, x)
  BY DEF Ledger, Balance
<1> QED
  BY <1>1, <1>2, <1>4, <1>5

(* What is tried or spent only grows, and nothing is taken from an account: *)
(* the books stay in order.                                                 *)
LEMMA LedgerGrows ==
  ASSUME TypeOK, TypeOK', Ledger,
         \A x : Tried(x) \subseteq Tried(x)',
         \A c, x : Spent(c, x) \subseteq Spent(c, x)',
         delivered \subseteq delivered', UNCHANGED <<copies, crashes, losses>>
  PROVE  Balance' /\ NoNeedlessCopy'
<1> SUFFICES ASSUME NEW d \in Dests, NEW x \in Texts
             PROVE  /\ copies'[<<d, x>>] <= Cardinality(Tried(x)') * crashes' + losses'
                         + Cardinality(Spent(ChannelOf[d], x)') + OnAccount(d, x)'
                    /\ copies'[<<d, x>>] <= Cardinality(Tried(x)') * (1 + crashes') + losses'
  BY DEF Balance, NoNeedlessCopy, Tried
<1> DEFINE t == Cardinality(Tried(x))
           u == Cardinality(Tried(x)')
           s == Cardinality(Spent(ChannelOf[d], x))
           r == Cardinality(Spent(ChannelOf[d], x)')
<1>1. t \in Nat /\ u \in Nat /\ s \in Nat /\ r \in Nat
  BY TriedFacts, TriedFactsNext
<1>2. t <= u
  BY TriedFactsNext, FS_Subset
<1>3. s <= r
  BY TriedFactsNext, FS_Subset
<1>4. /\ copies[<<d, x>>] \in Nat /\ crashes \in Nat /\ losses \in Nat
      /\ copies[<<d, x>>] <= t * crashes + losses + s + OnAccount(d, x)
      /\ copies[<<d, x>>] <= t * crashes + t + losses
  BY OnBooks
<1>5. OnAccount(d, x) \in Nat /\ OnAccount(d, x)' \in Nat /\ OnAccount(d, x) <= OnAccount(d, x)'
  BY DEF OnAccount
<1> HIDE DEF t, u, s, r
<1>6. t * crashes \in Nat /\ u * crashes \in Nat /\ t * crashes <= u * crashes
      /\ u * (1 + crashes) = u * crashes + u
  BY <1>1, <1>2, <1>4, ProductFacts
<1>7. copies[<<d, x>>] <= u * crashes + losses + r + OnAccount(d, x)'
  BY <1>1, <1>3, <1>4, <1>5, <1>6
<1>8. copies[<<d, x>>] <= u * (1 + crashes) + losses
  BY <1>1, <1>2, <1>4, <1>6
<1> QED
  BY <1>7, <1>8 DEF u, r

(* An accepted message takes an alert that its bot has not spent.           *)
LEMMA LedgerTry ==
  ASSUME TypeOK, Holding, Ledger, NEW d \in Dests, TryAccepted(d)
  PROVE  Balance' /\ NoNeedlessCopy'
<1> USE DEF table
<1>1. /\ current \in Alerts /\ TextOf[current] \in Texts /\ status[current] = "SENDING"
      /\ attempts[current] > 0 /\ d \in left /\ phase = "deliver" /\ phase' = phase
  BY OutboxAssumption DEF Holding, TryAccepted, Ledger, Counted
<1>2. \A c, x : Tried(x)' = Tried(x) /\ Spent(c, x)' = Spent(c, x)
  BY DEF TryAccepted, Tried, Spent
<1>3. UNCHANGED <<crashes, losses>>
  BY DEF TryAccepted
<1> SUFFICES ASSUME NEW e \in Dests, NEW x \in Texts
             PROVE  /\ copies'[<<e, x>>] <= Cardinality(Tried(x)) * crashes + losses
                         + Cardinality(Spent(ChannelOf[e], x)) + OnAccount(e, x)'
                    /\ copies'[<<e, x>>] <= Cardinality(Tried(x)) * (1 + crashes) + losses
  BY <1>2, <1>3 DEF Balance, NoNeedlessCopy, Tried
<1> DEFINE t == Cardinality(Tried(x))
           s == Cardinality(Spent(ChannelOf[e], x))
<1>4. t \in Nat /\ s \in Nat /\ s <= t
  BY TriedFacts
<1>5. /\ copies[<<e, x>>] \in Nat /\ crashes \in Nat /\ losses \in Nat
      /\ copies[<<e, x>>] <= t * crashes + losses + s + OnAccount(e, x)
      /\ copies[<<e, x>>] <= t * crashes + t + losses
  BY OnBooks
<1>6. t * crashes \in Nat /\ t * (1 + crashes) = t * crashes + t
  BY <1>4, <1>5, ProductFacts
<1>7. CASE <<e, x>> = <<d, TextOf[current]>>
  <2>1. copies'[<<e, x>>] = copies[<<e, x>>] + 1
    BY <1>1, <1>7 DEF TryAccepted, Reached, TypeOK
  <2>2. OnAccount(e, x) = 0 /\ OnAccount(e, x)' = 1
    BY <1>1, <1>7 DEF Ledger, Untried, TryAccepted, OnAccount
  <2>3. current \in Tried(x) /\ current \notin Spent(ChannelOf[e], x)
    BY <1>1, <1>7 DEF Ledger, Untried, Tried, Spent
  <2>4. s < t
    <3>1. Spent(ChannelOf[e], x) \subseteq Tried(x) /\ Spent(ChannelOf[e], x) # Tried(x)
      BY <2>3 DEF Spent
    <3>2. Cardinality(Spent(ChannelOf[e], x)) # Cardinality(Tried(x))
      BY <3>1, TriedFacts, FS_Subset
    <3> QED
      BY <1>4, <3>2
  <2> HIDE DEF t, s
  <2>5. copies'[<<e, x>>] <= t * crashes + losses + s + OnAccount(e, x)'
    BY <1>4, <1>5, <1>6, <2>1, <2>2
  <2>6. copies'[<<e, x>>] <= t * (1 + crashes) + losses
    BY <1>4, <1>5, <1>6, <2>1, <2>2, <2>4
  <2> QED
    BY <2>5, <2>6 DEF t, s
<1>8. CASE <<e, x>> # <<d, TextOf[current]>>
  <2>1. copies'[<<e, x>>] = copies[<<e, x>>]
    BY <1>1, <1>8 DEF TryAccepted, Reached, TypeOK
  <2>2. OnAccount(e, x)' = OnAccount(e, x)
    BY <1>8 DEF TryAccepted, OnAccount
  <2> HIDE DEF t, s
  <2>3. copies'[<<e, x>>] <= t * (1 + crashes) + losses
    BY <1>4, <1>5, <1>6, <2>1
  <2> QED
    BY <1>5, <2>1, <2>2, <2>3 DEF t, s
<1> QED
  BY <1>7, <1>8

(* A lost answer pays for its copy.                                         *)
LEMMA LedgerLost ==
  ASSUME TypeOK, Holding, Ledger, NEW d \in Dests, TryLost(d)
  PROVE  Balance' /\ NoNeedlessCopy'
<1> USE DEF table
<1>1. current \in Alerts /\ TextOf[current] \in Texts
  BY OutboxAssumption DEF Holding, TryLost
<1>2. \A c, x : Tried(x)' = Tried(x) /\ Spent(c, x)' = Spent(c, x)
  BY DEF TryLost, Tried, Spent
<1>3. UNCHANGED <<crashes, delivered>> /\ losses' = losses + 1
  BY DEF TryLost
<1> SUFFICES ASSUME NEW e \in Dests, NEW x \in Texts
             PROVE  /\ copies'[<<e, x>>] <= Cardinality(Tried(x)) * crashes + losses'
                         + Cardinality(Spent(ChannelOf[e], x)) + OnAccount(e, x)
                    /\ copies'[<<e, x>>] <= Cardinality(Tried(x)) * (1 + crashes) + losses'
  BY <1>2, <1>3 DEF Balance, NoNeedlessCopy, Tried, OnAccount
<1> DEFINE t == Cardinality(Tried(x))
           s == Cardinality(Spent(ChannelOf[e], x))
<1>4. t \in Nat /\ s \in Nat
  BY TriedFacts
<1>5. /\ copies[<<e, x>>] \in Nat /\ crashes \in Nat /\ losses \in Nat
      /\ copies[<<e, x>>] <= t * crashes + losses + s + OnAccount(e, x)
      /\ copies[<<e, x>>] <= t * crashes + t + losses
  BY OnBooks
<1>6. t * crashes \in Nat /\ t * (1 + crashes) = t * crashes + t
  BY <1>4, <1>5, ProductFacts
<1>7. copies'[<<e, x>>] <= copies[<<e, x>>] + 1 /\ copies'[<<e, x>>] \in Nat
  BY <1>1, <1>5 DEF TryLost, Reached, TypeOK
<1>8. OnAccount(e, x) \in Nat
  BY DEF OnAccount
<1> HIDE DEF t, s
<1>9. copies'[<<e, x>>] <= t * crashes + losses' + s + OnAccount(e, x)
  BY <1>3, <1>4, <1>5, <1>6, <1>7, <1>8
<1>10. copies'[<<e, x>>] <= t * (1 + crashes) + losses'
  BY <1>3, <1>4, <1>5, <1>6, <1>7
<1> QED
  BY <1>9, <1>10 DEF t, s

(* A bot that reached all its chats spends the alert, and what the chats    *)
(* had on account pays for it.                                              *)
LEMMA LedgerEnd ==
  ASSUME TypeOK, Holding, Ledger, EndDelivery
  PROVE  Balance' /\ NoNeedlessCopy'
<1> USE DEF table, world
<1>1. /\ current \in Alerts /\ TextOf[current] \in Texts /\ status[current] = "SENDING"
      /\ attempts[current] > 0 /\ phase = "deliver" /\ errors \subseteq Channels
  BY OutboxAssumption DEF Holding, EndDelivery, Ledger, Counted, TypeOK
<1> DEFINE good == {c \in Channels : <<current, c>> \notin channelsDone /\ c \notin errors}
<1>2. \A x : Tried(x)' = Tried(x)
  BY DEF EndDelivery, Tried
<1>3. UNCHANGED <<copies, crashes, losses, attempts, status, current>>
  BY DEF EndDelivery
<1> SUFFICES ASSUME NEW e \in Dests, NEW x \in Texts
             PROVE  /\ copies[<<e, x>>] <= Cardinality(Tried(x)) * crashes + losses
                         + Cardinality(Spent(ChannelOf[e], x)') + OnAccount(e, x)'
                    /\ copies[<<e, x>>] <= Cardinality(Tried(x)) * (1 + crashes) + losses
  BY <1>2, <1>3 DEF Balance, NoNeedlessCopy, Tried
<1> DEFINE c == ChannelOf[e]
           t == Cardinality(Tried(x))
           s == Cardinality(Spent(c, x))
           r == Cardinality(Spent(c, x)')
<1>4. t \in Nat /\ s \in Nat /\ r \in Nat
  BY TriedFacts, TriedFactsNext
<1>5. /\ copies[<<e, x>>] \in Nat /\ crashes \in Nat /\ losses \in Nat
      /\ copies[<<e, x>>] <= t * crashes + losses + s + OnAccount(e, x)
      /\ copies[<<e, x>>] <= t * (1 + crashes) + losses
  BY OnBooks DEF Ledger, NoNeedlessCopy, Tried
<1>6. t * crashes \in Nat
  BY <1>4, <1>5, ProductFacts
<1>7. OnAccount(e, x) \in {0, 1} /\ OnAccount(e, x)' \in {0, 1}
  BY DEF OnAccount
<1>8. c \in Channels
  BY ChannelTyped
<1>9. Spent(c, x) \subseteq Spent(c, x)'
  <2>1. CASE AllReached
    BY <1>3, <2>1 DEF EndDelivery, Spent, Tried
  <2>2. CASE ~AllReached
    BY <1>1, <1>3, <2>2 DEF EndDelivery, Spent, Tried
  <2> QED
    BY <2>1, <2>2
<1>10. s <= r
  BY <1>9, TriedFactsNext, FS_Subset
<1>11. CASE c \in good /\ x = TextOf[current]
  <2>1. current \in Spent(c, x)'
    BY <1>1, <1>3, <1>11 DEF EndDelivery, AllReached, Spent, Tried
  <2>2. current \notin Spent(c, x)
    BY <1>1, <1>11 DEF Spent
  <2>3. s < r
    <3>1. Spent(c, x) # Spent(c, x)'
      BY <2>1, <2>2
    <3> HIDE DEF c
    <3>2. Cardinality(Spent(c, x)) # Cardinality(Spent(c, x)')
      BY <1>9, <3>1, TriedFactsNext, FS_Subset
    <3> QED
      BY <1>4, <1>10, <3>2
  <2> HIDE DEF t, s, r, c
  <2>4. copies[<<e, x>>] <= t * crashes + losses + r + OnAccount(e, x)'
    BY <1>4, <1>5, <1>6, <1>7, <2>3
  <2> QED
    BY <1>5, <2>4 DEF t, r, c
<1>12. CASE ~(c \in good /\ x = TextOf[current])
  <2>1. OnAccount(e, x)' = OnAccount(e, x)
    BY <1>8, <1>12 DEF EndDelivery, OnAccount
  <2> HIDE DEF t, s, r, c
  <2>2. copies[<<e, x>>] <= t * crashes + losses + r + OnAccount(e, x)'
    BY <1>4, <1>5, <1>6, <1>7, <1>10, <2>1
  <2> QED
    BY <1>5, <2>2 DEF t, r, c
<1> QED
  BY <1>11, <1>12

(* A crash forgets who was reached: every tried alert may be copied again.  *)
LEMMA LedgerCrash ==
  ASSUME TypeOK, Ledger, Crash
  PROVE  Balance' /\ NoNeedlessCopy'
<1>1. \A x : Tried(x)' = Tried(x)
  BY DEF Crash, Tried
<1>2. crashes' = crashes + 1 /\ UNCHANGED <<copies, losses>>
  BY DEF Crash
<1> SUFFICES ASSUME NEW e \in Dests, NEW x \in Texts
             PROVE  /\ copies[<<e, x>>] <= Cardinality(Tried(x)) * crashes' + losses
                         + Cardinality(Spent(ChannelOf[e], x)') + OnAccount(e, x)'
                    /\ copies[<<e, x>>] <= Cardinality(Tried(x)) * (1 + crashes') + losses
  BY <1>1, <1>2 DEF Balance, NoNeedlessCopy, Tried
<1> DEFINE t == Cardinality(Tried(x))
           r == Cardinality(Spent(ChannelOf[e], x)')
<1>3. t \in Nat /\ r \in Nat
  BY TriedFacts, TriedFactsNext
<1>4. /\ copies[<<e, x>>] \in Nat /\ crashes \in Nat /\ losses \in Nat
      /\ copies[<<e, x>>] <= t * crashes + t + losses
  BY OnBooks
<1>5. t * crashes \in Nat /\ t * (crashes + 1) = t * crashes + t
  BY <1>3, <1>4, ProductFacts
<1>6. t * (crashes + 1) \in Nat /\ t * (1 + (crashes + 1)) = t * (crashes + 1) + t
  <2>1. crashes + 1 \in Nat
    BY <1>4
  <2> HIDE DEF t
  <2> QED
    BY <1>3, <2>1, ProductFacts
<1>7. OnAccount(e, x)' \in Nat
  BY DEF OnAccount
<1> HIDE DEF t, r
<1>8. copies[<<e, x>>] <= t * crashes' + losses + r + OnAccount(e, x)'
  BY <1>2, <1>3, <1>4, <1>5, <1>7
<1>9. copies[<<e, x>>] <= t * (1 + crashes') + losses
  BY <1>2, <1>3, <1>4, <1>5, <1>6
<1> QED
  BY <1>8, <1>9 DEF t, r

LEMMA LedgerNext == TypeOK /\ Holding /\ Ledger /\ [Next]_vars => Ledger'
<1> SUFFICES ASSUME TypeOK, Holding, Ledger, [Next]_vars PROVE Ledger'
  OBVIOUS
<1> USE DEF table, memory, world
<1>1. TypeOK' /\ Holding' /\ Balance /\ Untried /\ Counted
  BY TypesNext DEF Ledger
<1>2. ASSUME \A x : Tried(x) \subseteq Tried(x)',
             \A c, x : Spent(c, x) \subseteq Spent(c, x)',
             delivered \subseteq delivered', UNCHANGED <<copies, crashes, losses>>
      PROVE  Balance' /\ NoNeedlessCopy'
  BY <1>1, <1>2, LedgerGrows
<1>3. ASSUME NEW a \in Alerts, Insert(a) \/ Elapse(a) \/ Suppress(a) PROVE Ledger'
  <2>1. \A c, x : Tried(x) \subseteq Tried(x)' /\ Spent(c, x) \subseteq Spent(c, x)'
    BY <1>3 DEF Tried, Spent, Insert, Elapse, Suppress, IsNextDue, Due, TypeOK
  <2>2. UNCHANGED <<delivered, copies, crashes, losses>>
    BY <1>3 DEF Insert, Elapse, Suppress
  <2>3. Untried' /\ Counted'
    BY <1>1, <1>3 DEF Untried, Counted, Insert, Elapse, Suppress, TypeOK
  <2> QED
    BY <1>2, <2>1, <2>2, <2>3 DEF Ledger
<1>4. ASSUME NEW a \in Alerts, Claim(a) \/ ClaimUnacknowledged(a) PROVE Ledger'
  <2>1. /\ status[a] = "PENDING" /\ phase = "idle"
        /\ status' = [status EXCEPT ![a] = "SENDING"]
        /\ attempts' = [attempts EXCEPT ![a] = @ + 1]
    BY <1>4 DEF Claim, ClaimUnacknowledged, ClaimRow, IsNextDue, Due
  <2>2. UNCHANGED <<channelsDone, delivered, copies, crashes, losses>>
        /\ phase' \in {"idle", "deliver"} /\ current' \in {current, a}
    BY <1>4, <2>1 DEF Claim, ClaimUnacknowledged
  <2>3. \A b \in Alerts : attempts[b] > 0 => attempts'[b] > 0
    BY <2>1 DEF TypeOK
  <2>4. \A x : Tried(x) \subseteq Tried(x)'
    BY <2>3 DEF Tried
  <2>5. \A c, x : Spent(c, x) \subseteq Spent(c, x)'
    BY <2>1, <2>2, <2>4 DEF Spent, Tried, TypeOK
  <2>6. Counted'
    BY <1>1, <2>1, <2>3 DEF Counted, TypeOK
  <2>7. Untried'
    BY <1>4, <2>1 DEF Untried, Claim, ClaimUnacknowledged, ToTry
  <2> QED
    BY <1>2, <2>2, <2>4, <2>5, <2>6, <2>7 DEF Ledger
<1>5. ASSUME NEW d \in Dests, TryAccepted(d) PROVE Ledger'
  <2>1. Untried'
    BY <1>1, <1>5 DEF Untried, TryAccepted
  <2>2. Counted'
    BY <1>1, <1>5 DEF Counted, TryAccepted
  <2> QED
    BY <1>5, <2>1, <2>2, LedgerTry DEF Ledger
<1>6. ASSUME NEW d \in Dests, TryRefused(d) \/ TryLost(d) PROVE Ledger'
  <2>1. Untried'
    BY <1>1, <1>6 DEF Untried, TryRefused, TryLost, Abandons
  <2>2. Counted'
    BY <1>1, <1>6 DEF Counted, TryRefused, TryLost
  <2>3. CASE TryRefused(d)
    <3>1. \A c, x : Tried(x) \subseteq Tried(x)' /\ Spent(c, x) \subseteq Spent(c, x)'
      BY <2>3 DEF Tried, Spent, TryRefused
    <3> QED
      BY <1>2, <2>1, <2>2, <2>3, <3>1 DEF Ledger, TryRefused
  <2>4. CASE TryLost(d)
    BY <2>1, <2>2, <2>4, LedgerLost DEF Ledger
  <2> QED
    BY <1>6, <2>3, <2>4
<1>7. CASE EndDelivery
  <2>1. Untried' /\ Counted'
    BY <1>1, <1>7 DEF Untried, Counted, EndDelivery
  <2> QED
    BY <1>7, <2>1, LedgerEnd DEF Ledger
<1>8. CASE RecordSent \/ RecordRefused \/ RecordFails
  <2>1. \A c, x : Tried(x) \subseteq Tried(x)' /\ Spent(c, x) \subseteq Spent(c, x)'
    BY <1>1, <1>8, OutboxAssumption
    DEF Tried, Spent, RecordSent, RecordRefused, RecordFails, Release, TypeOK, Holding
  <2>2. UNCHANGED <<delivered, copies, crashes, losses>>
    BY <1>8 DEF RecordSent, RecordRefused, RecordFails, Release
  <2>3. Untried' /\ Counted'
    BY <1>1, <1>8 DEF Untried, Counted, RecordSent, RecordRefused, RecordFails, Release, TypeOK
  <2> QED
    BY <1>2, <2>1, <2>2, <2>3 DEF Ledger
<1>9. CASE Crash
  <2>1. Untried' /\ Counted'
    BY <1>1, <1>9 DEF Untried, Counted, Crash, Requeued, TypeOK
  <2> QED
    BY <1>9, <2>1, LedgerCrash DEF Ledger
<1>10. CASE UNCHANGED vars
  <2>1. \A c, x : Tried(x) \subseteq Tried(x)' /\ Spent(c, x) \subseteq Spent(c, x)'
    BY <1>10 DEF Tried, Spent, vars
  <2>2. Untried' /\ Counted'
    BY <1>1, <1>10 DEF Untried, Counted, vars
  <2> QED
    BY <1>2, <1>10, <2>1, <2>2 DEF Ledger, vars
<1> QED
  BY <1>3, <1>4, <1>5, <1>6, <1>7, <1>8, <1>9, <1>10 DEF Next, Dispatch

LEMMA LedgerInit == Init => Ledger
<1> SUFFICES ASSUME Init PROVE Ledger
  OBVIOUS
<1>1. \A x : Tried(x) = {}
  BY DEF Init, Tried
<1>2. \A c, x : Spent(c, x) = {}
  BY <1>1 DEF Spent
<1>3. Untried /\ Counted
  BY DEF Init, Untried, Counted
<1>4. Balance
  <2>1. \A c, x : Cardinality(Tried(x)) = 0 /\ Cardinality(Spent(c, x)) = 0
    BY <1>1, <1>2, FS_EmptySet
  <2> QED
    BY <2>1 DEF Init, Balance, OnAccount
<1>5. NoNeedlessCopy
  <2>1. \A x : {a \in Alerts : TextOf[a] = x /\ attempts[a] > 0} = {}
    BY DEF Init
  <2> QED
    BY <2>1, FS_EmptySet DEF Init, NoNeedlessCopy
<1> QED
  BY <1>3, <1>4, <1>5 DEF Ledger

(* A chat gets no second copy of an alert because another chat, another bot *)
(* or the database failed (bot.py:112-148, alerts.py:112-144): copies       *)
(* beyond the alerts of a text that were tried come from crashes and lost   *)
(* answers, whatever texts are shared.                                      *)
THEOREM CopiesAreNeeded == Spec => []NoNeedlessCopy
<1>1. Ledger => NoNeedlessCopy
  BY DEF Ledger
<1> QED
  BY <1>1, TypesInit, TypesNext, LedgerInit, LedgerNext, PTL DEF Spec

=============================================================================
