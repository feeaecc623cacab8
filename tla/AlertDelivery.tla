--------------------------- MODULE AlertDelivery ---------------------------
(***************************************************************************)
(* What the alert outbox promises, without rows, attempts, channels or     *)
(* errors: an accepted alert stays open until it is sent or given up, only *)
(* open alerts reach a chat, and an alert counts as sent only when every   *)
(* chat has a copy of its text for it, beyond the copies of the alerts     *)
(* with the same text that were sent before.                               *)
(***************************************************************************)
EXTENDS Integers, FiniteSets

CONSTANTS Alerts, Texts, TextOf, Dests

VARIABLES state, copies

Sent(x) == {a \in Alerts : TextOf[a] = x /\ state[a] = "sent"}

Init ==
  /\ state = [a \in Alerts |-> "new"]
  /\ copies = [c \in Dests \X Texts |-> 0]

Move(a, from, to) ==
  /\ state[a] = from
  /\ state' = [state EXCEPT ![a] = to]

Accept(a) == Move(a, "new", "open") /\ UNCHANGED copies

Copy(a, d) ==
  /\ state[a] = "open"
  /\ copies' = [copies EXCEPT ![<<d, TextOf[a]>>] = @ + 1]
  /\ UNCHANGED state

Deliver(a) ==
  /\ \A d \in Dests : copies[<<d, TextOf[a]>>] > Cardinality(Sent(TextOf[a]))
  /\ Move(a, "open", "sent")
  /\ UNCHANGED copies

GiveUp(a) == Move(a, "open", "dropped") /\ UNCHANGED copies

Next == \E a \in Alerts :
  Accept(a) \/ Deliver(a) \/ GiveUp(a) \/ \E d \in Dests : Copy(a, d)

Spec == Init /\ [][Next]_<<state, copies>>

=============================================================================
