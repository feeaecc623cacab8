---------------------------- MODULE MCAlertOutbox ----------------------------
(* Small instances of AlertOutbox for TLC.                                  *)
EXTENDS AlertOutbox

CONSTANTS urgent, twin, muted   \* urgent and twin have the same text
CONSTANTS main1, main2, extra   \* two chats of the main bot, one of the second bot
CONSTANTS Text, Other

MCMuted     == {muted} \cap Alerts
MCRank      == [a \in Alerts |-> IF a = urgent THEN 0 ELSE IF a = twin THEN 1 ELSE 2]
MCTextOf    == [a \in Alerts |-> IF a = muted THEN Other ELSE Text]
MCChannelOf == [d \in Dests |-> IF d = extra THEN "second" ELSE "main"]

=============================================================================
