----------------------------- MODULE MCCollector -----------------------------
(* Small instances of Collector for TLC.                                    *)
EXTENDS Collector

CONSTANTS old, foreign, fresh, garbled

(* One item of the history, and three that the node lists after the start.  *)
MCAt == [e \in Items |-> IF e = old THEN 1 ELSE IF e = fresh THEN 4
                         ELSE IF e = foreign THEN 5 ELSE 6]

Transfer(e) ==
  [object |-> TRUE, contract |-> "usdt", name |-> "Transfer", result |-> TRUE,
   from |-> "hex", to |-> "base58", value |-> Num(5), tx |-> TRUE,
   time |-> Num(At[e]), block |-> Num(1), index |-> NoNum, unconfirmed |-> FALSE]

(* A transfer of another token, and an item whose time is no number.        *)
MCRaw == [e \in Items |->
            IF e = foreign THEN [Transfer(e) EXCEPT !.contract = "other"]
            ELSE IF e = garbled THEN [Transfer(e) EXCEPT !.time.kind = "text"]
            ELSE Transfer(e)]

=============================================================================
