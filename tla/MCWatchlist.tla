----------------------------- MODULE MCWatchlist -----------------------------
(* Small instances of Watchlist for TLC.                                    *)
EXTENDS Watchlist

CONSTANTS confirmed, unconfirmed   \* the polling tasks that match transfers

PauseThenResume == <<"/pause", "/resume">>

=============================================================================
