--------------------------- MODULE MCLiveSnapshot ---------------------------
(* A small instance of LiveSnapshot for TLC.                               *)
EXTENDS LiveSnapshot

CONSTANT q1

msg(type, has) == [type |-> type, has |-> has, nested |-> FALSE, valid |-> TRUE]

\* A full ticker, tickers without a bid and without an ask, a nested one, a
\* message of every other channel, a one-sided book, and one that does not
\* parse.
mcMessages == {
    msg("ticker", Quotes \cup {"funding", "mark", "spot"}),
    msg("ticker", {"ask", "last"}),
    [msg("ticker", {"bid", "mark"}) EXCEPT !.nested = TRUE],
    msg("trade", {"trade"}), msg("candle", {"candle"}), msg("pong", {}),
    msg("orderbook", {"book"}), msg("orderbook", {}),
    msg("mark_price", {"mark"}), msg("spot_price", {"spot"}),
    [msg("ticker", Quotes) EXCEPT !.valid = FALSE]}

mcRequests == {q1}
=============================================================================
