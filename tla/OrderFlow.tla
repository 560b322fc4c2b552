------------------------------ MODULE OrderFlow ------------------------------
(***************************************************************************)
(* GET /market/{symbol}/orderflow and the tool get_orderflow_analytics:    *)
(* analyze_orderbook_depth of the book that the exchange quotes now. The   *)
(* code means to prefer the newest stored book, but a row of               *)
(* orderbook_snapshots has no levels, and reading them raises. The         *)
(* exchange is external. A book has bids from the highest down and asks    *)
(* from the lowest up. Prices are in whole price steps, the fifth decimal, *)
(* and results in units of the fourth, to which they are rounded from the  *)
(* exact quotient; sizes are whole contracts.                              *)
(***************************************************************************)
EXTENDS Integers, Sequences, FiniteSets, FiniteSetsExt, Sums, Rounding

CONSTANTS Books,        \* books the exchange may quote, also with one side
          Mids,         \* prices of an instrument that has no book
          DefaultMid,   \* 1.0850, for a price that could not be read
          Spread,       \* what SPREADS has for such an instrument
          Grain,        \* price steps in a unit of a result (10)
          Levels,       \* levels looked at (20)
          WallFactor    \* wall_threshold_multiplier (3)

Side == Seq([price : Nat, size : Nat])

\* The sides of a book do not overlap.
Apart(b) == \A i \in DOMAIN b.bids, j \in DOMAIN b.asks : b.bids[i].price < b.asks[j].price

ASSUME BooksAssumption == \A b \in Books : b.bids \in Side /\ b.asks \in Side /\ Apart(b)
ASSUME MidsAssumption  == /\ Spread \in Nat /\ Spread >= 2
                          /\ \A mid \in Mids \cup {DefaultMid} : mid \in Nat /\ 2 * mid >= Spread
ASSUME DepthAssumption == {Grain, Levels, WallFactor} \subseteq Nat \ {0}

VARIABLES venue,    \* "delta" or "ctrader"; never changes
          imports,  \* can delta_rest.py be imported? not as it is; never changes
          market,   \* what the exchange quotes: a book, or a mid at ctrader
          stored,   \* has the collector stored a row in orderbook_snapshots?
          answer    \* the last answer, and the book it is about

flow == <<venue, imports, market, stored, answer>>

NoBook == [bids |-> <<>>, asks |-> <<>>]
Whole(b) == b.bids # <<>> /\ b.asks # <<>>

(***************************************************************************)
(* analyze_orderbook_depth.                                                *)
(***************************************************************************)
Top(side)   == SubSeq(side, 1, IF Len(side) < Levels THEN Len(side) ELSE Levels)
Depth(side) == Total([i \in DOMAIN Top(side) |-> side[i].size])

\* The size is at least WallFactor times the mean size, which is not 0.
Walls(side) ==
  {i \in DOMAIN Top(side) : /\ Depth(side) > 0
                            /\ side[i].size * Len(Top(side)) >= WallFactor * Depth(side)}

\* mutant: each price is weighted with its own size
CrossWeightedOwnSize(b, a) == b.price * b.size + a.price * a.size
\* The best price of each side, weighted with the size of the other.
CrossWeighted(b, a) == b.price * a.size + a.price * b.size

MidPrice(b, a) == Rounded(b.price + a.price, 2 * Grain)
Microprice(b, a) == IF b.size + a.size = 0 THEN MidPrice(b, a)
                    ELSE Rounded(CrossWeighted(b, a), (b.size + a.size) * Grain)

Zeros == [best_bid |-> 0, best_ask |-> 0, spread |-> 0, mid_price |-> 0, microprice |-> 0,
          bid_depth |-> 0, ask_depth |-> 0, bid_walls |-> {}, ask_walls |-> {}]

Analysis(book) ==
  IF ~Whole(book) THEN Zeros
  ELSE LET b == Head(book.bids)
           a == Head(book.asks)
       IN  [best_bid |-> b.price, best_ask |-> a.price,
            spread |-> Rounded(Max({0, a.price - b.price}), Grain),
            mid_price |-> MidPrice(b, a), microprice |-> Microprice(b, a),
            bid_depth |-> Depth(book.bids), ask_depth |-> Depth(book.asks),
            bid_walls |-> Walls(book.bids), ask_walls |-> Walls(book.asks)]

(***************************************************************************)
(* _get_or_fetch_orderbook. The exchange may not answer.                   *)
(***************************************************************************)
\* A book of one level a side, of equal size, around a price.
OneLevel(mid) == [bids |-> <<[price |-> Rounded(2 * mid - Spread, 2), size |-> 1]>>,
                  asks |-> <<[price |-> Rounded(2 * mid + Spread, 2), size |-> 1]>>]

Fetched(reachable) ==
  IF venue = "ctrader" THEN OneLevel(IF reachable THEN market ELSE DefaultMid)
  ELSE IF reachable THEN market
  ELSE NoBook

Asked == IF stored THEN "after" ELSE "before"

Failed(asked)  == [failed |-> TRUE, asked |-> asked]
Said(asked, b) == [failed |-> FALSE, asked |-> asked, book |-> b, result |-> Analysis(b)]

\* ob_snap.bids is an AttributeError, the import of delta_rest a SyntaxError.
Raises == stored \/ (venue = "delta" /\ ~imports)

GetOrderflow(reachable) ==
  /\ answer' = IF Raises THEN Failed(Asked) ELSE Said(Asked, Fetched(reachable))
  /\ UNCHANGED <<venue, imports, market, stored>>

\* The Delta collector flushes the measures of a book; the other one none.
StoreBook ==
  /\ venue = "delta" /\ stored' = TRUE
  /\ UNCHANGED <<venue, imports, market, answer>>

MarketQuotes ==
  /\ market' \in IF venue = "delta" THEN Books ELSE Mids
  /\ UNCHANGED <<venue, imports, stored, answer>>

NoAnswer == Said("never", NoBook)

FlowInit ==
  /\ venue \in {"delta", "ctrader"}
  /\ imports \in BOOLEAN
  /\ market \in IF venue = "delta" THEN Books ELSE Mids
  /\ stored = FALSE
  /\ answer = NoAnswer

FlowNext == \/ \E reachable \in BOOLEAN : GetOrderflow(reachable)
            \/ StoreBook \/ MarketQuotes

FlowSpec == FlowInit /\ [][FlowNext]_flow

(***************************************************************************)
(* Properties.                                                             *)
(***************************************************************************)

\* x units are at most half a unit outside the prices lo to hi.
Within(x, lo, hi) == 2 * lo - Grain =< 2 * Grain * x /\ 2 * Grain * x =< 2 * hi + Grain

\* A wall is larger than what is no wall, and at most every third level is one.
WallsStandOut(walls, side) ==
  /\ WallFactor * Cardinality(walls) =< Levels
  /\ \A i \in walls, j \in DOMAIN Top(side) \ walls : side[i].size > side[j].size

\* Once a book has been stored every request fails, for good; before that one
\* fails exactly if it is for Delta, whose client cannot be imported.
\* What any other answer says of the book agrees with it, as far as rounding
\* lets it: the spread is the distance of the best prices, the microprice lies
\* between them and on the side of the mid price with less in front, also when
\* sizes are 0, and walls stand out; all is zero only for a book without one
\* side (orderbook.py:20-123, orderflow.py:15-41).
MeasuresFitBook ==
  LET r == answer.result
      b == Head(answer.book.bids)
      a == Head(answer.book.asks)
      measured ==
        IF ~Whole(answer.book) THEN r = Zeros
        ELSE /\ r.best_bid = b.price /\ r.best_ask = a.price
             /\ Within(r.spread, a.price - b.price, a.price - b.price)
             /\ Within(r.microprice, b.price, a.price)
             /\ b.size >= a.size => r.microprice >= r.mid_price
             /\ b.size =< a.size => r.microprice =< r.mid_price
             /\ WallsStandOut(r.bid_walls, answer.book.bids)
             /\ WallsStandOut(r.ask_walls, answer.book.asks)
      unanswerable == answer.asked = "after" \/ (venue = "delta" /\ ~imports)
  IN  /\ answer.asked = "after" => stored
      /\ answer.asked # "never" => (answer.failed <=> unanswerable)
      /\ ~answer.failed => measured
==============================================================================
