------------------------------ MODULE MCHistory ------------------------------
(***************************************************************************)
(* Six candles over five price steps, rising and falling, one with long    *)
(* wicks, one without volume, that leave gaps, sweep and break swings in   *)
(* every order; and, sharing nothing with them, six books, two of them     *)
(* with one side and one without sizes, with prices a few units or a few   *)
(* steps apart. The two machines run in one model, either the one or the   *)
(* other.                                                                  *)
(***************************************************************************)
EXTENDS MarketStructure, Backtest, VolumeProfile, Indicators, OrderFlow

Bar(o, h, l, c, v) == [open |-> o, high |-> h, low |-> l, close |-> c, volume |-> v]

candles == {Bar(1, 2, 1, 2, 2), Bar(2, 2, 1, 1, 1), Bar(2, 3, 2, 3, 3),
            Bar(2, 4, 1, 2, 4), Bar(4, 5, 4, 5, 1), Bar(4, 4, 3, 3, 0)}

Ladder(prices, sizes) == [i \in DOMAIN prices |-> [price |-> prices[i], size |-> sizes[i]]]
Book(b, a) == [bids |-> b, asks |-> a]
Wall  == Ladder(<<90, 80, 70, 60>>, <<1, 1, 9, 1>>)
Above == Ladder(<<100, 110>>, <<2, 1>>)
Near  == Ladder(<<108497, 108495>>, <<3, 1>>)
books == {Book(Wall, Above), Book(Ladder(<<120>>, <<1>>), Ladder(<<130, 140>>, <<4, 4>>)),
          Book(Near, Ladder(<<108498, 108499, 108506, 108509>>, <<1, 6, 1, 19>>)),
          Book(Ladder(<<105>>, <<0>>), Ladder(<<120, 130>>, <<0, 0>>)),
          Book(Wall, <<>>), Book(<<>>, Above)}
mids  == {8, 108497}

vars == <<bars, flow>>

Fresh == venue = "delta" /\ market = Book(Wall, Above) /\ imports
         /\ ~stored /\ answer = NoAnswer

HistoryInit == CandlesInit /\ FlowInit
HistoryNext == \/ Fresh /\ NewBar /\ UNCHANGED flow
               \/ bars = <<>> /\ FlowNext /\ UNCHANGED bars
HistorySpec == HistoryInit /\ [][HistoryNext]_vars
==============================================================================
