---------------------------- MODULE MCWsStreams ----------------------------
(***************************************************************************)
(* One socket that asks for any collected instrument under each of its     *)
(* writings, those that open no stream or are not known included, or two   *)
(* sockets that ask for the same one under the same name.                  *)
(***************************************************************************)
EXTENDS WsStreams

CONSTANTS s1, s2

sockets == {s1, s2}

Wish(l, name) == [wants |-> l, name |-> name]
Wishes == UNION {{Wish(l, n) : n \in Writings(l)} : l \in Collected}

DeltaBtc == Listing(Btc, "delta", Joined("BTC", "USD"))

Alone == {[ws \in {s1} |-> w] : w \in Wishes}
Both  == {[ws \in sockets |-> Wish(DeltaBtc, DeltaBtc.symbol)]}
requests == Alone \union Both
============================================================================
