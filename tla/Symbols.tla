------------------------------ MODULE Symbols ------------------------------
(***************************************************************************)
(* swaram/core/symbols.py: the names of instruments. The collectors turn a *)
(* venue's symbol into the canonical name they publish under               *)
(* (to_canonical), the API turns whatever a client writes into the         *)
(* canonical name it reads (resolve_canonical). The two functions share no *)
(* table. A name is the parts it is written from, in upper case:           *)
(* CRYPTO:BTC/USD has a class, a base, a separator and a quote, BTCUSD     *)
(* only a base and a quote, GOLD only a base.                              *)
(***************************************************************************)

Name(class, base, sep, quote) ==
  [class |-> class, base |-> base, sep |-> sep, quote |-> quote]

Joined(base, quote)       == Name("", base, "", quote)
Word(base)                == Joined(base, "")
Pair(class, base, quote)  == Name(class, base, "/", quote)

Btc   == Pair("CRYPTO", "BTC", "USD")
Eth   == Pair("CRYPTO", "ETH", "USD")
Eur   == Pair("FX", "EUR", "USD")
Gbp   == Pair("FX", "GBP", "USD")
Jpy   == Pair("FX", "USD", "JPY")
Chf   == Pair("FX", "USD", "CHF")
Aud   == Pair("FX", "AUD", "USD")
Xau   == Pair("METAL", "XAU", "USD")
Xag   == Pair("METAL", "XAG", "USD")
Wti   == Pair("COMMODITY", "WTI", "USD")
Us10y == Name("RATE", "US10Y", "", "")

\* DEFAULT_SYMBOL_MAP: the symbol of an instrument at a venue.
Listing(canonical, venue, symbol) ==
  [canonical |-> canonical, venue |-> venue, symbol |-> symbol]

AtCTrader(canonical) == Listing(canonical, "ctrader", Joined(canonical.base, canonical.quote))

Listings ==
  { Listing(Btc, "delta", Joined("BTC", "USD")),
    Listing(Btc, "bybit", Joined("BTC", "USDT")),
    Listing(Btc, "deribit", Name("", "BTC", "-", "PERPETUAL")),
    Listing(Eth, "delta", Joined("ETH", "USD")),
    Listing(Eth, "bybit", Joined("ETH", "USDT")),
    Listing(Eth, "deribit", Name("", "ETH", "-", "PERPETUAL")) }
  \union {AtCTrader(c) : c \in {Eur, Gbp, Jpy, Xau, Xag, Wti, Us10y}}

\* replace("/", "").replace("-", "").replace("_", "")
Clean(n) == [n EXCEPT !.sep = ""]

Unknown(n) == [unknown |-> n]

\* The chains of comparisons of the two functions, as sets of pairs of a
\* clean name and a canonical one: base and quote together, the same in
\* USDT, and words of each function's own.
Alias(canonical, words) ==
  {<<n, canonical>> : n \in {Joined(canonical.base, canonical.quote)}
                            \union {Word(w) : w \in words}}
Tethered(c) == {<<Joined(c.base, "USDT"), c>>}

CommonAliases ==
  UNION {Alias(c, {}) : c \in {Eur, Gbp, Jpy, Chf, Aud}}
  \union Alias(Us10y, {"TNX"}) \union Tethered(Btc) \union Tethered(Eth)

SymbolAliases ==
  CommonAliases
  \union Alias(Btc, {}) \union {<<Joined("XBT", "USD"), Btc>>} \union Alias(Eth, {})
  \union Alias(Xau, {"GOLD", "GCF"}) \union Alias(Xag, {"SILVER", "SIF"})
  \union Alias(Wti, {"CL", "CLF", "OIL"})

InputAliases ==
  CommonAliases
  \union Alias(Btc, {"BTC"}) \union Alias(Eth, {"ETH"})
  \union Alias(Xau, {"GOLD"}) \union Alias(Xag, {"SILVER"})
  \union Alias(Wti, {"OIL", "WTI"})

Knows(aliases, n) == \E a \in aliases : a[1] = n
Meaning(aliases, n) == (CHOOSE a \in aliases : a[1] = n)[2]

to_canonical(venue, n) ==
  LET listed == {l \in Listings : l.venue = venue /\ l.symbol = n}
  IN  IF listed # {} THEN (CHOOSE l \in listed : TRUE).canonical
      ELSE IF Knows(SymbolAliases, Clean(n)) THEN Meaning(SymbolAliases, Clean(n))
      ELSE Unknown(n)

\* mutant: the separators are not removed
resolve_uncleaned(n) ==
  IF n.class # "" /\ n.sep = "/" THEN n
  ELSE IF Knows(InputAliases, n) THEN Meaning(InputAliases, n)
  ELSE IF n.sep = "/" THEN [n EXCEPT !.class = "CRYPTO"]
  ELSE Unknown(n)
\* A full canonical name is taken as it is, a known short name is looked up,
\* and any other pair is guessed to be crypto.
resolve_canonical(n) ==
  IF n.class # "" /\ n.sep = "/" THEN n
  ELSE IF Knows(InputAliases, Clean(n)) THEN Meaning(InputAliases, Clean(n))
  ELSE IF n.sep = "/" THEN [n EXCEPT !.class = "CRYPTO"]
  ELSE Unknown(n)

\* The ways a client may write an instrument that a collector publishes: the
\* venue's symbol, the canonical name, and base and quote with a separator,
\* with and without the class. resolve_canonical knows no name with a class
\* but those with a "/": RATE:US10Y, which is canonical, and CRYPTO:BTC-USD
\* are UNKNOWN to it.
Writings(l) ==
  LET c == l.canonical
  IN  {l.symbol, c} \union
      IF c.quote = "" THEN {}
      ELSE {Name(class, c.base, sep, c.quote) : class \in {"", c.class}, sep \in {"/", "-", "_"}}

\* The instruments the collectors publish: delta_symbols, YAHOO_SYMBOLS.
Collected ==
  {Listing(c, "delta", Joined(c.base, c.quote)) : c \in {Btc, Eth}}
  \union {AtCTrader(c) : c \in {Eur, Gbp, Jpy, Chf, Aud, Xau, Xag, Wti, Us10y}}
=============================================================================
