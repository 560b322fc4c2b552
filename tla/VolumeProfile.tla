---------------------------- MODULE VolumeProfile ----------------------------
(***************************************************************************)
(* calculate_volume_profile over the closes and volumes of the candles:    *)
(* how much was traded at which price, the price with the most (POC), and  *)
(* the value area between VAL and VAH. A bin is known by its number, from  *)
(* the lowest price to the highest; its centre is a float and left out.    *)
(***************************************************************************)
EXTENDS Candles, Sums, SequencesExt, FiniteSetsExt

CONSTANTS NumBins,   \* num_bins (50)
          AreaPct    \* value_area_pct, in percent (70)

ASSUME ProfileAssumption == NumBins \in Nat \ {0} /\ AreaPct \in 1 .. 100

ClosesOf(s)    == {s[i].close : i \in DOMAIN s}
TotalVolume(s) == Total([i \in DOMAIN s |-> s[i].volume])

Lowest(s)  == Min(ClosesOf(s))
Highest(s) == Max(ClosesOf(s))

\* There are bins only for something traded at more than one price.
HasBins(s) == s # <<>> /\ TotalVolume(s) > 0 /\ Lowest(s) < Highest(s)

\* np.histogram: half-open bins of equal width, the last one closed.
BinOf(s, price) ==
  Min({NumBins, 1 + ((price - Lowest(s)) * NumBins) \div (Highest(s) - Lowest(s))})

VolumeAt(s, k) ==
  Total([i \in DOMAIN s |-> IF BinOf(s, s[i].close) = k THEN s[i].volume ELSE 0])

Counts(s) == [k \in 1 .. NumBins |-> VolumeAt(s, k)]

\* np.argmax: the first of the largest.
Poc(counts) ==
  Min({k \in DOMAIN counts : \A j \in DOMAIN counts : counts[j] =< counts[k]})

\* np.argsort, reversed. It is not stable: bins with the same volume come in
\* any order.
Descending(counts) ==
  {p \in [DOMAIN counts -> DOMAIN counts] :
     \A i, j \in DOMAIN counts : i < j => p[i] # p[j] /\ counts[p[i]] >= counts[p[j]]}

Traded(counts, bins) == Total([k \in DOMAIN counts |-> IF k \in bins THEN counts[k] ELSE 0])
Enough(counts, bins) ==
  100 * Traded(counts, bins) >= AreaPct * Traded(counts, DOMAIN counts)

\* Plausible bug: the loop breaks before it takes the bin that completes the area.
AreaShort(counts, p) ==
  LET First(n) == {p[i] : i \in 1 .. n}
  IN  First(Max({n \in 0 .. Len(counts) : n = 0 \/ ~Enough(counts, First(n))}))

\* The bins in that order until they hold the target.
Area(counts, p) ==
  LET First(n) == {p[i] : i \in 1 .. n}
  IN  First(Min({n \in DOMAIN counts : Enough(counts, First(n))}))

Val(area) == Min(area)
Vah(area) == Max(area)

(***************************************************************************)
(* Properties.                                                             *)
(***************************************************************************)

\* "70% of total volume around POC" (volume.py:71): whatever order the sort
\* leaves equal bins in, the candles that closed between VAL and VAH hold the
\* target, no choice of fewer bins would, and POC lies between the two - if
\* no other bin holds as much: of four equal bins three make the area, and
\* POC, the lowest of the four, can be the one left out (volume.py:65-88).
ValueAreaAroundPoc ==
  HasBins(bars) =>
    LET counts == Counts(bars)
        poc    == Poc(counts)
        Between(a) == Val(a) .. Vah(a)
    IN  \A p \in Descending(counts) :
          LET a == Area(counts, p)
          IN  /\ Enough(counts, Between(a))
              /\ \A bins \in SUBSET DOMAIN counts :
                    Cardinality(bins) < Cardinality(a) => ~Enough(counts, bins)
              /\ \/ poc \in Between(a)
                 \/ \E k \in DOMAIN counts \ {poc} : counts[k] = counts[poc]
==============================================================================
