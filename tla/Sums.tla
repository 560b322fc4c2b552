-------------------------------- MODULE Sums --------------------------------
(***************************************************************************)
(* Sums over a sequence of numbers, as sum() and np.sum compute them: from *)
(* the first element on. A recursive function rather than a fold, so that  *)
(* it can be reasoned about by induction on the elements added.            *)
(***************************************************************************)
EXTENDS Integers, Sequences

Sums(f) ==
  LET upTo[n \in 0 .. Len(f)] == IF n = 0 THEN 0 ELSE upTo[n - 1] + f[n]
  IN  upTo

Total(f) == Sums(f)[Len(f)]

\* b to the n-th power, in a form that can be reasoned about.
Power(b, n) ==
  LET upTo[k \in 0 .. n] == IF k = 0 THEN 1 ELSE b * upTo[k - 1]
  IN  upTo[n]
==============================================================================
