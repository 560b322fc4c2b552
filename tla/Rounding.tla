------------------------------ MODULE Rounding ------------------------------
(* Python's round(x, n) on an exact quotient: quantities are integers in    *)
(* units of the n-th decimal, and x is a / b such units.                   *)
EXTENDS Naturals

\* mutant: rounds up
RoundedUp(a, b) == (a + b - 1) \div b
\* The integer nearest to a / b, ties to the even one.
Rounded(a, b) ==
    LET q == a \div b
        r == 2 * (a % b)
    IN  IF r < b \/ (r = b /\ q % 2 = 0) THEN q ELSE q + 1
=============================================================================
