---------------------------- MODULE MCFxCollector ----------------------------
(* A small instance of FxCollector for TLC: two symbols, both with an      *)
(* instrument.                                                             *)
EXTENDS FxCollector

CONSTANTS EUR, XAU

mcSymbols == {EUR, XAU}
=============================================================================
