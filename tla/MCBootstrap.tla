---------------------------- MODULE MCBootstrap ----------------------------
(* Small instances of Bootstrap for TLC: the three services of             *)
(* docker-compose.yml on a fresh database.                                 *)
EXTENDS Bootstrap

CONSTANTS api, delta, fx

mcProcs == {api, delta, fx}
=============================================================================
