---------------------------- MODULE MCSectorFsm ----------------------------
(* One sector, with two troubles in any combination: failed calls, restarts, *)
(* requests of users and events of the chain. Two troubles are what most    *)
(* failure paths need (the first fails a wait, the second changes what the  *)
(* retry finds); retries are given up after one.                            *)
EXTENDS SectorFsm
=============================================================================
