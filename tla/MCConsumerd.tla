---------------------------- MODULE MCConsumerd -----------------------------
(* A small instance of Consumerd for TLC: two requests, one of which may only  *)
(* run locally, and two pools of at most two workers.                          *)
EXTENDS Consumerd
=============================================================================
