---------------------------- MODULE MCOrderRaces ----------------------------
(* Two workers and one salon's day for TLC. *)
EXTENDS OrderRaces

AllKinds == RequestKind
SettledKinds == {"create_order", "close_order", "reopen_order", "create_settlement"}
=============================================================================
