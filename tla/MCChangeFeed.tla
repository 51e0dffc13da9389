---------------------------- MODULE MCChangeFeed ----------------------------
(* An instance of ChangeFeed for TLC. *)
EXTENDS ChangeFeed

CONSTANTS c1, c2, u1, sA, sB
=============================================================================
