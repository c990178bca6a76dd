-------------------------- MODULE MCConnectionPool --------------------------
(* A small instance of ConnectionPool for TLC: three requests that can be    *)
(* batched, one of them with two operations, and one of two plain commands.  *)
EXTENDS ConnectionPool

CONSTANTS m1, m2, m3, q1

MCType(j) == CASE j \in {m1, m2, m3} -> "MKDIR" [] j = q1 -> "PLAIN_COMMAND"
MCCount(j) == IF j \in {m2, q1} THEN 2 ELSE 1
=============================================================================
