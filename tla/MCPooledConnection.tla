-------------------------- MODULE MCPooledConnection --------------------------
(* A finite instance of PooledConnection for TLC.                          *)
EXTENDS PooledConnection
=============================================================================
