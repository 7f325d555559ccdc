------------------------------- MODULE MCPgPool -------------------------------
(***************************************************************************)
(* Instances of PgPool for TLC: three threads, more than connections.      *)
(***************************************************************************)
EXTENDS PgPool

CONSTANTS t1, t2, t3

ThreeThreads == {t1, t2, t3}
===============================================================================
