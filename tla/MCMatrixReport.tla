--------------------------- MODULE MCMatrixReport ---------------------------
(***************************************************************************)
(* A redis cell and a baseline, the second outside the last chart.         *)
(***************************************************************************)
EXTENDS MatrixReport

MCCell == <<"ttl-redis-mixed", "no_cache-none-mixed">>
MCUsesRedis == {"ttl-redis-mixed"}
MCBaseline == {2}
=============================================================================
