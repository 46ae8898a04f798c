---------------------------- MODULE MCRangeReads ----------------------------
(* RangeReads on small instances: one filter selects every log, the other  *)
(* that of t1; numbers reach past the chain and up to u64::MAX.            *)
EXTENDS RangeReads, TLC

CONSTANTS t1, t2, all, some

MCCollection == {"logs"}
MCWanted == all :> {t1, t2} @@ some :> {t1}
=============================================================================
