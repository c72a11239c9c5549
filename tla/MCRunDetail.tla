----------------------------- MODULE MCRunDetail -----------------------------
\* The oldest run fails, and is listed before the ones that complete.
EXTENDS RunDetail, TLC

MCRankOf == [run \in 1 .. Count |-> IF run = 1 THEN 1 ELSE 6]
=============================================================================
