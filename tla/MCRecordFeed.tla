---------------------------- MODULE MCRecordFeed ----------------------------
EXTENDS RecordFeed, TLC
CONSTANTS i1, i2, m1, m2, t1, t2
Symmetric == Permutations({m1, m2}) \cup Permutations({i1, i2}) \cup Permutations({t1, t2})
=============================================================================
