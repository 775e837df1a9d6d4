--------------------------- MODULE MCSqliteStore ---------------------------
EXTENDS SqliteStore, TLC

CONSTANTS a1, a2, p1, p2, e1, r1, o1, k1, c1, c2

MCUpn == a1 :> 1 @@ a2 :> 2
MCAccountId == p1 :> a1 @@ p2 :> a2
MCSameFolder == {<<p1, p2>>, <<p2, p1>>}
MCEntryPair == e1 :> p1
MCRunPair == r1 :> p1
MCRunId == o1 :> r1
MCConflictPair == k1 :> p1
=============================================================================
