--------------------------- MODULE MCPreloadQueue ---------------------------
EXTENDS PreloadQueue, TLC

CONSTANTS p1, p2, p3

Symmetry == Permutations(Loaders) \cup Permutations(Fetches) \cup Permutations(Queues)

\* The second picture may come before the first, whose URL may change, and the
\* third URL is malformed.
MCLists == {<<None, p2>>, <<p1, p2, p3>>, <<p2>>}
MCWholeLists == {<<p1>>, <<None, p2>>, <<p1, p2>>}
=============================================================================
