--------------------------- MODULE MCShardedBuild ---------------------------
\* Points on a line, two of them in the same place, and a few ways to lie among the centroids.
EXTENDS ShardedBuild

Place1D == <<0, 1, 1, 3, 6>>
MCDist == [uv \in Points \X Points |->
             LET a == Place1D[uv[1] + 1]
                 b == Place1D[uv[2] + 1]
             IN IF a < b THEN b - a ELSE a - b]

\* Two centroids, and every point reaches one.
MCRowsReaching == {<<1, 2>>, <<2, 2>>, <<Overflow, 2>>}
\* Three centroids, with ties for the places; one point reaches a single one, one none.
MCRowsTied == {<<2, 2, 2>>, <<2, 2, 1>>, <<Overflow, 2, Overflow>>, <<Overflow, Overflow, Overflow>>}
=============================================================================
