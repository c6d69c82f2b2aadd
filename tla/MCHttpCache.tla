----------------------------- MODULE MCHttpCache -----------------------------
(***************************************************************************)
(* Instances of HttpCache.  The partition function is chosen so that keys  *)
(* collide on a lock as well as not; one URL and one text are over their   *)
(* size limits.                                                            *)
(***************************************************************************)
EXTENDS HttpCache

CONSTANTS u1, u2, uLong, x1, x2

\* u1 and the over-long URL share a partition, u2 has its own.
MCPartitionOf == [u \in {u1, u2, uLong} |-> IF u = u2 THEN x2 ELSE x1]

\* One partition for every key.
MCOnePartition == [u \in Urls |-> x1]
=============================================================================
