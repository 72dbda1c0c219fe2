-------------------------- MODULE MCReplicatedCache --------------------------
(* Small deployments of ReplicatedCache.                                     *)
EXTENDS ReplicatedCache, TLC

CONSTANTS At1, At2, At3

MCHome == [x \in Thread |-> IF x \in At1 THEN 1 ELSE IF x \in At2 THEN 2 ELSE 3]

=============================================================================
