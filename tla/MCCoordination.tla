--------------------------- MODULE MCCoordination ---------------------------
(* Small deployments of Coordination.  A cfg lists the threads of replica r  *)
(* in Atr; the handler threads of one replica are interchangeable.           *)
EXTENDS Coordination, TLC

CONSTANTS At1, At2, At3

MCHome == [x \in Thread |-> IF x \in At1 THEN 1 ELSE IF x \in At2 THEN 2 ELSE 3]

HandlerSymmetry ==
  UNION {Permutations(Handler \cap At) : At \in {At1, At2, At3}}

=============================================================================
