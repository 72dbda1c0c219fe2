----------------------- MODULE MCRestartingCoordination -----------------------
(* Small deployments of RestartingCoordination.                              *)
EXTENDS RestartingCoordination, TLC

CONSTANTS At1, At2, At3

MCHome == [x \in Thread |-> IF x \in At1 THEN 1 ELSE IF x \in At2 THEN 2 ELSE 3]

\* The handler threads of one replica are alike.
HandlerSymmetry ==
  UNION {Permutations(Handler \cap At) : At \in {At1, At2, At3}}

=============================================================================
