------------------------------- MODULE MCGateway -------------------------------
(* Small deployments of Gateway.                                              *)
EXTENDS Gateway, TLC

\* Replicas are alike, and so are queries.
Symmetry == {f @@ g : f \in Permutations(Replica), g \in Permutations(Queries)}

=============================================================================
