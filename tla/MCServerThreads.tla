------------------------------ MODULE MCServerThreads ------------------------------
(* The threads of a server: of a replica, or of the inference adapter.             *)
EXTENDS ReplicaServer, Inference

VARIABLE server   \* whose the threads are; the other server does not run

\* A call of a replica is no request to the adapter.
ASSUME ServersAssumption == Call \cap Asked = {}

vars == <<server, poolVars, replicaVars, inferenceVars>>

Init ==
  /\ server \in {"replica", "inference"}
  /\ PoolInit /\ ReplicaInit /\ InferenceInit

Next ==
  \/ server = "replica" /\ ReplicaNext /\ UNCHANGED <<server, inferenceVars>>
  \/ server = "inference" /\ InferenceNext /\ UNCHANGED <<server, replicaVars>>

Spec == Init /\ [][Next]_vars /\ ReplicaFairness /\ InferenceFairness

\* Types of both servers and of their threads
ServersTypeOK == PoolTypeOK(Call \cup Asked) /\ ReplicaTypeOK /\ InferenceTypeOK

=============================================================================
