----------------------------- MODULE TokenMutex -----------------------------
(***************************************************************************)
(* What the class docstring of services/replica/coordination.py promises:  *)
(* a distributed mutex with a single token.  The holder may write; it gives*)
(* the token away when it does not write, and while the token is on its way*)
(* nobody holds it.                                                        *)
(***************************************************************************)
CONSTANTS Replica, InitialHolder

VARIABLES
  holders,   \* the replicas that hold the token: one, or none while it travels
  writing    \* the replicas in their critical sections

vars == <<holders, writing>>

Init == holders = {InitialHolder} /\ writing = {}

Enter(r) == holders = {r} /\ writing = {} /\ writing' = {r} /\ UNCHANGED holders

Leave(r) == writing = {r} /\ writing' = {} /\ UNCHANGED holders

Depart(r) == holders = {r} /\ writing = {} /\ holders' = {} /\ UNCHANGED writing

Arrive(r) == holders = {} /\ holders' = {r} /\ UNCHANGED writing

Next == \E r \in Replica : Enter(r) \/ Leave(r) \/ Depart(r) \/ Arrive(r)

Spec == Init /\ [][Next]_vars

=============================================================================
