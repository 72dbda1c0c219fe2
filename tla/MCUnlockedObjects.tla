----------------------------- MODULE MCUnlockedObjects -----------------------------
(* The objects that handler threads share without a lock: the fault controller of  *)
(* a replica, its clock and log, and the name service's registry.                  *)
EXTENDS FaultInjection, ClockThreads, RegistryThreads, TLC

VARIABLE object   \* the object in use

vars == <<object, faultVars, clockThreadVars, registryVars>>

Init ==
  /\ object \in {"faults", "clock", "registry"}
  /\ FaultInit /\ ClockInit /\ RegistryInit

Next ==
  /\ UNCHANGED object
  /\ \/ object = "faults" /\ FaultNext /\ UNCHANGED <<clockThreadVars, registryVars>>
     \/ object = "clock" /\ ClockNext /\ UNCHANGED <<faultVars, registryVars>>
     \/ object = "registry" /\ RegistryNext /\ UNCHANGED <<faultVars, clockThreadVars>>

Spec == Init /\ [][Next]_vars

ThreadSymmetry == Permutations(Thread)

\* Types of the three objects and of the threads that use them
ObjectsTypeOK == FaultTypeOK /\ ClockTypeOK /\ RegistryTypeOK

=============================================================================
