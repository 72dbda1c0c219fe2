------------------------ MODULE RestartingCoordination ------------------------
(***************************************************************************)
(* Coordination with replicas that restart (docker compose restarts a      *)
(* container that stopped; README.md:414 restarts all of them).  Nothing of*)
(* the coordinator is persisted: the new process starts from __init__ with *)
(* the settings of the old one.                                            *)
(***************************************************************************)
EXTENDS Coordination

CONSTANTS
  MaxRestarts,   \* bound: restarts
  Drained,       \* a replica restarts only when nothing is in progress there
  Restartable    \* the replicas that restart

ASSUME RestartAssumption ==
  /\ MaxRestarts \in Nat /\ Drained \in BOOLEAN /\ Restartable \subseteq Replica

VARIABLE restarts

restartVars == <<vars, restarts>>

RestartInit == Init /\ restarts = 0

\* The coordinator of r is made anew: request numbers, the token if r is the
\* configured holder, no memory of versions or finished writes.
Reset_Holding(r) ==  \* variant for SingleToken: the configured holder is not looked at
  /\ requestNumbers' = [requestNumbers EXCEPT ![r] = NoGrants]
  /\ requestingLocal' = [requestingLocal EXCEPT ![r] = FALSE]
  /\ localRequestSeq' = [localRequestSeq EXCEPT ![r] = 0]
  /\ hasToken' = [hasToken EXCEPT ![r] = TRUE]
  /\ tokenVersionSeen' = [tokenVersionSeen EXCEPT ![r] = 0]
  /\ token' = [token EXCEPT ![r] = Blank]
  /\ pending' = [pending EXCEPT ![r] = NoTransfer]
  /\ activeReaders' = [activeReaders EXCEPT ![r] = 0]
  /\ localWriteActive' = [localWriteActive EXCEPT ![r] = FALSE]
  /\ remoteWriters' = [remoteWriters EXCEPT ![r] = {}]
  /\ finishedWrites' = [finishedWrites EXCEPT ![r] = <<>>]
Reset(r) ==
  /\ requestNumbers' = [requestNumbers EXCEPT ![r] = NoGrants]
  /\ requestingLocal' = [requestingLocal EXCEPT ![r] = FALSE]
  /\ localRequestSeq' = [localRequestSeq EXCEPT ![r] = 0]
  /\ hasToken' = [hasToken EXCEPT ![r] = r = InitialHolder]
  /\ tokenVersionSeen' = [tokenVersionSeen EXCEPT ![r] = 0]
  /\ token' = [token EXCEPT ![r] = Blank]
  /\ pending' = [pending EXCEPT ![r] = NoTransfer]
  /\ activeReaders' = [activeReaders EXCEPT ![r] = 0]
  /\ localWriteActive' = [localWriteActive EXCEPT ![r] = FALSE]
  /\ remoteWriters' = [remoteWriters EXCEPT ![r] = {}]
  /\ finishedWrites' = [finishedWrites EXCEPT ![r] = <<>>]

\* Threads elsewhere that wait for a reply of a thread of r get an error.
Refused(r) == {y \in Thread : \E h \in Thread : Home[h] = r /\ caller[h] = y}

StopThreads(r) ==
  LET mine == {x \in Thread : Home[x] = r}
      unanswered(y) == y \in Refused(r) /\ y \notin mine
  IN
  /\ pc' = [x \in Thread |-> IF x \in mine THEN "idle"
                             ELSE IF unanswered(x) THEN Replied(x, FALSE) ELSE pc[x]]
  /\ peer' = [x \in Thread |-> IF x \in mine \/ (unanswered(x) /\ pc[x] = "asked")
                               THEN 0 ELSE peer[x]]
  /\ seq' = [x \in Thread |-> IF x \in mine THEN 0 ELSE seq[x]]
  /\ out' = [x \in Thread |-> IF x \in mine THEN NoTransfer ELSE out[x]]
  /\ caller' = [x \in Thread |-> IF x \in mine \/ caller[x] \in mine THEN NoThread
                                 ELSE caller[x]]

\* r does not hold the token, its threads are idle, nobody calls it, and no transfer
\* to it is kept for a retry or arrives late.
Quiet(r) ==
  /\ ~hasToken[r]
  /\ \A p \in Replica : pending[p].to # r
  /\ \A m \in lateTransfers : m.to # r
  /\ \A x \in Thread : Home[x] = r => pc[x] = "idle"
  /\ \A x \in Thread : pc[x] \in Waiting => peer[x] # r /\ out[x].to # r

Restart(r) ==
  /\ restarts < MaxRestarts
  /\ Drained => Quiet(r)
  /\ restarts' = restarts + 1
  /\ Reset(r)
  /\ StopThreads(r)
  /\ UNCHANGED netVars

RestartNext ==
  \/ SerialNext /\ UNCHANGED restarts
  \/ \E r \in Restartable : Restart(r)

RestartSpec == RestartInit /\ [][RestartNext]_restartVars

=============================================================================
