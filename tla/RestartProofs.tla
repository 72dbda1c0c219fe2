--------------------------- MODULE RestartProofs ---------------------------
(***************************************************************************)
(* Theorems of RestartingCoordination: when a replica may restart without  *)
(* harm to the token.                                                      *)
(***************************************************************************)
EXTENDS RestartingCoordination, CoordinationProofs

-----------------------------------------------------------------------------
(* A restart.                                                              *)

\* What a restart leaves of the threads: those of r are idle, and a thread that waited
\* for a reply of r, or of the threads of r, goes on with an error.
LEMMA StopIs ==
  ASSUME TypeInv, NEW r \in Replica, StopThreads(r), NEW x \in Thread
  PROVE  /\ Home[x] = r => pc'[x] = "idle"
         /\ Home[x] # r => \/ pc'[x] = pc[x] /\ peer'[x] = peer[x] /\ x \notin Refused(r)
                           \/ pc'[x] \in {"unsent", "abort"}
         /\ Home[x] # r => out'[x] = out[x]
         /\ caller'[x] # NoThread =>
              caller'[x] = caller[x] /\ Home[x] # r /\ caller[x] \notin Refused(r)
<1>0. ThreadInv
  BY DEF TypeInv
<1>1. \A h \in Thread : caller[h] # NoThread => pc[caller[h]] \in {"asked", "awaited"}
  BY <1>0 DEF ThreadInv, CallersWait
<1>2. x \in Refused(r) => Replied(x, FALSE) \in {"unsent", "abort"}
  BY DEF Replied
<1>3. caller'[x] # NoThread => caller'[x] = caller[x] /\ Home[x] # r
  BY DEF StopThreads
<1>4. caller[x] # NoThread /\ Home[x] # r => caller[x] \notin Refused(r)
  BY <1>0 DEF ThreadInv, CallersWait, Refused
<1> QED  BY <1>2, <1>3, <1>4 DEF StopThreads

LEMMA RestartTypes ==
  ASSUME TypeInv, NEW r \in Replica, Restart(r)  PROVE TypeInv'
<1>0. Reset(r) /\ StopThreads(r) /\ UNCHANGED netVars
  BY DEF Restart
<1>1. LockTypeOK'
  BY <1>0, NoTransferType DEF TypeInv, LockTypeOK, Reset, Blank, Token
<1>2. GuardTypeOK'
  <2>1. <<>> \in Seq(WriteId) /\ Len(<<>>) = 0
    OBVIOUS
  <2>2. /\ activeReaders' \in [Replica -> Nat] /\ localWriteActive' \in [Replica -> BOOLEAN]
        /\ remoteWriters' \in [Replica -> SUBSET Replica]
    BY <1>0 DEF TypeInv, GuardTypeOK, Reset
  <2>3. /\ finishedWrites' \in [Replica -> Seq(WriteId)]
        /\ \A q \in Replica : Len(finishedWrites'[q]) <= MaxFinished
    BY <1>0, <2>1, ConstantFacts DEF TypeInv, GuardTypeOK, Reset
  <2> QED  BY <2>2, <2>3 DEF GuardTypeOK
<1>3. NetTypeOK'
  BY <1>0 DEF TypeInv, NetTypeOK, netVars
<1>4. ThreadTypeOK'
  <2>0. ThreadTypeOK /\ NoTransfer \in Transfer /\ 0 \in 0..N
    BY NoTransferType, ConstantFacts DEF TypeInv, ThreadInv
  <2>1. \A x \in Thread : pc'[x] \in Label
    BY <1>0, <2>0, StopIs DEF ThreadTypeOK, Label
  <2>2. DOMAIN pc' = Thread /\ pc' = [x \in Thread |-> pc'[x]]
    BY <1>0 DEF StopThreads
  <2>3. pc' \in [Thread -> Label]
    BY <2>1, <2>2
  <2>4. /\ seq' \in [Thread -> Nat] /\ peer' \in [Thread -> 0..N]
        /\ out' \in [Thread -> Transfer]
        /\ caller' \in [Thread -> Thread \cup {NoThread}]
    BY <1>0, <2>0 DEF StopThreads, ThreadTypeOK
  <2> QED  BY <2>3, <2>4 DEF ThreadTypeOK
<1>5. PeersNamed'
  BY <1>0, StopIs DEF PeersNamed, TypeInv, ThreadInv
<1>6. CallersWait'
  <2>1. ASSUME NEW h \in Thread, caller'[h] # NoThread
        PROVE  pc'[caller'[h]] \in {"asked", "awaited"}
    <3>1. /\ caller'[h] = caller[h] /\ Home[h] # r /\ caller[h] \notin Refused(r)
          /\ pc[caller[h]] \in {"asked", "awaited"} /\ caller[h] \in Thread
      BY <1>0, <2>1, StopIs DEF TypeInv, ThreadInv, ThreadTypeOK, CallersWait
    <3>2. Home[caller[h]] # r
      BY <1>0, <2>1, <3>1 DEF StopThreads
    <3> QED  BY <1>0, <3>1, <3>2 DEF StopThreads
  <2>2. ASSUME NEW h \in Thread, NEW k \in Thread, caller'[h] = caller'[k],
               caller'[h] # NoThread
        PROVE  h = k
    <3>1. caller'[h] = caller[h] /\ caller'[k] = caller[k]
      BY <1>0, <2>2, StopIs
    <3> QED  BY <2>2, <3>1 DEF TypeInv, ThreadInv, CallersWait
  <2> QED  BY <2>1, <2>2 DEF CallersWait
<1> QED  BY <1>1, <1>2, <1>3, <1>4, <1>5, <1>6 DEF TypeInv, ThreadInv

\* The process that a drained replica starts has forgotten the versions it had seen; but no
\* transfer to it is left that it could accept again, and it brings no token of its own.
LEMMA RestartKeepsToken ==
  ASSUME TypeInv, TokenInv, NEW r \in Replica, r # InitialHolder, Quiet(r), Restart(r)
  PROVE  TokenInv'
<1>0. Reset(r) /\ StopThreads(r) /\ UNCHANGED netVars /\ LockTypeOK /\ ThreadTypeOK
  BY DEF Restart, TypeInv, ThreadInv
<1>1. /\ ~hasToken'[r] /\ tokenVersionSeen'[r] = 0 /\ ~localWriteActive'[r]
      /\ \A q \in Replica \ {r} : /\ hasToken'[q] = hasToken[q] /\ token'[q] = token[q]
                                  /\ tokenVersionSeen'[q] = tokenVersionSeen[q]
                                  /\ localWriteActive'[q] = localWriteActive[q]
  BY <1>0 DEF Reset, LockTypeOK, TypeInv, GuardTypeOK
<1>2. \A m \in Transfers' : m \in Transfers /\ m.to # r
  <2> SUFFICES ASSUME NEW m \in InFlight', m.to # 0  PROVE m \in InFlight /\ m.to # r
    BY DEF Transfers
  <2>1. CASE \E q \in Replica : m = pending'[q]
    <3>1. PICK q \in Replica : m = pending'[q]
      BY <2>1
    <3>2. m = pending[q]
      BY <1>0, <3>1 DEF Reset, LockTypeOK, NoTransfer, For
    <3> QED  BY <3>2 DEF InFlight, Quiet
  <2>2. CASE \E x \in Thread : pc'[x] = "await" /\ m = out'[x]
    <3>1. PICK x \in Thread : pc'[x] = "await" /\ m = out'[x]
      BY <2>2
    <3>2. Home[x] # r /\ pc[x] = "await" /\ out'[x] = out[x]
      BY <1>0, <3>1, StopIs
    <3> QED  BY <3>1, <3>2 DEF InFlight, Quiet, Waiting
  <2>3. CASE m \in lateTransfers
    BY <2>3 DEF InFlight, Quiet
  <2> QED  BY <1>0, <2>1, <2>2, <2>3 DEF InFlight, netVars
<1>3. \A m \in Transfers' : m.to \in Replica /\ m.version \in Nat /\ (Live(m)' <=> Live(m))
  BY <1>1, <1>2, TransferFacts DEF Live
<1>4. \A q \in Replica : hasToken'[q] => q # r /\ hasToken[q]
  BY <1>1
<1>5. \A q \in Replica : tokenVersionSeen'[q] <= tokenVersionSeen[q] /\ tokenVersionSeen'[q] \in Nat
  BY <1>0, <1>1 DEF LockTypeOK
<1>6. UniqueToken'
  BY <1>4 DEF TokenInv, UniqueToken
<1>7. HolderIsNewest'
  <2> SUFFICES ASSUME NEW q \in Replica, hasToken'[q]
               PROVE  /\ token'[q].version = tokenVersionSeen'[q]
                      /\ \A p \in Replica : tokenVersionSeen'[p] <= tokenVersionSeen'[q]
                      /\ \A m \in Transfers' : ~Live(m)' /\ m.version <= tokenVersionSeen'[q]
    BY DEF HolderIsNewest
  <2>1. /\ token[q].version = tokenVersionSeen[q]
        /\ \A p \in Replica : tokenVersionSeen[p] <= tokenVersionSeen[q]
        /\ \A m \in Transfers : ~Live(m) /\ m.version <= tokenVersionSeen[q]
    BY <1>4 DEF TokenInv, HolderIsNewest
  <2>2. token'[q] = token[q] /\ tokenVersionSeen'[q] = tokenVersionSeen[q]
    BY <1>1, <1>4
  <2>3. \A p \in Replica : tokenVersionSeen'[p] <= tokenVersionSeen'[q]
    BY <1>0, <1>5, <2>1, <2>2 DEF LockTypeOK
  <2> QED  BY <1>2, <1>3, <2>1, <2>2, <2>3
<1>8. LiveIsNewest'
  <2> SUFFICES ASSUME NEW m \in Transfers', Live(m)'
               PROVE  /\ \A q \in Replica : ~hasToken'[q] /\ tokenVersionSeen'[q] <= m.version
                      /\ \A n \in Transfers' : n.version <= m.version
    BY DEF LiveIsNewest
  <2>1. m \in Transfers /\ Live(m) /\ m.version \in Nat
    BY <1>2, <1>3
  <2>2. /\ \A q \in Replica : ~hasToken[q] /\ tokenVersionSeen[q] <= m.version
        /\ \A n \in Transfers : n.version <= m.version
    BY <2>1 DEF TokenInv, LiveIsNewest
  <2>3. \A q \in Replica : tokenVersionSeen'[q] <= m.version
    BY <1>0, <1>5, <2>1, <2>2 DEF LockTypeOK
  <2> QED  BY <1>2, <1>4, <2>2, <2>3
<1>9. VersionNamesRecipient'
  BY <1>2 DEF TokenInv, VersionNamesRecipient
<1>10. OneHandoff'
  <2>1. \A x \in Thread : InHandoff(x)' \/ pc'[x] = "mark" =>
          /\ Home[x] # r /\ pc'[x] = pc[x] /\ out'[x] = out[x] /\ Home[x] \in Replica
    BY <1>0, StopIs, ConstantFacts DEF InHandoff
  <2> QED  BY <1>1, <2>1 DEF TokenInv, OneHandoff, InHandoff
<1>11. OnlyHolderWrites'
  BY <1>1 DEF TokenInv, OnlyHolderWrites
<1> QED  BY <1>6, <1>7, <1>8, <1>9, <1>10, <1>11 DEF TokenInv

-----------------------------------------------------------------------------
(* The token through restarts.                                             *)

LEMMA RestartInv ==
  ASSUME Drained, InitialHolder \notin Restartable
  PROVE  RestartSpec => [](TypeInv /\ TokenInv)
<1>1. TypeInv /\ TokenInv /\ [RestartNext]_restartVars => (TypeInv /\ TokenInv)'
  <2> SUFFICES ASSUME TypeInv, TokenInv, [RestartNext]_restartVars
               PROVE  (TypeInv /\ TokenInv)'
    OBVIOUS
  <2>1. CASE [SerialNext]_vars
    BY <2>1, TypeStep, TokenInvStep, SerialIsNext
  <2>2. CASE \E r \in Restartable : Restart(r)
    <3>1. PICK r \in Restartable : Restart(r)
      BY <2>2
    <3>2. r \in Replica /\ r # InitialHolder /\ Quiet(r)
      BY <3>1, RestartAssumption DEF Restart
    <3> QED  BY <3>1, <3>2, RestartTypes, RestartKeepsToken
  <2> QED  BY <2>1, <2>2 DEF RestartNext, restartVars
<1>2. RestartInit => TypeInv /\ TokenInv
  BY TypeInit, TokenInvInit DEF RestartInit
<1> QED  BY <1>1, <1>2, PTL DEF RestartSpec

\* The coordinator keeps nothing on disk.  Still, if only replicas other than the configured
\* holder restart, without the token, when they are idle and no transfer to them is left,
\* the token stays single, whatever fails, is repeated or arrives late.
THEOREM RestartsKeepToken ==
  ASSUME Drained, InitialHolder \notin Restartable  PROVE RestartSpec => []SingleToken
<1>1. TypeInv /\ TokenInv => SingleToken
  BY TokenShowsSingle
<1> QED  BY <1>1, RestartInv, PTL

\* And two replicas never have a local write active together.
THEOREM RestartsKeepMutex ==
  ASSUME Drained, InitialHolder \notin Restartable  PROVE RestartSpec => []MutualExclusion
<1>1. TokenInv => MutualExclusion
  BY DEF TokenInv, UniqueToken, OnlyHolderWrites, MutualExclusion
<1> QED  BY <1>1, RestartInv, PTL

=============================================================================
