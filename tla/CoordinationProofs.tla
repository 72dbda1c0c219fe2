------------------------- MODULE CoordinationProofs -------------------------
(***************************************************************************)
(* Theorems of Coordination, for any number of replicas and threads.       *)
(***************************************************************************)
EXTENDS Coordination, FiniteSetTheorems, TLAPS

-----------------------------------------------------------------------------
(* The operators of the model.                                             *)

LEMMA ConstantFacts ==
  /\ N \in Nat /\ N >= 1 /\ 0 \in 0..N
  /\ InitialHolder \in Replica
  /\ Home \in [Thread -> Replica]
  /\ NoThread \notin Thread
  /\ MaxFailures \in Nat /\ MaxFinished \in Nat /\ MaxFinished >= 1
  /\ Replica \subseteq Nat /\ 0 \notin Replica
  /\ Writer \subseteq Thread /\ Handler \subseteq Thread /\ Syncer \subseteq Thread
BY ConstantsAssumption DEF Replica, Thread

\* Removing an element from a sequence leaves a sequence that is no longer.
LEMMA WithoutType ==
  ASSUME NEW S, NEW s \in Seq(S), NEW e
  PROVE  Without(s, e) \in Seq(S) /\ Len(Without(s, e)) <= Len(s)
<1>1. CASE e \notin Range(s)
  BY <1>1 DEF Without
<1>2. CASE e \in Range(s)
  <2> DEFINE i == CHOOSE j \in 1..Len(s) : s[j] = e
  <2>1. i \in 1..Len(s)
    BY <1>2 DEF Range
  <2>2. Without(s, e) = SubSeq(s, 1, i - 1) \o SubSeq(s, i + 1, Len(s))
    BY <1>2 DEF Without
  <2> HIDE DEF i
  <2>3. SubSeq(s, 1, i - 1) \in Seq(S) /\ Len(SubSeq(s, 1, i - 1)) = i - 1
    BY <2>1
  <2>4. SubSeq(s, i + 1, Len(s)) \in Seq(S) /\ Len(SubSeq(s, i + 1, Len(s))) = Len(s) - i
    BY <2>1
  <2>5. ASSUME NEW a \in Seq(S), NEW b \in Seq(S)
        PROVE  a \o b \in Seq(S) /\ Len(a \o b) = Len(a) + Len(b)
    OBVIOUS
  <2>6. Without(s, e) \in Seq(S) /\ Len(Without(s, e)) = i - 1 + (Len(s) - i)
    BY <2>2, <2>3, <2>4, <2>5
  <2> QED  BY <2>1, <2>6
<1> QED  BY <1>1, <1>2

\* The neighbours of a peer are peers, or 0.
LEMMA PeerTypes ==
  ASSUME NEW r \in Replica
  PROVE  /\ \A q \in 0..N : NextPeer(r, q) \in 0..N
         /\ \A q \in Replica : PrevPeer(r, q) \in 0..N
         /\ FirstPeer(r) \in 0..N /\ LastPeer(r) \in 0..N
BY ConstantFacts DEF NextPeer, PrevPeer, FirstPeer, LastPeer, Replica

\* Refreshing the queue changes nothing else of the token.
LEMMA RefreshedType ==
  ASSUME NEW r \in Replica, NEW t \in Token, NEW u \in Refreshed(r, t)
  PROVE  u \in Token /\ u.version = t.version
<1> DEFINE S == Eligible(r, t)
<1>1. S \in SUBSET Replica
  BY DEF Eligible
<1>a. IsFiniteSet(Replica)
  BY ConstantFacts, FS_Interval DEF Replica
<1>2. IsFiniteSet(S)
  <2> HIDE DEF S
  <2> QED  BY <1>1, <1>a, FS_Subset
<1>3. Cardinality(S) \in Nat
  BY <1>2, FS_CardinalityType
<1>4. PICK s \in InRequestOrder(r, S) : u = [t EXCEPT !.queue = t.queue \o s]
  BY DEF Refreshed
<1>5. s \in [1..Cardinality(S) -> Replica]
  BY <1>1, <1>4 DEF InRequestOrder
<1>6. s \in Seq(Replica)
  BY <1>3, <1>5
<1>7. t.queue \o s \in Seq(Replica)
  BY <1>6 DEF Token
<1> QED  BY <1>4, <1>7 DEF Token

-----------------------------------------------------------------------------
(* Type correctness.                                                       *)

\* A thread in a loop over its peers is at one of them.
PeersNamed ==
  \A x \in Thread :
    pc[x] \in {"ask", "asked", "start", "replicate", "release"} => peer[x] \in Replica

\* A handler replies to a thread that waits for it, and for nobody else.
CallersWait ==
  /\ \A h \in Thread : caller[h] # NoThread => pc[caller[h]] \in {"asked", "awaited"}
  /\ \A h, k \in Thread : caller[h] = caller[k] /\ caller[h] # NoThread => h = k

ThreadInv == ThreadTypeOK /\ PeersNamed /\ CallersWait

TypeInv == LockTypeOK /\ GuardTypeOK /\ NetTypeOK /\ ThreadInv

\* One thread that nobody serves goes on.
LEMMA MoveThread ==
  ASSUME ThreadInv, NEW x \in Thread, pc[x] \notin {"asked", "awaited"},
         NEW l \in Label, pc' = [pc EXCEPT ![x] = l],
         seq' \in [Thread -> Nat], out' \in [Thread -> Transfer], caller' = caller,
         NEW q \in 0..N, peer' = [peer EXCEPT ![x] = q],
         l \in {"ask", "asked", "start", "replicate", "release"} => q \in Replica
  PROVE  ThreadInv'
<1>1. ThreadTypeOK'
  BY DEF ThreadInv, ThreadTypeOK
<1>2. PeersNamed'
  BY DEF ThreadInv, ThreadTypeOK, PeersNamed
<1>3. CallersWait'
  BY DEF ThreadInv, ThreadTypeOK, CallersWait
<1> QED  BY <1>1, <1>2, <1>3 DEF ThreadInv

LEMMA StepThread ==
  ASSUME ThreadInv, NEW x \in Thread, pc[x] \notin {"asked", "awaited"},
         NEW l \in Label \ {"ask", "asked", "start", "replicate", "release"},
         Goto(x, l), seq' \in [Thread -> Nat], out' \in [Thread -> Transfer],
         UNCHANGED <<peer, caller>>
  PROVE  ThreadInv'
<1>1. peer' = [peer EXCEPT ![x] = peer[x]] /\ peer[x] \in 0..N
  BY DEF ThreadInv, ThreadTypeOK
<1> QED  BY <1>1, MoveThread DEF Goto

LEMMA AdvanceThread ==
  ASSUME ThreadInv, NEW x \in Thread, pc[x] \notin {"asked", "awaited"},
         NEW q \in 0..N, NEW loop \in Label, NEW after \in Label,
         after \notin {"ask", "asked", "start", "replicate", "release"},
         Advance(x, q, loop, after)
  PROVE  ThreadInv'
<1>1. Stage(q, loop, after) \in Label
  BY DEF Stage
<1>2. Stage(q, loop, after) \in {"ask", "asked", "start", "replicate", "release"} => q \in Replica
  BY ConstantFacts DEF Stage, Replica
<1>3. seq' \in [Thread -> Nat] /\ out' \in [Thread -> Transfer] /\ caller' = caller
  BY DEF Advance, ThreadInv, ThreadTypeOK
<1> QED  BY <1>1, <1>2, <1>3, MoveThread DEF Advance, Goto

LEMMA ForType == \A q \in 0..N : For(q) \in Transfer
BY ConstantFacts DEF For, NoGrants, Transfer, Grants

LEMMA NoTransferType == NoTransfer \in Transfer /\ Blank \in Token
BY ForType, ConstantFacts DEF NoTransfer, Blank, NoGrants, Token, Grants

\* A thread returns from its pass and answers the thread that waits for it.
LEMMA EndPassThread ==
  ASSUME ThreadInv, NEW x \in Thread, NEW ok \in BOOLEAN, EndPass(x, ok)
  PROVE  ThreadInv'
<1> DEFINE y == caller[x]
<1>1. out' \in [Thread -> Transfer] /\ seq' \in [Thread -> Nat]
  BY NoTransferType DEF EndPass, ThreadInv, ThreadTypeOK
<1>2. caller' \in [Thread -> Thread \cup {NoThread}]
  BY DEF EndPass, ThreadInv, ThreadTypeOK
<1>3. CASE y = NoThread
  <2>1. pc' = [pc EXCEPT ![x] = "idle"] /\ peer' = peer
    BY <1>3 DEF EndPass, Goto
  <2>2. ThreadTypeOK'
    BY <1>1, <1>2, <2>1 DEF ThreadInv, ThreadTypeOK, Label, Waiting
  <2>3. PeersNamed'
    BY <2>1 DEF ThreadInv, ThreadTypeOK, PeersNamed
  <2>4. CallersWait'
    BY <1>3, <2>1 DEF EndPass, ThreadInv, ThreadTypeOK, CallersWait
  <2> QED  BY <2>2, <2>3, <2>4 DEF ThreadInv
<1>4. CASE y # NoThread
  <2>1. y \in Thread /\ pc[y] \in {"asked", "awaited"}
    BY <1>4 DEF ThreadInv, ThreadTypeOK, CallersWait
  <2> DEFINE q == NextPeer(Home[y], peer[y])
  <2>2. q \in 0..N /\ peer[y] \in 0..N
    BY <2>1, PeerTypes, ConstantFacts DEF ThreadInv, ThreadTypeOK
  <2>3. /\ pc' = [pc EXCEPT ![x] = "idle", ![y] = Replied(y, ok)]
        /\ peer' = IF pc[y] = "asked" THEN [peer EXCEPT ![y] = IF ok THEN q ELSE 0] ELSE peer
    BY <1>4 DEF EndPass
  <2>4. /\ Replied(y, ok) \in Label \ {"asked", "start", "replicate", "release", "awaited"}
        /\ Replied(y, ok) = "ask" => pc[y] = "asked" /\ ok /\ q \in Replica
    BY <2>1, <2>2, ConstantFacts DEF Replied, Stage, Label, Waiting, Replica
  <2> HIDE DEF q
  <2>5. pc' \in [Thread -> Label] /\ peer' \in [Thread -> 0..N]
    BY <2>1, <2>2, <2>3, <2>4, ConstantFacts DEF ThreadInv, ThreadTypeOK, Label, Waiting
  <2>6. PeersNamed'
    BY <2>1, <2>2, <2>3, <2>4 DEF ThreadInv, ThreadTypeOK, PeersNamed
  <2>7. CallersWait'
    <3>1. ASSUME NEW h \in Thread, caller'[h] # NoThread
          PROVE  caller'[h] = caller[h] /\ caller[h] # y /\ caller[h] # x /\ h # x
      BY <3>1, <1>4 DEF EndPass, ThreadInv, CallersWait
    <3>2. ASSUME NEW h \in Thread, caller'[h] # NoThread
          PROVE  pc'[caller'[h]] \in {"asked", "awaited"}
      <4>1. caller[h] \in Thread
        BY <3>1, <3>2 DEF ThreadInv, ThreadTypeOK
      <4> QED  BY <2>3, <3>1, <3>2, <4>1 DEF ThreadInv, ThreadTypeOK, CallersWait
    <3> QED  BY <3>1, <3>2 DEF ThreadInv, CallersWait
  <2> QED  BY <1>1, <1>2, <2>5, <2>6, <2>7 DEF ThreadInv, ThreadTypeOK
<1> QED  BY <1>3, <1>4

LEMMA LockSame == ASSUME LockTypeOK, UNCHANGED lockVars PROVE LockTypeOK'
BY DEF LockTypeOK, lockVars, requestVars, tokenVars

LEMMA GuardSame == ASSUME GuardTypeOK, UNCHANGED guardVars PROVE GuardTypeOK'
BY DEF GuardTypeOK, guardVars, markVars

LEMMA NetSame == ASSUME NetTypeOK, UNCHANGED netVars PROVE NetTypeOK'
BY DEF NetTypeOK, netVars

LEMMA ThreadSame == ASSUME ThreadInv, UNCHANGED threadVars PROVE ThreadInv'
BY DEF ThreadInv, ThreadTypeOK, PeersNamed, CallersWait, threadVars

LEMMA ReceiveType ==
  ASSUME LockTypeOK, NEW p \in Replica, NEW m \in Transfer, ReceiveToken(p, m),
         UNCHANGED <<requestVars, pending>>
  PROVE  LockTypeOK'
<1>1. /\ m.version \in Nat /\ m.lastGranted \in Grants /\ m.queue \in Seq(Replica)
  BY DEF Transfer
<1>2. Without(m.queue, p) \in Seq(Replica)
  BY <1>1, WithoutType
<1>3. [lastGranted |-> m.lastGranted, queue |-> Without(m.queue, p), version |-> m.version] \in Token
  BY <1>1, <1>2 DEF Token
<1>4. CASE UNCHANGED tokenVars
  BY <1>4, LockSame DEF lockVars
<1>5. CASE /\ hasToken' = [hasToken EXCEPT ![p] = TRUE]
           /\ tokenVersionSeen' = [tokenVersionSeen EXCEPT ![p] = m.version]
           /\ token' = [token EXCEPT ![p] = [lastGranted |-> m.lastGranted,
                                             queue |-> Without(m.queue, p),
                                             version |-> m.version]]
  BY <1>1, <1>3, <1>5 DEF LockTypeOK, requestVars
<1> QED  BY <1>4, <1>5 DEF ReceiveToken

LEMMA NoteType ==
  ASSUME LockTypeOK, NEW p \in Replica, NEW q \in Replica, NEW n \in Nat, NoteRequest(p, q, n),
         UNCHANGED <<requestingLocal, localRequestSeq, tokenVars, pending>>
  PROVE  LockTypeOK'
BY DEF LockTypeOK, NoteRequest, tokenVars, Grants

LEMMA PassType ==
  ASSUME TypeInv, NEW x \in Thread, Pass(x)
  PROVE  TypeInv'
<1> USE DEF TypeInv
<1>0. Home[x] \in Replica
  BY ConstantFacts
<1>1. CASE PassCheck(x)
  <2>1. ThreadInv'
    BY <1>1, StepThread DEF PassCheck, Step, ThreadInv, ThreadTypeOK, Label, Waiting
  <2> QED  BY <1>1, <2>1, LockSame, GuardSame, NetSame DEF PassCheck
<1>2. CASE NextNobody(x)
  BY <1>2, EndPassThread, LockSame, GuardSame, NetSame DEF NextNobody
<1>3. CASE NextRecipient(x)
  <2>1. PICK t \in Refreshed(Home[x], token[Home[x]]) :
             /\ t.queue # <<>>
             /\ token' = [token EXCEPT ![Home[x]] = t]
             /\ out' = [out EXCEPT ![x] = For(Head(t.queue))]
    BY <1>3 DEF NextRecipient
  <2>2. t \in Token
    BY <1>0, <2>1, RefreshedType DEF LockTypeOK
  <2>3. Head(t.queue) \in Replica
    BY <2>1, <2>2 DEF Token
  <2>4. For(Head(t.queue)) \in Transfer
    BY <2>3, ForType, ConstantFacts DEF Replica
  <2>5. LockTypeOK'
    BY <1>3, <2>1, <2>2 DEF NextRecipient, LockTypeOK, requestVars
  <2>6. ThreadInv'
    BY <1>3, <2>1, <2>4, StepThread DEF NextRecipient, ThreadInv, ThreadTypeOK, Label, Waiting
  <2> QED  BY <1>3, <2>5, <2>6, GuardSame, NetSame DEF NextRecipient
<1>4. CASE Export(x)
  <2> DEFINE r == Home[x]
             m == [to |-> out[x].to, lastGranted |-> token[r].lastGranted,
                   queue |-> Without(token[r].queue, out[x].to), version |-> token[r].version + 1]
  <2>1. m \in Transfer
    <3>1. token[r] \in Token /\ out[x] \in Transfer
      BY <1>0 DEF LockTypeOK, ThreadInv, ThreadTypeOK
    <3>2. /\ token[r].lastGranted \in Grants /\ token[r].queue \in Seq(Replica)
          /\ token[r].version + 1 \in Nat /\ out[x].to \in 0..N
      BY <3>1 DEF Token, Transfer
    <3>3. Without(token[r].queue, out[x].to) \in Seq(Replica)
      BY <3>2, WithoutType
    <3> QED  BY <3>2, <3>3 DEF Transfer
  <2>2. out' = [out EXCEPT ![x] = m]
    BY <1>4 DEF Export
  <2> HIDE DEF m
  <2>3. ThreadInv'
    BY <1>4, <2>1, <2>2, StepThread DEF Export, ThreadInv, ThreadTypeOK, Label, Waiting
  <2> QED  BY <1>4, <2>3, LockSame, GuardSame, NetSame DEF Export
<1>5. CASE ExportWithoutToken(x)
  BY <1>5, EndPassThread, LockSame, GuardSame, NetSame DEF ExportWithoutToken
<1>6. CASE MarkSent(x)
  <2>1. out[x] \in Transfer /\ out[x].version \in Nat
    BY DEF ThreadInv, ThreadTypeOK, Transfer
  <2>2. LockTypeOK'
    BY <1>6, <2>1, NoTransferType DEF MarkSent, LockTypeOK, requestVars
  <2>3. ThreadInv'
    BY <1>6, NoTransferType, StepThread DEF MarkSent, ThreadInv, ThreadTypeOK, Label, Waiting
  <2> QED  BY <1>6, <2>2, <2>3, GuardSame, NetSame DEF MarkSent
<1>7. CASE Send(x)
  <2>1. ThreadInv'
    BY <1>0, <1>7, StepThread DEF Send, LockTypeOK, ThreadInv, ThreadTypeOK, Label, Waiting
  <2> QED  BY <1>7, <2>1, LockSame, GuardSame, NetSame DEF Send
<1>8. CASE SendNothing(x)
  BY <1>8, EndPassThread, LockSame, GuardSame, NetSame DEF SendNothing
<1>9. CASE ClearPending(x)
  <2>1. LockTypeOK'
    BY <1>9, NoTransferType DEF ClearPending, LockTypeOK, requestVars, tokenVars
  <2> QED  BY <1>9, <2>1, EndPassThread, GuardSame, NetSame DEF ClearPending
<1>10. CASE GiveUpSend(x)
  BY <1>10, EndPassThread, LockSame, GuardSame, NetSame DEF GiveUpSend
<1> QED  BY <1>1, <1>2, <1>3, <1>4, <1>5, <1>6, <1>7, <1>8, <1>9, <1>10 DEF Pass

LEMMA MarkFinishedType ==
  ASSUME GuardTypeOK, NEW p \in Replica, NEW id \in WriteId, MarkFinished(p, id)
  PROVE  GuardTypeOK'
<1>1. ASSUME NEW s \in Seq(WriteId), Len(s) <= MaxFinished
      PROVE  Remember(s, id) \in Seq(WriteId) /\ Len(Remember(s, id)) <= MaxFinished
  BY <1>1, ConstantFacts DEF Remember
<1>2. /\ finishedWrites[p] \in Seq(WriteId) /\ Len(finishedWrites[p]) <= MaxFinished
      /\ finishedWrites' = [finishedWrites EXCEPT ![p] = Remember(finishedWrites[p], id)]
  BY DEF GuardTypeOK, MarkFinished
<1>3. \A r \in Replica : finishedWrites'[r] \in Seq(WriteId) /\ Len(finishedWrites'[r]) <= MaxFinished
  BY <1>1, <1>2 DEF GuardTypeOK
<1>4. finishedWrites' \in [Replica -> Seq(WriteId)]
  BY <1>2, <1>3 DEF GuardTypeOK
<1> QED  BY <1>3, <1>4 DEF GuardTypeOK, MarkFinished

LEMMA MarkStartedType ==
  ASSUME GuardTypeOK, NEW p \in Replica, NEW id \in WriteId, MarkStarted(p, id)
  PROVE  GuardTypeOK'
<1>1. id[1] \in Replica
  BY DEF WriteId
<1>2. CASE finishedWrites' = [finishedWrites EXCEPT ![p] = Without(@, id)] /\ UNCHANGED remoteWriters
  <2>1. /\ Without(finishedWrites[p], id) \in Seq(WriteId)
        /\ Len(Without(finishedWrites[p], id)) <= Len(finishedWrites[p])
        /\ Len(finishedWrites[p]) <= MaxFinished
        /\ Len(finishedWrites[p]) \in Nat /\ Len(Without(finishedWrites[p], id)) \in Nat
    BY WithoutType DEF GuardTypeOK
  <2> DEFINE w == Without(finishedWrites[p], id)
  <2>2. finishedWrites' = [finishedWrites EXCEPT ![p] = w]
    BY <1>2
  <2>3. w \in Seq(WriteId) /\ Len(w) <= MaxFinished
    BY <2>1, ConstantFacts
  <2> HIDE DEF w
  <2> QED  BY <1>2, <2>2, <2>3 DEF GuardTypeOK, MarkStarted
<1>3. CASE remoteWriters' = [remoteWriters EXCEPT ![p] = @ \cup {id[1]}] /\ UNCHANGED finishedWrites
  BY <1>1, <1>3 DEF GuardTypeOK, MarkStarted
<1> QED  BY <1>2, <1>3 DEF MarkStarted

LEMMA WriteType ==
  ASSUME TypeInv, NEW x \in Writer, Write(x)
  PROVE  TypeInv'
<1> USE DEF TypeInv
<1>0. /\ x \in Thread /\ Home[x] \in Replica
      /\ seq[x] \in Nat /\ peer[x] \in 0..N
  BY ConstantFacts DEF ThreadInv, ThreadTypeOK
<1>a. Id(x) \in WriteId
  BY <1>0 DEF Id, WriteId
<1>1. CASE OpenWrite(x)
  <2>1. requestNumbers[Home[x]][Home[x]] + 1 \in Nat
    BY <1>0 DEF LockTypeOK, Grants
  <2>2. LockTypeOK'
    BY <1>0, <1>1, <2>1 DEF OpenWrite, LockTypeOK, tokenVars, Grants
  <2>3. ThreadInv'
    BY <1>0, <1>1, <2>1, StepThread DEF OpenWrite, ThreadInv, ThreadTypeOK, Label, Waiting
  <2> QED  BY <1>1, <2>2, <2>3, GuardSame, NetSame DEF OpenWrite
<1>2. CASE DecideBroadcast(x)
  <2> DEFINE q == IF hasToken[Home[x]] THEN 0 ELSE FirstPeer(Home[x])
  <2>0. FirstPeer(Home[x]) \in 0..N /\ 0 \in 0..N
    BY <1>0, PeerTypes, ConstantFacts
  <2>1. q \in 0..N
    BY <2>0
  <2>2. Advance(x, q, "ask", "begin") /\ pc[x] = "opened"
    BY <1>2 DEF DecideBroadcast, Advance
  <2>3. ThreadInv'
    BY <1>0, <2>1, <2>2, AdvanceThread DEF Label, Waiting
  <2> QED  BY <1>2, <2>3, LockSame, GuardSame, NetSame DEF DecideBroadcast
<1>3. CASE BeginWrite(x)
  <2>1. Advance(x, FirstPeer(Home[x]), "start", "apply") /\ pc[x] = "begin"
    BY <1>3 DEF BeginWrite, MayBegin, Advance
  <2>2. ThreadInv'
    BY <1>0, <2>1, AdvanceThread, PeerTypes DEF Label, Waiting
  <2>3. GuardTypeOK'
    BY <1>3 DEF BeginWrite, GuardTypeOK, markVars
  <2> QED  BY <1>3, <2>2, <2>3, LockSame, NetSame DEF BeginWrite
<1>4. CASE ServeStart(x)
  <2>1. peer[x] \in Replica
    BY <1>0, <1>4 DEF ServeStart, ThreadInv, PeersNamed
  <2>2. GuardTypeOK'
    BY <1>4, <1>a, <2>1, MarkStartedType DEF ServeStart
  <2>3. ThreadInv'
    BY <1>0, <1>4, AdvanceThread, PeerTypes DEF ServeStart, Label, Waiting
  <2> QED  BY <1>4, <2>2, <2>3, LockSame, NetSame DEF ServeStart
<1>5. CASE ApplyLocally(x)
  <2>1. ThreadInv'
    BY <1>0, <1>5, AdvanceThread, PeerTypes DEF ApplyLocally, Label, Waiting
  <2> QED  BY <1>5, <2>1, LockSame, GuardSame, NetSame DEF ApplyLocally
<1>6. CASE ServeReplicate(x)
  <2> DEFINE q == NextPeer(Home[x], peer[x])
             n == IF q = 0 THEN LastPeer(Home[x]) ELSE q
             loop == IF q = 0 THEN "release" ELSE "replicate"
  <2>1. n \in 0..N /\ loop \in Label /\ "finish" \in Label
    BY <1>0, PeerTypes DEF Label, Waiting
  <2>2. Advance(x, n, loop, "finish") /\ pc[x] = "replicate"
    BY <1>6 DEF ServeReplicate
  <2> HIDE DEF n, loop
  <2>3. ThreadInv'
    BY <1>0, <2>1, <2>2, AdvanceThread
  <2> QED  BY <1>6, <2>3, LockSame, GuardSame, NetSame DEF ServeReplicate
<1>7. CASE ServeFinish(x)
  <2>1. peer[x] \in Replica
    BY <1>0, <1>7 DEF ServeFinish, ThreadInv, PeersNamed
  <2>2. GuardTypeOK'
    BY <1>7, <1>a, <2>1, MarkFinishedType DEF ServeFinish
  <2>3. ThreadInv'
    BY <1>0, <1>7, <2>1, AdvanceThread, PeerTypes DEF ServeFinish, Label, Waiting
  <2> QED  BY <1>7, <2>2, <2>3, LockSame, NetSame DEF ServeFinish
<1>8. CASE FinishWrite(x)
  <2> DEFINE r == Home[x]
             granted == IF localRequestSeq[r] = seq[x]
                        THEN [token[r] EXCEPT !.lastGranted[r] = seq[x]] ELSE token[r]
  <2>1. granted \in Token
    BY <1>0 DEF LockTypeOK, Token, Grants
  <2>2. PICK t \in Refreshed(r, granted) : token' = [token EXCEPT ![r] = t]
    BY <1>8 DEF FinishWrite
  <2> HIDE DEF granted
  <2>3. t \in Token
    BY <1>0, <2>1, <2>2, RefreshedType
  <2>4. LockTypeOK'
    BY <1>0, <1>8, <2>2, <2>3 DEF FinishWrite, LockTypeOK
  <2>5. GuardTypeOK'
    BY <1>8 DEF FinishWrite, GuardTypeOK, markVars
  <2>6. ThreadInv'
    BY <1>0, <1>8, StepThread DEF FinishWrite, Step, ThreadInv, ThreadTypeOK, Label, Waiting
  <2> QED  BY <1>8, <2>4, <2>5, <2>6, NetSame DEF FinishWrite
<1>9. CASE FinishWithoutToken(x)
  <2>1. ThreadInv'
    BY <1>0, <1>9, StepThread DEF FinishWithoutToken, Step, ThreadInv, ThreadTypeOK, Label, Waiting
  <2> QED  BY <1>9, <2>1, LockSame, GuardSame, NetSame DEF FinishWithoutToken
<1>10. CASE AbortWrite(x)
  <2>1. LockTypeOK'
    BY <1>0, <1>10 DEF AbortWrite, LockTypeOK, tokenVars
  <2>2. GuardTypeOK'
    BY <1>10 DEF AbortWrite, GuardTypeOK, markVars
  <2>3. ThreadInv'
    BY <1>0, <1>10, StepThread DEF AbortWrite, Step, ThreadInv, ThreadTypeOK, Label, Waiting
  <2> QED  BY <1>10, <2>1, <2>2, <2>3, NetSame DEF AbortWrite
<1> QED  BY <1>1, <1>2, <1>3, <1>4, <1>5, <1>6, <1>7, <1>8, <1>9, <1>10 DEF Write

LEMMA ServeType ==
  ASSUME TypeInv, NEW x \in Thread, NEW h \in Handler, Serve(x, h)
  PROVE  TypeInv'
<1> USE DEF TypeInv
<1>0. /\ h \in Thread /\ Home[x] \in Replica
      /\ seq[x] \in Nat /\ peer[x] \in 0..N /\ out[x] \in Transfer
  BY ConstantFacts DEF ThreadInv, ThreadTypeOK
<1>1. ASSUME NEW l \in {"asked", "awaited"}, pc' = [pc EXCEPT ![x] = l, ![h] = "check"],
             caller' = [caller EXCEPT ![h] = x], UNCHANGED <<seq, peer, out>>,
             pc[x] \in {"ask", "await"}, pc[h] = "idle", l = "asked" => peer[x] \in Replica
      PROVE  ThreadInv'
  <2>0. x # h
    BY <1>1
  <2>1. ThreadTypeOK'
    BY <1>0, <1>1 DEF ThreadInv, ThreadTypeOK, Label, Waiting
  <2>2. PeersNamed'
    BY <1>0, <1>1 DEF ThreadInv, ThreadTypeOK, PeersNamed
  <2>3. \A k \in Thread : caller[k] # x /\ (caller[k] # NoThread => caller[k] # h)
    BY <1>0, <1>1, ConstantFacts DEF ThreadInv, ThreadTypeOK, CallersWait
  <2>4. CallersWait'
    BY <1>0, <1>1, <2>0, <2>3 DEF ThreadInv, ThreadTypeOK, CallersWait
  <2> QED  BY <2>1, <2>2, <2>4 DEF ThreadInv
<1>2. CASE ServeRequest(x, h)
  <2>1. peer[x] \in Replica
    BY <1>2 DEF ServeRequest, ThreadInv, PeersNamed
  <2>2. LockTypeOK'
    BY <1>0, <1>2, <2>1, NoteType DEF ServeRequest
  <2>3. ThreadInv'
    BY <1>1, <1>2, <2>1 DEF ServeRequest
  <2> QED  BY <1>2, <2>2, <2>3, GuardSame, NetSame DEF ServeRequest
<1>3. CASE ServeTransfer(x, h)
  <2>1. out[x].to \in Replica
    BY <1>0, <1>3, ConstantFacts DEF ServeTransfer
  <2>2. LockTypeOK'
    BY <1>0, <1>3, <2>1, ReceiveType DEF ServeTransfer
  <2>3. ThreadInv'
    BY <1>1, <1>3 DEF ServeTransfer
  <2> QED  BY <1>3, <2>2, <2>3, GuardSame, NetSame DEF ServeTransfer
<1> QED  BY <1>2, <1>3 DEF Serve

LEMMA LateType ==
  ASSUME TypeInv, Late
  PROVE  TypeInv'
<1> USE DEF TypeInv
<1>1. ASSUME NEW c \in lateCalls, LateStart(c) \/ LateFinish(c)
      PROVE  TypeInv'
  <2>1. c.id \in WriteId /\ c.to \in Replica
    BY <1>1 DEF NetTypeOK, Call
  <2>2. GuardTypeOK'
    BY <1>1, <2>1, MarkStartedType, MarkFinishedType DEF LateStart, LateFinish
  <2>3. NetTypeOK'
    BY <1>1 DEF LateStart, LateFinish, NetTypeOK
  <2> QED  BY <1>1, <2>2, <2>3, LockSame, ThreadSame DEF LateStart, LateFinish
<1>2. ASSUME NEW h \in Handler, NEW c \in lateCalls, LateRequest(h, c)
      PROVE  TypeInv'
  <2>0. h \in Thread
    BY ConstantFacts
  <2>1. c.id[1] \in Replica /\ c.id[2] \in Nat /\ c.to \in Replica
    BY DEF NetTypeOK, Call, WriteId
  <2>2. LockTypeOK'
    BY <1>2, <2>1, NoteType DEF LateRequest
  <2>3. ThreadInv'
    BY <1>2, <2>0, StepThread DEF LateRequest, ThreadInv, ThreadTypeOK, Label, Waiting
  <2>4. NetTypeOK'
    BY <1>2 DEF LateRequest, NetTypeOK
  <2> QED  BY <1>2, <2>2, <2>3, <2>4, GuardSame DEF LateRequest
<1>3. ASSUME NEW h \in Handler, NEW m \in lateTransfers, LateTransfer(h, m)
      PROVE  TypeInv'
  <2>0. h \in Thread /\ Home[h] \in Replica
    BY ConstantFacts
  <2>1. m \in Transfer /\ m.to \in Replica
    BY <1>3, <2>0 DEF NetTypeOK, LateTransfer
  <2>2. LockTypeOK'
    BY <1>3, <2>1, ReceiveType DEF LateTransfer
  <2>3. ThreadInv'
    BY <1>3, <2>0, StepThread DEF LateTransfer, ThreadInv, ThreadTypeOK, Label, Waiting
  <2>4. NetTypeOK'
    BY <1>3 DEF LateTransfer, NetTypeOK
  <2> QED  BY <1>3, <2>2, <2>3, <2>4, GuardSame DEF LateTransfer
<1> QED  BY <1>1, <1>2, <1>3 DEF Late

LEMMA FailType ==
  ASSUME TypeInv, NEW x \in Thread, Fail(x)
  PROVE  TypeInv'
<1> USE DEF TypeInv
<1>0. /\ Home[x] \in Replica /\ seq[x] \in Nat /\ peer[x] \in 0..N /\ out[x] \in Transfer
  BY ConstantFacts DEF ThreadInv, ThreadTypeOK
<1>1. LockTypeOK' /\ failures' \in 0..MaxFailures
  BY LockSame, ConstantFacts DEF Fail, NetTypeOK
<1>2. Id(x) \in WriteId
  BY <1>0 DEF Id, WriteId
<1>3. ASSUME NEW kind \in {"request", "start", "finish"}, LostOrLate(kind, x), peer[x] \in Replica
      PROVE  lateCalls' \subseteq Call
  <2>1. [kind |-> kind, id |-> Id(x), to |-> peer[x]] \in Call
    BY <1>2, <1>3 DEF Call
  <2> QED  BY <1>3, <2>1 DEF LostOrLate, NetTypeOK
<1>4. CASE RequestFails(x)
  <2>1. pc[x] \in {"ask", "asked"} /\ peer[x] \in Replica
    BY <1>4 DEF RequestFails, ThreadInv, PeersNamed
  <2>2. NetTypeOK'
    BY <1>1, <1>3, <1>4, <2>1 DEF RequestFails, NetTypeOK
  <2>3. ThreadTypeOK'
    BY <1>4, ConstantFacts DEF RequestFails, Goto, Abandoned, ThreadInv, ThreadTypeOK, Label, Waiting
  <2>4. PeersNamed'
    BY <1>4 DEF RequestFails, Goto, ThreadInv, ThreadTypeOK, PeersNamed
  <2>5. CallersWait'
    BY <1>4 DEF RequestFails, Goto, Abandoned, ThreadInv, ThreadTypeOK, CallersWait
  <2> QED  BY <1>1, <1>4, <2>2, <2>3, <2>4, <2>5, GuardSame DEF RequestFails, ThreadInv
<1>5. CASE StartFails(x)
  <2>1. pc[x] = "start" /\ peer[x] \in Replica
    BY <1>5 DEF StartFails, ThreadInv, PeersNamed
  <2>2. NetTypeOK'
    BY <1>1, <1>3, <1>5, <2>1 DEF StartFails, NetTypeOK
  <2>3. peer' = [peer EXCEPT ![x] = peer[x]]
    BY <1>5 DEF StartFails, ThreadInv, ThreadTypeOK
  <2>4. ThreadInv'
    BY <1>0, <1>5, <2>1, <2>3, MoveThread DEF StartFails, Goto, ThreadInv, ThreadTypeOK, Label, Waiting
  <2> QED  BY <1>1, <1>5, <2>2, <2>4, GuardSame DEF StartFails
<1>6. CASE ApplyFails(x)
  <2>1. NetTypeOK'
    BY <1>1, <1>6 DEF ApplyFails, NetTypeOK
  <2>2. ThreadInv'
    BY <1>0, <1>6, AdvanceThread, PeerTypes DEF ApplyFails, Label, Waiting
  <2> QED  BY <1>1, <1>6, <2>1, <2>2, GuardSame DEF ApplyFails
<1>7. CASE FinishFails(x)
  <2>1. pc[x] = "release" /\ peer[x] \in Replica
    BY <1>7 DEF FinishFails, ThreadInv, PeersNamed
  <2>2. NetTypeOK'
    BY <1>1, <1>3, <1>7, <2>1 DEF FinishFails, NetTypeOK
  <2>3. ThreadInv'
    BY <1>0, <1>7, <2>1, AdvanceThread, PeerTypes DEF FinishFails, Label, Waiting
  <2> QED  BY <1>1, <1>7, <2>2, <2>3, GuardSame DEF FinishFails
<1>8. CASE TransferFails(x)
  <2>1. NetTypeOK'
    BY <1>0, <1>1, <1>8 DEF TransferFails, NetTypeOK
  <2> QED  BY <1>1, <1>8, <2>1, EndPassThread, GuardSame DEF TransferFails
<1> QED  BY <1>4, <1>5, <1>6, <1>7, <1>8 DEF Fail

LEMMA ReadSyncType ==
  ASSUME TypeInv, Read \/ Sync
  PROVE  TypeInv'
<1> USE DEF TypeInv
<1>1. ASSUME NEW r \in Replica, AcquireRead(r) \/ ReleaseRead(r)
      PROVE  TypeInv'
  <2>0. activeReaders[r] \in Nat
    BY DEF GuardTypeOK
  <2>a. CASE AcquireRead(r)
    BY <2>a, <2>0, LockSame, ThreadSame, NetSame DEF AcquireRead, GuardTypeOK, markVars
  <2>b. CASE ReleaseRead(r)
    <3>1. activeReaders[r] - 1 \in Nat
      BY <2>0, <2>b DEF ReleaseRead
    <3> QED  BY <2>b, <3>1, LockSame, ThreadSame, NetSame DEF ReleaseRead, GuardTypeOK, markVars
  <2> QED  BY <1>1, <2>a, <2>b
<1>2. ASSUME NEW x \in Syncer, NEW source \in Replica, BeginSync(x, source)
      PROVE  TypeInv'
  <2>0. x \in Thread /\ source \in 0..N
    BY ConstantFacts DEF Replica
  <2>1. GuardTypeOK'
    BY <1>2 DEF BeginSync, GuardTypeOK
  <2>2. ThreadInv'
    BY <1>2, <2>0, MoveThread DEF BeginSync, Goto, ThreadInv, ThreadTypeOK, Label, Waiting
  <2> QED  BY <1>2, <2>1, <2>2, LockSame, NetSame DEF BeginSync
<1>3. ASSUME NEW x \in Syncer, EndSync(x)
      PROVE  TypeInv'
  <2>0. x \in Thread /\ Home[x] \in Replica
    BY ConstantFacts
  <2>a. PICK q \in 0..N : q = 0
    BY ConstantFacts
  <2>b. peer' = [peer EXCEPT ![x] = q]
    BY <1>3, <2>a DEF EndSync
  <2>1. GuardTypeOK'
    BY <1>3 DEF EndSync, GuardTypeOK
  <2>c. PICK l \in Label : l = "idle"
    BY DEF Label
  <2>d. /\ pc[x] = "sync" /\ pc' = [pc EXCEPT ![x] = l] /\ caller' = caller
        /\ seq' \in [Thread -> Nat] /\ out' \in [Thread -> Transfer]
    BY <1>3, <2>c DEF EndSync, Goto, ThreadInv, ThreadTypeOK
  <2>2. ThreadInv'
    BY <2>0, <2>b, <2>c, <2>d, MoveThread
  <2> QED  BY <1>3, <2>1, <2>2, LockSame, NetSame DEF EndSync
<1> QED  BY <1>1, <1>2, <1>3 DEF Read, Sync

LEMMA TypeStep == TypeInv /\ [Next]_vars => TypeInv'
<1> SUFFICES ASSUME TypeInv, [Next]_vars PROVE TypeInv'
  OBVIOUS
<1>1. CASE UNCHANGED vars
  BY <1>1, LockSame, GuardSame, NetSame, ThreadSame DEF vars, TypeInv
<1>2. CASE Next
  BY <1>2, PassType, WriteType, ServeType, LateType, FailType, ReadSyncType DEF Next
<1> QED  BY <1>1, <1>2

LEMMA TypeInit == Init => TypeInv
<1> SUFFICES ASSUME Init PROVE TypeInv
  OBVIOUS
<1>1. LockTypeOK
  BY ConstantFacts, NoTransferType DEF Init, LockTypeOK, NoGrants, Grants
<1>2. GuardTypeOK
  BY ConstantFacts DEF Init, GuardTypeOK
<1>3. NetTypeOK
  BY ConstantFacts DEF Init, NetTypeOK
<1>4. ThreadTypeOK
  BY ConstantFacts, NoTransferType DEF Init, ThreadTypeOK, Label, Waiting
<1>5. PeersNamed /\ CallersWait
  BY DEF Init, PeersNamed, CallersWait
<1> QED  BY <1>1, <1>2, <1>3, <1>4, <1>5 DEF TypeInv, ThreadInv

\* Every variable keeps the type of its Python attribute, in every schedule of
\* the threads and after every failure; a loop over the peers names a peer, and
\* a handler answers the one thread that waits for it.
THEOREM TypeCorrect == Spec => []TypeOK
<1>1. TypeInv => TypeOK
  BY DEF TypeInv, ThreadInv, TypeOK
<1> QED  BY <1>1, TypeInit, TypeStep, PTL DEF Spec

-----------------------------------------------------------------------------
(* One token.  Each step is one of three kinds for the token: it leaves it  *)
(* where it is, it accepts a transfer, or it sends the token away.          *)

\* No thread but those of NextRecipient and Export comes to a hand-off, and none
\* but that of Send comes to a transfer.
Aside ==
  \A y \in Thread :
    pc'[y] \in {"export", "mark", "await"} => pc'[y] = pc[y] /\ out'[y] = out[y]

SameTokens ==
  /\ UNCHANGED <<hasToken, tokenVersionSeen>>
  /\ \A r \in Replica : token'[r].version = token[r].version
  /\ Transfers' \subseteq Transfers

Received ==
  \E m \in Transfers : ReceiveToken(m.to, m) /\ m.to \in Replica /\ Transfers' \subseteq Transfers

TokenStep == SameTokens \/ Received \/ \E x \in Thread : MarkSent(x)

HandoffStep ==
  \A x \in Thread : InHandoff(x)' =>
    (pc'[x] = pc[x] /\ out'[x] = out[x]) \/ NextRecipient(x) \/ Export(x)

WriteStep ==
  \A r \in Replica : localWriteActive'[r] =>
    localWriteActive[r] \/ (hasToken[r] /\ UNCHANGED hasToken)

Kinds == TokenStep /\ HandoffStep /\ WriteStep

LEMMA MoveAside ==
  ASSUME ThreadInv, NEW x \in Thread, NEW l, pc' = [pc EXCEPT ![x] = l],
         l \notin {"export", "mark", "await"}, \A y \in Thread \ {x} : out'[y] = out[y]
  PROVE  Aside
BY DEF Aside, ThreadInv, ThreadTypeOK

LEMMA AdvanceAside ==
  ASSUME ThreadInv, NEW x \in Thread, NEW q, NEW loop, NEW after, Advance(x, q, loop, after),
         loop \notin {"export", "mark", "await"}, after \notin {"export", "mark", "await"}
  PROVE  Aside
<1>1. Stage(q, loop, after) \notin {"export", "mark", "await"}
  BY DEF Stage
<1> QED  BY <1>1, MoveAside DEF Advance, Goto

LEMMA EndPassAside ==
  ASSUME ThreadInv, NEW x \in Thread, NEW ok, EndPass(x, ok)
  PROVE  Aside
<1>1. \A y \in Thread \ {x} : out'[y] = out[y]
  BY DEF EndPass, ThreadInv, ThreadTypeOK
<1>2. CASE caller[x] = NoThread
  BY <1>1, <1>2, MoveAside DEF EndPass, Goto
<1>3. CASE caller[x] # NoThread
  <2> DEFINE y == caller[x]
  <2>1. y \in Thread /\ pc[y] \in {"asked", "awaited"}
    BY <1>3 DEF ThreadInv, ThreadTypeOK, CallersWait
  <2>2. pc' = [pc EXCEPT ![x] = "idle", ![y] = Replied(y, ok)]
    BY <1>3 DEF EndPass
  <2>3. Replied(y, ok) \notin {"export", "mark", "await"}
    BY DEF Replied, Stage
  <2> QED  BY <1>1, <2>1, <2>2, <2>3 DEF Aside, ThreadInv, ThreadTypeOK
<1> QED  BY <1>2, <1>3

LEMMA InFlightType == TypeInv => InFlight \subseteq Transfer
BY DEF TypeInv, LockTypeOK, NetTypeOK, ThreadInv, ThreadTypeOK, InFlight

\* No transfer appears that was not on its way.
LEMMA TransfersShrink ==
  ASSUME TypeInv, Aside,
         \A r \in Replica : pending'[r] = pending[r] \/ pending'[r] = NoTransfer,
         lateTransfers' \subseteq InFlight
  PROVE  Transfers' \subseteq Transfers
<1>1. NoTransfer.to = 0
  BY DEF NoTransfer, For
<1>2. ASSUME NEW m \in InFlight', m.to # 0
      PROVE  m \in InFlight
  <2>1. CASE m \in {pending[r] : r \in Replica}'
    BY <1>1, <1>2, <2>1 DEF InFlight
  <2>2. CASE m \in {out[x] : x \in {y \in Thread : pc[y] = "await"}}'
    BY <2>2 DEF InFlight, Aside
  <2>3. CASE m \in lateTransfers'
    BY <2>3
  <2> QED  BY <1>2, <2>1, <2>2, <2>3 DEF InFlight
<1> QED  BY <1>2 DEF Transfers

LEMMA QuietKind ==
  ASSUME TypeInv, Aside, WriteStep, UNCHANGED <<hasToken, tokenVersionSeen>>,
         \A r \in Replica : token'[r].version = token[r].version,
         \A r \in Replica : pending'[r] = pending[r] \/ pending'[r] = NoTransfer,
         lateTransfers' \subseteq InFlight
  PROVE  Kinds
<1>1. HandoffStep
  BY DEF Aside, HandoffStep, InHandoff
<1>2. SameTokens
  BY TransfersShrink DEF SameTokens
<1> QED  BY <1>1, <1>2 DEF Kinds, TokenStep

LEMMA StillKind ==
  ASSUME TypeInv, Aside, UNCHANGED <<tokenVars, pending, lateTransfers>>,
         WriteStep
  PROVE  Kinds
BY QuietKind DEF tokenVars, InFlight

\* A quiet pass step leaves the writes alone.
LEMMA SameWrites == UNCHANGED localWriteActive => WriteStep
BY DEF WriteStep

LEMMA PassKind ==
  ASSUME TypeInv, NEW x \in Thread, Pass(x)
  PROVE  Kinds
<1>0. ThreadInv /\ Home[x] \in Replica
  BY ConstantFacts DEF TypeInv
<1>a. WriteStep
  BY SameWrites DEF Pass, PassCheck, NextNobody, NextRecipient, Export, ExportWithoutToken,
     MarkSent, Send, SendNothing, ClearPending, GiveUpSend, guardVars
<1>1. CASE PassCheck(x)
  <2>1. Aside
    BY <1>0, <1>1, MoveAside DEF PassCheck, Step, Goto
  <2> QED  BY <1>1, <1>a, <2>1, StillKind DEF PassCheck, lockVars, netVars
<1>2. CASE NextNobody(x) \/ ExportWithoutToken(x) \/ SendNothing(x) \/ GiveUpSend(x)
  <2>1. Aside
    BY <1>0, <1>2, EndPassAside DEF NextNobody, ExportWithoutToken, SendNothing, GiveUpSend
  <2> QED  BY <1>2, <1>a, <2>1, StillKind
           DEF NextNobody, ExportWithoutToken, SendNothing, GiveUpSend, lockVars, netVars
<1>3. CASE ClearPending(x)
  <2>1. Aside
    BY <1>0, <1>3, EndPassAside DEF ClearPending
  <2>2. \A r \in Replica : pending'[r] = pending[r] \/ pending'[r] = NoTransfer
    BY <1>3 DEF ClearPending, TypeInv, LockTypeOK
  <2> QED  BY <1>3, <1>a, <2>1, <2>2, QuietKind DEF ClearPending, tokenVars, netVars, InFlight
<1>4. CASE NextRecipient(x) \/ Export(x)
  <2>1. /\ \A y \in Thread \ {x} : pc'[y] = pc[y] /\ out'[y] = out[y]
        /\ pc[x] # "await" /\ pc'[x] # "await"
    BY <1>0, <1>4 DEF NextRecipient, Export, Goto, ThreadInv, ThreadTypeOK
  <2>2. HandoffStep
    BY <1>4, <2>1 DEF HandoffStep, InHandoff
  <2>3. Transfers' \subseteq Transfers
    BY <1>4, <2>1 DEF NextRecipient, Export, lockVars, netVars, Transfers, InFlight
  <2>4. \A r \in Replica : token'[r].version = token[r].version
    BY <1>0, <1>4, RefreshedType DEF NextRecipient, Export, lockVars, tokenVars, TypeInv, LockTypeOK
  <2>5. SameTokens
    BY <1>4, <2>3, <2>4 DEF SameTokens, NextRecipient, Export, lockVars, tokenVars
  <2> QED  BY <1>a, <2>2, <2>5 DEF Kinds, TokenStep
<1>5. CASE MarkSent(x)
  <2>1. HandoffStep
    BY <1>0, <1>5 DEF HandoffStep, InHandoff, MarkSent, Goto, ThreadInv, ThreadTypeOK
  <2> QED  BY <1>5, <1>a, <2>1 DEF Kinds, TokenStep
<1>6. CASE Send(x)
  <2>1. /\ \A y \in Thread \ {x} : pc'[y] = pc[y] /\ out'[y] = out[y]
        /\ pc[x] = "send" /\ pc'[x] = "await" /\ out'[x] = pending[Home[x]]
    BY <1>0, <1>6 DEF Send, Goto, ThreadInv, ThreadTypeOK
  <2>2. HandoffStep
    BY <2>1 DEF HandoffStep, InHandoff
  <2>3. InFlight' \subseteq InFlight
    BY <1>0, <1>6, <2>1 DEF Send, lockVars, netVars, InFlight
  <2>4. SameTokens
    BY <1>6, <2>3 DEF SameTokens, Send, lockVars, tokenVars, Transfers
  <2> QED  BY <1>a, <2>2, <2>4 DEF Kinds, TokenStep
<1> QED  BY <1>1, <1>2, <1>3, <1>4, <1>5, <1>6 DEF Pass

LEMMA WriteKind ==
  ASSUME TypeInv, NEW x \in Writer, Write(x)
  PROVE  Kinds
<1>0. ThreadInv /\ x \in Thread /\ Home[x] \in Replica /\ seq[x] \in Nat
  BY ConstantFacts DEF TypeInv, ThreadInv, ThreadTypeOK
<1>a. WriteStep
  BY <1>0 DEF Write, OpenWrite, DecideBroadcast, BeginWrite, MayBegin, ServeStart, ApplyLocally,
     ServeReplicate, ServeFinish, FinishWrite, FinishWithoutToken, AbortWrite, MarkStarted,
     MarkFinished, lockVars, tokenVars, guardVars, WriteStep, TypeInv, GuardTypeOK
<1>1. CASE OpenWrite(x)
  <2>1. Aside
    BY <1>0, <1>1, MoveAside DEF OpenWrite, Goto
  <2> QED  BY <1>1, <1>a, <2>1, StillKind DEF OpenWrite, netVars
<1>2. CASE DecideBroadcast(x) \/ BeginWrite(x)
  <2>1. Aside
    BY <1>0, <1>2, AdvanceAside DEF DecideBroadcast, BeginWrite, Advance
  <2> QED  BY <1>2, <1>a, <2>1, StillKind DEF DecideBroadcast, BeginWrite, lockVars, netVars
<1>3. CASE ServeStart(x) \/ ApplyLocally(x) \/ ServeReplicate(x) \/ ServeFinish(x)
  <2>1. Aside
    BY <1>0, <1>3, AdvanceAside DEF ServeStart, ApplyLocally, ServeReplicate, ServeFinish
  <2> QED  BY <1>3, <1>a, <2>1, StillKind
           DEF ServeStart, ApplyLocally, ServeReplicate, ServeFinish, lockVars, netVars
<1>4. CASE FinishWrite(x)
  <2> DEFINE r == Home[x]
             granted == IF localRequestSeq[r] = seq[x]
                        THEN [token[r] EXCEPT !.lastGranted[r] = seq[x]] ELSE token[r]
  <2>1. token \in [Replica -> Token]
    BY DEF TypeInv, LockTypeOK
  <2>2. granted \in Token /\ granted.version = token[r].version
    BY <1>0, <2>1 DEF Token, Grants
  <2>3. PICK t \in Refreshed(r, granted) : token' = [token EXCEPT ![r] = t]
    BY <1>4 DEF FinishWrite
  <2> HIDE DEF granted
  <2>4. \A q \in Replica : token'[q].version = token[q].version
    BY <1>0, <2>1, <2>2, <2>3, RefreshedType
  <2>5. Aside
    BY <1>0, <1>4, MoveAside DEF FinishWrite, Step, Goto
  <2> QED  BY <1>4, <1>a, <2>4, <2>5, QuietKind DEF FinishWrite, netVars, InFlight
<1>5. CASE FinishWithoutToken(x) \/ AbortWrite(x)
  <2>1. Aside
    BY <1>0, <1>5, MoveAside DEF FinishWithoutToken, AbortWrite, Step, Goto
  <2> QED  BY <1>5, <1>a, <2>1, StillKind DEF FinishWithoutToken, AbortWrite, lockVars, netVars
<1> QED  BY <1>1, <1>2, <1>3, <1>4, <1>5 DEF Write

LEMMA ServeKind ==
  ASSUME TypeInv, NEW x \in Thread, NEW h \in Handler, Serve(x, h)
  PROVE  Kinds
<1>0. ThreadInv /\ h \in Thread /\ Home[h] \in Replica /\ WriteStep
  BY ConstantFacts, SameWrites
  DEF TypeInv, Serve, ServeRequest, ServeTransfer, guardVars
<1>1. Aside
  BY <1>0 DEF Serve, ServeRequest, ServeTransfer, Aside, ThreadInv, ThreadTypeOK
<1>2. CASE ServeRequest(x, h)
  BY <1>0, <1>1, <1>2, StillKind DEF ServeRequest, netVars
<1>3. CASE ServeTransfer(x, h)
  <2>1. out[x] \in Transfers /\ out[x].to \in Replica
    BY <1>0, <1>3, ConstantFacts DEF ServeTransfer, Transfers, InFlight
  <2>2. Transfers' \subseteq Transfers
    BY <1>1, <1>3, TransfersShrink DEF ServeTransfer, netVars, InFlight
  <2>3. HandoffStep
    BY <1>1 DEF Aside, HandoffStep, InHandoff
  <2> QED  BY <1>0, <1>3, <2>1, <2>2, <2>3 DEF ServeTransfer, Kinds, TokenStep, Received
<1> QED  BY <1>2, <1>3 DEF Serve

LEMMA LateKind ==
  ASSUME TypeInv, Late
  PROVE  Kinds
<1>0. ThreadInv
  BY DEF TypeInv
<1>1. ASSUME NEW c \in lateCalls, LateStart(c) \/ LateFinish(c)
      PROVE  Kinds
  <2>1. Aside
    BY <1>1 DEF LateStart, LateFinish, threadVars, Aside
  <2>2. WriteStep
    BY <1>1, SameWrites DEF LateStart, LateFinish, MarkStarted, MarkFinished
  <2> QED  BY <1>1, <2>1, <2>2, StillKind DEF LateStart, LateFinish, lockVars
<1>2. ASSUME NEW h \in Handler, NEW c \in lateCalls, LateRequest(h, c)
      PROVE  Kinds
  <2>1. Aside
    BY <1>0, <1>2, MoveAside, ConstantFacts DEF LateRequest, Goto
  <2>2. WriteStep
    BY <1>2, SameWrites DEF LateRequest, guardVars
  <2> QED  BY <1>2, <2>1, <2>2, StillKind DEF LateRequest
<1>3. ASSUME NEW h \in Handler, NEW m \in lateTransfers, LateTransfer(h, m)
      PROVE  Kinds
  <2>1. Aside
    BY <1>0, <1>3, MoveAside, ConstantFacts DEF LateTransfer, Goto
  <2>2. WriteStep
    BY <1>3, SameWrites DEF LateTransfer, guardVars
  <2>3. m \in Transfers /\ m.to \in Replica
    BY <1>3, ConstantFacts DEF LateTransfer, Transfers, InFlight
  <2>4. Transfers' \subseteq Transfers
    BY <1>3, <2>1, TransfersShrink DEF LateTransfer, InFlight
  <2>5. HandoffStep
    BY <2>1 DEF Aside, HandoffStep, InHandoff
  <2> QED  BY <1>3, <2>2, <2>3, <2>4, <2>5 DEF LateTransfer, Kinds, TokenStep, Received
<1> QED  BY <1>1, <1>2, <1>3 DEF Late

LEMMA FailKind ==
  ASSUME TypeInv, NEW x \in Thread, Fail(x)
  PROVE  Kinds
<1>0. ThreadInv /\ Home[x] \in Replica
  BY ConstantFacts DEF TypeInv
<1>1. WriteStep
  BY SameWrites DEF Fail, RequestFails, StartFails, ApplyFails, FinishFails, TransferFails, guardVars
<1>2. CASE RequestFails(x) \/ StartFails(x)
  <2>1. Aside
    BY <1>0, <1>2, MoveAside DEF RequestFails, StartFails, Goto
  <2> QED  BY <1>1, <1>2, <2>1, StillKind DEF Fail, RequestFails, StartFails, lockVars
<1>3. CASE ApplyFails(x) \/ FinishFails(x)
  <2>1. Aside
    BY <1>0, <1>3, AdvanceAside DEF ApplyFails, FinishFails
  <2> QED  BY <1>1, <1>3, <2>1, StillKind DEF Fail, ApplyFails, FinishFails, lockVars
<1>4. CASE TransferFails(x)
  <2>1. Aside
    BY <1>0, <1>4, EndPassAside DEF TransferFails
  <2>2. lateTransfers' \subseteq InFlight
    BY <1>4 DEF TransferFails, InFlight
  <2> QED  BY <1>1, <2>1, <2>2, QuietKind DEF Fail, lockVars, tokenVars
<1> QED  BY <1>2, <1>3, <1>4 DEF Fail

LEMMA ReadSyncKind ==
  ASSUME TypeInv, Read \/ Sync
  PROVE  Kinds
<1>0. ThreadInv
  BY DEF TypeInv
<1>1. ASSUME NEW r \in Replica, AcquireRead(r) \/ ReleaseRead(r)
      PROVE  Kinds
  <2>1. Aside /\ WriteStep
    BY <1>1, SameWrites DEF AcquireRead, ReleaseRead, threadVars, Aside
  <2> QED  BY <1>1, <2>1, StillKind DEF AcquireRead, ReleaseRead, lockVars, netVars
<1>2. ASSUME NEW x \in Syncer, (\E source \in Replica : BeginSync(x, source)) \/ EndSync(x)
      PROVE  Kinds
  <2>1. Aside /\ WriteStep
    BY <1>0, <1>2, MoveAside, SameWrites, ConstantFacts DEF BeginSync, EndSync, Goto
  <2> QED  BY <1>2, <2>1, StillKind DEF BeginSync, EndSync, lockVars, netVars
<1> QED  BY <1>1, <1>2 DEF Read, Sync

LEMMA NextKind == TypeInv /\ Next => Kinds
BY PassKind, WriteKind, ServeKind, LateKind, FailKind, ReadSyncKind DEF Next

\* What the versions are: naturals.
LEMMA TransferFacts ==
  ASSUME TypeInv
  PROVE  /\ \A m \in Transfers : m \in Transfer /\ m.version \in Nat /\ m.to \in Replica
         /\ \A r \in Replica : tokenVersionSeen[r] \in Nat /\ token[r].version \in Nat
<1>1. ASSUME NEW m \in Transfers
      PROVE  m \in Transfer /\ m.version \in Nat /\ m.to \in Replica
  <2>1. m \in Transfer /\ m.to # 0
    BY InFlightType DEF Transfers
  <2> QED  BY <2>1, ConstantFacts DEF Transfer, Replica
<1>2. \A r \in Replica : tokenVersionSeen[r] \in Nat /\ token[r].version \in Nat
  BY DEF TypeInv, LockTypeOK, Token
<1> QED  BY <1>1, <1>2

Versions == UniqueToken /\ HolderIsNewest /\ LiveIsNewest /\ VersionNamesRecipient

LEMMA SameTokensKeep ==
  ASSUME TypeInv, Versions, SameTokens
  PROVE  Versions'
<1>1. \A m \in Transfers' : m \in Transfers /\ (Live(m)' <=> Live(m))
  BY DEF SameTokens, Live
<1>2. UniqueToken'
  BY DEF Versions, SameTokens, UniqueToken
<1>3. HolderIsNewest'
  BY <1>1 DEF Versions, SameTokens, HolderIsNewest
<1>4. LiveIsNewest'
  BY <1>1 DEF Versions, SameTokens, LiveIsNewest
<1>5. VersionNamesRecipient'
  BY <1>1 DEF Versions, VersionNamesRecipient
<1> QED  BY <1>2, <1>3, <1>4, <1>5 DEF Versions

\* An accepted transfer makes its recipient the holder; every other transfer is
\* then too old for its recipient.
LEMMA ReceivedKeeps ==
  ASSUME TypeInv, Versions, Received
  PROVE  Versions'
<1>1. PICK m \in Transfers : ReceiveToken(m.to, m) /\ m.to \in Replica /\ Transfers' \subseteq Transfers
  BY DEF Received
<1>2. CASE ~Newer(m.to, m)
  <2>1. SameTokens
    BY <1>1, <1>2 DEF ReceiveToken, tokenVars, SameTokens
  <2> QED  BY <2>1, SameTokensKeep
<1>3. CASE Newer(m.to, m)
  <2> DEFINE p == m.to
  <2>1. /\ hasToken' = [hasToken EXCEPT ![p] = TRUE]
        /\ tokenVersionSeen' = [tokenVersionSeen EXCEPT ![p] = m.version]
        /\ token' = [token EXCEPT ![p] = [lastGranted |-> m.lastGranted,
                                          queue |-> Without(m.queue, p),
                                          version |-> m.version]]
    BY <1>1, <1>3 DEF ReceiveToken
  <2>2. Live(m)
    BY <1>1, <1>3 DEF Live, Newer, Transfers
  <2>3. /\ \A r \in Replica : ~hasToken[r] /\ tokenVersionSeen[r] <= m.version
        /\ \A n \in Transfers : n.version <= m.version
    BY <2>2 DEF Versions, LiveIsNewest
  <2>4. /\ token \in [Replica -> Token] /\ tokenVersionSeen \in [Replica -> Nat]
        /\ hasToken \in [Replica -> BOOLEAN]
    BY DEF TypeInv, LockTypeOK
  <2>5. /\ \A r \in Replica : hasToken'[r] <=> r = p
        /\ tokenVersionSeen'[p] = m.version /\ token'[p].version = m.version
        /\ \A r \in Replica \ {p} : tokenVersionSeen'[r] = tokenVersionSeen[r]
    BY <1>1, <2>1, <2>3, <2>4
  <2>6. ASSUME NEW n \in Transfers'
        PROVE  n \in Transfers /\ ~Live(n)' /\ n.version <= m.version
    <3>1. n \in Transfers /\ n.version <= m.version /\ n.to \in Replica /\ n.to # 0
      BY <1>1, <2>3, TransferFacts DEF Transfers
    <3>2. CASE n.to = p
      BY <2>5, <3>1, <3>2, TransferFacts DEF Live
    <3>3. CASE n.to # p
      <4>1. SUFFICES ~Live(n)
        BY <2>5, <3>1, <3>3 DEF Live
      <4>2. ASSUME Live(n) PROVE FALSE
        <5>1. m.version <= n.version
          BY <3>1, <4>2 DEF Versions, LiveIsNewest
        <5>2. n.version = m.version
          BY <3>1, <5>1, TransferFacts
        <5> QED  BY <3>1, <3>3, <5>2 DEF Versions, VersionNamesRecipient
      <4> QED  BY <4>2
    <3> QED  BY <3>1, <3>2, <3>3
  <2>7. UniqueToken'
    BY <2>5 DEF UniqueToken
  <2>8. HolderIsNewest'
    <3>1. tokenVersionSeen'[p] <= m.version
      BY <2>5, TransferFacts
    <3>2. \A q \in Replica : tokenVersionSeen'[q] <= m.version
      BY <2>3, <2>5, <3>1
    <3> QED  BY <2>5, <2>6, <3>2 DEF HolderIsNewest
  <2>9. LiveIsNewest'
    BY <2>6 DEF LiveIsNewest
  <2>10. VersionNamesRecipient'
    BY <1>1 DEF Versions, VersionNamesRecipient
  <2> QED  BY <2>7, <2>8, <2>9, <2>10 DEF Versions
<1> QED  BY <1>2, <1>3

\* The sender stamps the transfer with a version nobody has seen.
LEMMA SentKeeps ==
  ASSUME TypeInv, Versions, OneHandoff, NEW x \in Thread, MarkSent(x)
  PROVE  Versions'
<1> DEFINE r == Home[x]
           m == out[x]
<1>0. /\ r \in Replica /\ hasToken[r] /\ m.version = token[r].version + 1
      /\ m \in Transfer /\ m.version \in Nat /\ pc[x] = "mark"
  BY ConstantFacts DEF MarkSent, OneHandoff, InHandoff, TypeInv, ThreadInv, ThreadTypeOK, Transfer
<1>1. /\ \A q \in Replica : tokenVersionSeen[q] < m.version
      /\ \A n \in Transfers : n.version < m.version
      /\ m.version > tokenVersionSeen[r]
  BY <1>0, TransferFacts DEF Versions, HolderIsNewest
<1>2. /\ hasToken \in [Replica -> BOOLEAN] /\ tokenVersionSeen \in [Replica -> Nat]
      /\ pc \in [Thread -> Label] /\ out \in [Thread -> Transfer] /\ pending \in [Replica -> Transfer]
  BY DEF TypeInv, LockTypeOK, ThreadInv, ThreadTypeOK
<1>3. /\ \A q \in Replica : ~hasToken'[q]
      /\ tokenVersionSeen'[r] = m.version
      /\ \A q \in Replica \ {r} : tokenVersionSeen'[q] = tokenVersionSeen[q]
  BY <1>0, <1>1, <1>2 DEF MarkSent, Versions, UniqueToken
<1>4. \A q \in Replica : tokenVersionSeen'[q] \in Nat /\ tokenVersionSeen'[q] <= m.version
  BY <1>0, <1>1, <1>2, <1>3
<1>5. /\ pending' = [pending EXCEPT ![r] = m] /\ lateTransfers' = lateTransfers
      /\ pc' = [pc EXCEPT ![x] = "send"] /\ out' = [out EXCEPT ![x] = NoTransfer]
  BY DEF MarkSent, Goto, netVars
<1>6. ASSUME NEW n \in Transfers'
      PROVE  n = m \/ n \in Transfers
  <2>1. n \in InFlight' /\ n.to # 0
    BY DEF Transfers
  <2>2. CASE n \in {pending[q] : q \in Replica}'
    BY <1>0, <1>2, <1>5, <2>1, <2>2 DEF Transfers, InFlight
  <2>3. CASE n \in {out[y] : y \in {z \in Thread : pc[z] = "await"}}'
    BY <1>0, <1>2, <1>5, <2>1, <2>3 DEF Transfers, InFlight
  <2>4. CASE n \in lateTransfers'
    BY <1>5, <2>1, <2>4 DEF Transfers, InFlight
  <2> QED  BY <2>1, <2>2, <2>3, <2>4 DEF InFlight
<1>7. ASSUME NEW n \in Transfers', Live(n)'
      PROVE  n = m
  <2>1. ASSUME n \in Transfers PROVE FALSE
    <3>1. n.to \in Replica /\ n.version \in Nat /\ ~Live(n) /\ n.to # 0
      BY <1>0, <2>1, TransferFacts DEF Versions, HolderIsNewest, Transfers
    <3>2. tokenVersionSeen[n.to] \in Nat /\ n.version <= tokenVersionSeen[n.to]
      BY <1>2, <3>1 DEF Live
    <3>3. tokenVersionSeen'[n.to] >= tokenVersionSeen[n.to]
      BY <1>0, <1>1, <1>3, <3>1, <3>2
    <3> QED  BY <1>4, <1>7, <3>1, <3>2, <3>3 DEF Live
  <2> QED  BY <1>6, <2>1
<1>8. UniqueToken' /\ HolderIsNewest'
  BY <1>3 DEF UniqueToken, HolderIsNewest
<1>9. LiveIsNewest'
  <2>1. \A n \in Transfers' : n.version <= m.version
    BY <1>0, <1>1, <1>6, TransferFacts
  <2> QED  BY <1>3, <1>4, <1>7, <2>1 DEF LiveIsNewest
<1>10. VersionNamesRecipient'
  BY <1>0, <1>1, <1>6, TransferFacts DEF Versions, VersionNamesRecipient
<1> QED  BY <1>8, <1>9, <1>10 DEF Versions

\* No other thread of its replica disturbs a hand-off.
LEMMA HandoffKept ==
  ASSUME TypeInv, OneHandoff, HandoffStep, HandoffUndisturbed
  PROVE  OneHandoff'
<1>1. ASSUME NEW x \in Thread, NextRecipient(x)
      PROVE  /\ hasToken'[Home[x]] /\ ~localWriteActive'[Home[x]]
             /\ pc[x] = "next" /\ pc'[x] = "export"
  BY <1>1 DEF NextRecipient, MayPass, guardVars, Goto, TypeInv, ThreadInv, ThreadTypeOK
<1>2. ASSUME NEW x \in Thread, Export(x)
      PROVE  /\ hasToken'[Home[x]] /\ ~localWriteActive'[Home[x]]
             /\ pc[x] = "export" /\ pc'[x] = "mark"
             /\ out'[x].version = token'[Home[x]].version + 1
  <2>1. pc[x] = "export" /\ pc'[x] = "mark" /\ hasToken[Home[x]] /\ ~localWriteActive[Home[x]]
    BY <1>2 DEF Export, Goto, OneHandoff, InHandoff, TypeInv, ThreadInv, ThreadTypeOK
  <2>2. out'[x].version = token[Home[x]].version + 1
    BY <1>2 DEF Export, TypeInv, ThreadInv, ThreadTypeOK
  <2> QED  BY <1>2, <2>1, <2>2 DEF Export, lockVars, tokenVars, guardVars
<1>3. ASSUME NEW x \in Thread, InHandoff(x)', pc'[x] = pc[x], out'[x] = out[x]
      PROVE  /\ hasToken'[Home[x]] /\ ~localWriteActive'[Home[x]]
             /\ pc'[x] = "mark" => out'[x].version = token'[Home[x]].version + 1
             /\ \A y \in Thread : InHandoff(y)' /\ Home[y] = Home[x] => y = x
  BY <1>3 DEF InHandoff, HandoffUndisturbed, OneHandoff
<1>4. ASSUME NEW x \in Thread, InHandoff(x)'
      PROVE  /\ hasToken'[Home[x]] /\ ~localWriteActive'[Home[x]]
             /\ pc'[x] = "mark" => out'[x].version = token'[Home[x]].version + 1
  BY <1>1, <1>2, <1>3, <1>4 DEF HandoffStep
<1>5. ASSUME NEW x \in Thread, NEW y \in Thread, InHandoff(x)', InHandoff(y)', Home[x] = Home[y]
      PROVE  x = y
  <2>1. CASE (pc'[x] = pc[x] /\ out'[x] = out[x]) \/ (pc'[y] = pc[y] /\ out'[y] = out[y])
    BY <1>3, <1>5, <2>1
  <2>2. CASE (NextRecipient(x) \/ Export(x)) /\ (NextRecipient(y) \/ Export(y))
    <3>1. pc' = [pc EXCEPT ![x] = pc'[x]] /\ pc'[y] # pc[y]
      BY <1>1, <1>2, <2>2 DEF NextRecipient, Export, Goto, TypeInv, ThreadInv, ThreadTypeOK
    <3> QED  BY <3>1 DEF TypeInv, ThreadInv, ThreadTypeOK
  <2> QED  BY <1>5, <2>1, <2>2 DEF HandoffStep
<1>6. /\ \A x \in Thread : InHandoff(x)' => hasToken'[Home[x]] /\ ~localWriteActive'[Home[x]]
      /\ \A x \in Thread : pc'[x] = "mark" => out'[x].version = token'[Home[x]].version + 1
  BY <1>4 DEF InHandoff
<1> QED  BY <1>5, <1>6 DEF OneHandoff

LEMMA OnlyHolderKept ==
  ASSUME TypeInv, OneHandoff, OnlyHolderWrites, Kinds
  PROVE  OnlyHolderWrites'
<1>1. CASE SameTokens
  BY <1>1 DEF Kinds, SameTokens, WriteStep, OnlyHolderWrites
<1>2. CASE Received
  <2>1. \A r \in Replica : hasToken[r] => hasToken'[r]
    BY <1>2 DEF Received, ReceiveToken, tokenVars, TypeInv, LockTypeOK
  <2> QED  BY <2>1 DEF Kinds, WriteStep, OnlyHolderWrites
<1>3. ASSUME NEW x \in Thread, MarkSent(x)
      PROVE  OnlyHolderWrites'
  BY <1>3, ConstantFacts
  DEF MarkSent, guardVars, OneHandoff, InHandoff, OnlyHolderWrites, TypeInv, LockTypeOK
<1> QED  BY <1>1, <1>2, <1>3 DEF Kinds, TokenStep

LEMMA TokenStutter ==
  ASSUME TypeInv, TokenInv, UNCHANGED vars
  PROVE  TokenInv'
<1>1. SameTokens
  BY DEF SameTokens, vars, lockVars, tokenVars, threadVars, netVars, Transfers, InFlight
<1>2. Versions'
  BY <1>1, SameTokensKeep DEF TokenInv, Versions
<1>3. OneHandoff' /\ OnlyHolderWrites'
  BY DEF TokenInv, OneHandoff, InHandoff, OnlyHolderWrites, vars, lockVars, tokenVars,
     guardVars, threadVars
<1> QED  BY <1>2, <1>3 DEF TokenInv, Versions

LEMMA TokenInvStep == TypeInv /\ TokenInv /\ [SerialNext]_vars => TokenInv'
<1> SUFFICES ASSUME TypeInv, TokenInv, [SerialNext]_vars PROVE TokenInv'
  OBVIOUS
<1>1. CASE SerialNext
  <2>1. Kinds /\ HandoffUndisturbed
    BY <1>1, NextKind DEF SerialNext
  <2>2. Versions /\ OneHandoff /\ OnlyHolderWrites
    BY DEF TokenInv, Versions
  <2>3. Versions'
    BY <2>1, <2>2, SameTokensKeep, ReceivedKeeps, SentKeeps DEF Kinds, TokenStep
  <2>4. OneHandoff' /\ OnlyHolderWrites'
    BY <2>1, <2>2, HandoffKept, OnlyHolderKept DEF Kinds
  <2> QED  BY <2>3, <2>4 DEF TokenInv, Versions
<1>2. CASE UNCHANGED vars
  BY <1>2, TokenStutter
<1> QED  BY <1>1, <1>2

LEMMA TokenInvInit == Init => TokenInv
<1> SUFFICES ASSUME Init PROVE TokenInv
  OBVIOUS
<1>1. Transfers = {}
  BY DEF Init, Transfers, InFlight, NoTransfer, For
<1>a. /\ \A r \in Replica : hasToken[r] <=> r = InitialHolder
      /\ \A r \in Replica : token[r].version = 0 /\ tokenVersionSeen[r] = 0
  BY DEF Init, Blank
<1>2. Versions
  BY <1>1, <1>a
  DEF Versions, UniqueToken, HolderIsNewest, LiveIsNewest, VersionNamesRecipient
<1>3. OneHandoff /\ OnlyHolderWrites
  BY DEF Init, OneHandoff, InHandoff, OnlyHolderWrites
<1> QED  BY <1>2, <1>3 DEF TokenInv, Versions

LEMMA SerialIsNext == [SerialNext]_vars => [Next]_vars
BY DEF SerialNext

\* Versions order the token: the holder, or else the newest transfer on its way, has
\* the highest version, and a version names one recipient (export_token_for_transfer
\* counts it up, receive_token accepts what is newer).
THEOREM TokenInvHolds == SerialSpec => []TokenInv
BY TypeInit, TypeStep, TokenInvInit, TokenInvStep, SerialIsNext, PTL DEF SerialSpec

LEMMA TokenShowsSingle == TypeInv /\ TokenInv => SingleToken
<1> SUFFICES ASSUME TypeInv, TokenInv PROVE SingleToken
  OBVIOUS
<1>1. ASSUME NEW m \in InFlight, NEW n \in InFlight, Live(m)
      PROVE  /\ \A r \in Replica : ~hasToken[r]
             /\ Live(n) => n.to = m.to /\ n.version = m.version
  <2>1. m \in Transfers /\ (Live(n) => n \in Transfers)
    BY <1>1 DEF Live, Transfers
  <2>2. \A r \in Replica : ~hasToken[r]
    BY <1>1, <2>1 DEF TokenInv, LiveIsNewest
  <2>3. ASSUME Live(n) PROVE n.to = m.to /\ n.version = m.version
    <3>1. n.version <= m.version /\ m.version <= n.version
      BY <1>1, <2>1, <2>3 DEF TokenInv, LiveIsNewest
    <3>2. n.version = m.version
      BY <2>1, <2>3, <3>1, TransferFacts
    <3> QED  BY <2>1, <2>3, <3>2 DEF TokenInv, VersionNamesRecipient
  <2> QED  BY <2>2, <2>3
<1> QED  BY <1>1 DEF SingleToken, TokenInv

\* Unless a hand-off is disturbed, the token is unique: a replica holds it and no
\* transfer would be accepted, or none holds it and the transfers that would be
\* are copies of one.  Lost, late and repeated transfers do not change that.
THEOREM TokenIsSingle == SerialSpec => []SingleToken
BY TokenShowsSingle, TypeInit, TypeStep, TokenInvInit, TokenInvStep, SerialIsNext, PTL DEF SerialSpec

\* The distributed mutex of begin_local_write and finish_local_write: two replicas
\* never have a local write active together.
THEOREM MutexHolds == SerialSpec => []MutualExclusion
<1>1. TokenInv => MutualExclusion
  BY DEF TokenInv, UniqueToken, OnlyHolderWrites, MutualExclusion
<1> QED  BY <1>1, TypeInit, TypeStep, TokenInvInit, TokenInvStep, SerialIsNext, PTL DEF SerialSpec

\* Of the threads.  A write that ends clears the flag localWriteActive of its replica,
\* and abort_local_write does so without looking whose write it is.
AbortsApart ==
  \A x, y \in Writer : AbortWrite(x) /\ Home[y] = Home[x] => ~InCriticalSection(y)

UnabortedSpec == Init /\ [][SerialNext /\ AbortsApart]_vars

ActiveInCriticalSection ==
  \A x \in Writer : InCriticalSection(x) => localWriteActive[Home[x]]

\* No write ends while another one of its replica is in its critical section.
EndsApart ==
  \A x, y \in Writer :
    (FinishWrite(x) \/ AbortWrite(x)) /\ y # x /\ Home[y] = Home[x] => ~InCriticalSection(y)

CriticalStep ==
  \A x \in Writer : InCriticalSection(x)' =>
    \/ InCriticalSection(x) /\ (localWriteActive[Home[x]] => localWriteActive'[Home[x]])
    \/ BeginWrite(x)

CriticalLabel == {"start", "apply", "replicate", "release", "finish"}

LEMMA MoveCritical ==
  ASSUME ThreadInv, NEW x \in Thread, NEW l, pc' = [pc EXCEPT ![x] = l],
         UNCHANGED localWriteActive, l \in CriticalLabel => pc[x] \in CriticalLabel
  PROVE  CriticalStep
BY ConstantFacts DEF CriticalStep, CriticalLabel, InCriticalSection, ThreadInv, ThreadTypeOK

LEMMA AdvanceCritical ==
  ASSUME ThreadInv, NEW x \in Thread, NEW q, NEW loop, NEW after, Advance(x, q, loop, after),
         UNCHANGED localWriteActive, pc[x] \in CriticalLabel
  PROVE  CriticalStep
BY MoveCritical DEF Advance, Goto

LEMMA EndPassCritical ==
  ASSUME ThreadInv, NEW x \in Thread, NEW ok, EndPass(x, ok), UNCHANGED localWriteActive
  PROVE  CriticalStep
<1>1. CASE caller[x] = NoThread
  BY <1>1, MoveCritical DEF EndPass, Goto, CriticalLabel
<1>2. CASE caller[x] # NoThread
  <2> DEFINE y == caller[x]
  <2>1. y \in Thread
    BY <1>2 DEF ThreadInv, ThreadTypeOK
  <2>2. pc' = [pc EXCEPT ![x] = "idle", ![y] = Replied(y, ok)]
    BY <1>2 DEF EndPass
  <2>3. Replied(y, ok) \notin CriticalLabel
    BY DEF Replied, Stage, CriticalLabel
  <2> QED  BY <2>1, <2>2, <2>3, ConstantFacts
           DEF CriticalStep, CriticalLabel, InCriticalSection, ThreadInv, ThreadTypeOK
<1> QED  BY <1>1, <1>2

LEMMA PassCritical ==
  ASSUME TypeInv, NEW x \in Thread, Pass(x)
  PROVE  CriticalStep
<1>0. ThreadInv /\ UNCHANGED localWriteActive
  BY DEF TypeInv, Pass, PassCheck, NextNobody, NextRecipient, Export, ExportWithoutToken,
     MarkSent, Send, SendNothing, ClearPending, GiveUpSend, guardVars
<1>1. CASE PassCheck(x) \/ NextRecipient(x) \/ Export(x) \/ MarkSent(x) \/ Send(x)
  BY <1>0, <1>1, MoveCritical
  DEF PassCheck, NextRecipient, Export, MarkSent, Send, Step, Goto, CriticalLabel
<1>2. CASE \/ NextNobody(x) \/ ExportWithoutToken(x) \/ SendNothing(x)
           \/ ClearPending(x) \/ GiveUpSend(x)
  BY <1>0, <1>2, EndPassCritical
  DEF NextNobody, ExportWithoutToken, SendNothing, ClearPending, GiveUpSend
<1> QED  BY <1>1, <1>2 DEF Pass

LEMMA WriteCritical ==
  ASSUME TypeInv, EndsApart, NEW x \in Writer, Write(x)
  PROVE  CriticalStep
<1>0. ThreadInv /\ x \in Thread /\ Home[x] \in Replica
  BY ConstantFacts DEF TypeInv
<1>1. CASE OpenWrite(x) \/ FinishWithoutToken(x)
  BY <1>0, <1>1, MoveCritical
  DEF OpenWrite, FinishWithoutToken, Step, Goto, guardVars, CriticalLabel
<1>2. CASE DecideBroadcast(x)
  <2>1. UNCHANGED localWriteActive /\ pc'[x] \notin CriticalLabel /\ pc' = [pc EXCEPT ![x] = pc'[x]]
    BY <1>0, <1>2 DEF DecideBroadcast, guardVars, Goto, Stage, CriticalLabel, ThreadInv, ThreadTypeOK
  <2> QED  BY <1>0, <2>1, MoveCritical
<1>3. CASE ServeStart(x) \/ ApplyLocally(x) \/ ServeReplicate(x) \/ ServeFinish(x)
  <2>1. UNCHANGED localWriteActive /\ pc[x] \in CriticalLabel
    BY <1>3 DEF ServeStart, MarkStarted, ApplyLocally, ServeReplicate, ServeFinish, MarkFinished,
       guardVars, CriticalLabel
  <2> QED  BY <1>0, <1>3, <2>1, AdvanceCritical
           DEF ServeStart, ApplyLocally, ServeReplicate, ServeFinish
<1>4. CASE BeginWrite(x)
  <2>1. /\ localWriteActive' = [localWriteActive EXCEPT ![Home[x]] = TRUE]
        /\ \A y \in Thread \ {x} : pc'[y] = pc[y]
    BY <1>0, <1>4 DEF BeginWrite, Goto, ThreadInv, ThreadTypeOK
  <2> QED  BY <1>0, <1>4, <2>1, ConstantFacts
           DEF CriticalStep, InCriticalSection, TypeInv, GuardTypeOK
<1>5. CASE FinishWrite(x) \/ AbortWrite(x)
  <2>1. /\ localWriteActive' = [localWriteActive EXCEPT ![Home[x]] = FALSE]
        /\ \A y \in Thread \ {x} : pc'[y] = pc[y]
        /\ pc'[x] = "check"
    BY <1>0, <1>5 DEF FinishWrite, AbortWrite, Step, Goto, ThreadInv, ThreadTypeOK
  <2>2. ASSUME NEW y \in Writer, InCriticalSection(y)'
        PROVE  InCriticalSection(y) /\ localWriteActive'[Home[y]] = localWriteActive[Home[y]]
    <3>1. y # x /\ y \in Thread /\ InCriticalSection(y)
      BY <2>1, <2>2, ConstantFacts DEF InCriticalSection
    <3>2. Home[y] # Home[x]
      BY <1>5, <3>1 DEF EndsApart
    <3> QED  BY <1>0, <2>1, <3>1, <3>2, ConstantFacts DEF TypeInv, GuardTypeOK
  <2> QED  BY <2>2 DEF CriticalStep
<1> QED  BY <1>1, <1>2, <1>3, <1>4, <1>5 DEF Write

LEMMA OtherCritical ==
  ASSUME TypeInv,
         \/ \E x \in Thread, h \in Handler : Serve(x, h)
         \/ \E x \in Thread : Fail(x)
         \/ Late \/ Read \/ Sync
  PROVE  CriticalStep
<1>0. ThreadInv
  BY DEF TypeInv
<1>1. ASSUME NEW x \in Thread, NEW h \in Handler, Serve(x, h)
      PROVE  CriticalStep
  BY <1>0, <1>1, ConstantFacts
  DEF Serve, ServeRequest, ServeTransfer, guardVars, CriticalStep, InCriticalSection,
      ThreadInv, ThreadTypeOK
<1>2. ASSUME NEW x \in Thread, Fail(x)
      PROVE  CriticalStep
  <2>1. CASE RequestFails(x) \/ StartFails(x)
    BY <1>0, <2>1, MoveCritical DEF RequestFails, StartFails, Goto, guardVars, CriticalLabel
  <2>2. CASE ApplyFails(x) \/ FinishFails(x)
    BY <1>0, <2>2, AdvanceCritical DEF ApplyFails, FinishFails, guardVars, CriticalLabel
  <2>3. CASE TransferFails(x)
    BY <1>0, <2>3, EndPassCritical DEF TransferFails, guardVars
  <2> QED  BY <1>2, <2>1, <2>2, <2>3 DEF Fail
<1>3. CASE Late
  <2>1. ASSUME NEW c \in lateCalls, LateStart(c) \/ LateFinish(c)
        PROVE  CriticalStep
    BY <2>1 DEF LateStart, LateFinish, MarkStarted, MarkFinished, threadVars, CriticalStep,
       InCriticalSection
  <2>2. ASSUME NEW h \in Handler,
               \/ \E c \in lateCalls : LateRequest(h, c)
               \/ \E m \in lateTransfers : LateTransfer(h, m)
        PROVE  CriticalStep
    BY <1>0, <2>2, MoveCritical, ConstantFacts
    DEF LateRequest, LateTransfer, Goto, guardVars, CriticalLabel
  <2> QED  BY <1>3, <2>1, <2>2 DEF Late
<1>4. CASE Read \/ Sync
  <2>1. ASSUME NEW r \in Replica, AcquireRead(r) \/ ReleaseRead(r)
        PROVE  CriticalStep
    BY <2>1 DEF AcquireRead, ReleaseRead, threadVars, CriticalStep, InCriticalSection
  <2>2. ASSUME NEW x \in Syncer, (\E source \in Replica : BeginSync(x, source)) \/ EndSync(x)
        PROVE  CriticalStep
    BY <1>0, <2>2, MoveCritical, ConstantFacts DEF BeginSync, EndSync, Goto, CriticalLabel
  <2> QED  BY <1>4, <2>1, <2>2 DEF Read, Sync
<1> QED  BY <1>1, <1>2, <1>3, <1>4

LEMMA CriticalKept ==
  EndsApart /\ TypeInv /\ ActiveInCriticalSection /\ Next => CriticalStep /\ ActiveInCriticalSection'
<1> SUFFICES ASSUME EndsApart, TypeInv, ActiveInCriticalSection, Next
             PROVE  CriticalStep /\ ActiveInCriticalSection'
  OBVIOUS
<1>1. CriticalStep
  BY PassCritical, WriteCritical, OtherCritical DEF Next
<1>2. \A x \in Writer : BeginWrite(x) => localWriteActive'[Home[x]]
  BY ConstantFacts DEF BeginWrite, TypeInv, GuardTypeOK
<1> QED  BY <1>1, <1>2 DEF CriticalStep, ActiveInCriticalSection

LEMMA OneWriterKept ==
  ASSUME TypeInv, OneWriter, ActiveInCriticalSection, MutualExclusion',
         [SerialNext /\ AbortsApart]_vars
  PROVE  OneWriter' /\ ActiveInCriticalSection'
<1>1. CASE UNCHANGED vars
  BY <1>1 DEF vars, guardVars, threadVars, ActiveInCriticalSection, OneWriter, InCriticalSection
<1>2. CASE SerialNext /\ AbortsApart
  <2>1. EndsApart
    <3>1. \A x \in Writer : FinishWrite(x) => InCriticalSection(x)
      BY DEF FinishWrite, InCriticalSection
    <3> QED  BY <1>2, <3>1 DEF EndsApart, AbortsApart, OneWriter
  <2>2. CriticalStep /\ ActiveInCriticalSection'
    BY <1>2, <2>1, CriticalKept DEF SerialNext
  <2>3. ASSUME NEW x \in Writer, NEW y \in Writer, x # y, BeginWrite(x), InCriticalSection(y)'
        PROVE  FALSE
    <3>1. /\ x \in Thread /\ y \in Thread /\ Home[x] \in Replica /\ Home[y] \in Replica
          /\ ~localWriteActive[Home[x]]
          /\ localWriteActive' = [localWriteActive EXCEPT ![Home[x]] = TRUE]
          /\ pc'[y] = pc[y]
      BY <2>3, ConstantFacts DEF BeginWrite, MayBegin, Goto, TypeInv, ThreadInv, ThreadTypeOK
    <3>2. localWriteActive[Home[y]]
      BY <2>3, <3>1 DEF InCriticalSection, ActiveInCriticalSection
    <3>3. Home[y] # Home[x]
      BY <3>1, <3>2
    <3>4. localWriteActive'[Home[x]] /\ localWriteActive'[Home[y]]
      BY <3>1, <3>2, <3>3 DEF TypeInv, GuardTypeOK
    <3> QED  BY <3>1, <3>3, <3>4 DEF MutualExclusion
  <2>4. OneWriter'
    BY <2>2, <2>3 DEF OneWriter, CriticalStep
  <2> QED  BY <2>2, <2>4
<1> QED  BY <1>1, <1>2

\* The mutex of the threads, however many writes a replica serves at once: no two of
\* them are between begin_local_write and finish_local_write, unless abort_local_write
\* clears the flag of a write that is (lines 195-201 of the coordinator).
THEOREM OneWriterAtATime == UnabortedSpec => []OneWriter
<1>1. Init => OneWriter /\ ActiveInCriticalSection
  BY ConstantFacts DEF Init, OneWriter, ActiveInCriticalSection, InCriticalSection
<1>2. UnabortedSpec => SerialSpec
  <2>1. [SerialNext /\ AbortsApart]_vars => [SerialNext]_vars
    OBVIOUS
  <2> QED  BY <2>1, PTL DEF UnabortedSpec, SerialSpec
<1>3. SerialSpec => []TypeInv
  BY TypeInit, TypeStep, SerialIsNext, PTL DEF SerialSpec
<1>4. TypeInv /\ OneWriter /\ ActiveInCriticalSection /\ MutualExclusion'
        /\ [SerialNext /\ AbortsApart]_vars => OneWriter' /\ ActiveInCriticalSection'
  BY OneWriterKept
<1> QED  BY <1>1, <1>2, <1>3, <1>4, MutexHolds, PTL DEF UnabortedSpec

\* Each replica serves one write at a time.
SingleWriter == \A x, y \in Writer : Home[x] = Home[y] => x = y

LEMMA SingleEndsApart == ASSUME SingleWriter PROVE EndsApart
BY DEF SingleWriter, EndsApart

\* A write begins or ends in three actions only.
BeginsOrEnds(x) == BeginWrite(x) \/ FinishWrite(x) \/ AbortWrite(x)

LEMMA WhoWrites ==
  ASSUME Next, \A x \in Writer : ~BeginsOrEnds(x)
  PROVE  UNCHANGED localWriteActive
<1>1. ASSUME NEW x \in Thread, Pass(x)
      PROVE  UNCHANGED localWriteActive
  BY <1>1 DEF Pass, PassCheck, NextNobody, NextRecipient, Export, ExportWithoutToken, MarkSent,
     Send, SendNothing, ClearPending, GiveUpSend, guardVars
<1>2. ASSUME NEW x \in Writer, Write(x)
      PROVE  UNCHANGED localWriteActive
  BY <1>2 DEF BeginsOrEnds, Write, OpenWrite, DecideBroadcast, ServeStart, MarkStarted,
     ApplyLocally, ServeReplicate, ServeFinish, MarkFinished, FinishWithoutToken, guardVars
<1>3. ASSUME NEW x \in Thread, NEW h \in Handler, Serve(x, h)
      PROVE  UNCHANGED localWriteActive
  BY <1>3 DEF Serve, ServeRequest, ServeTransfer, guardVars
<1>4. ASSUME NEW x \in Thread, Fail(x)
      PROVE  UNCHANGED localWriteActive
  BY <1>4 DEF Fail, RequestFails, StartFails, ApplyFails, FinishFails, TransferFails, guardVars
<1>5. ASSUME Late PROVE UNCHANGED localWriteActive
  BY <1>5 DEF Late, LateStart, LateFinish, LateRequest, LateTransfer, MarkStarted, MarkFinished,
     guardVars
<1>6. ASSUME Read \/ Sync PROVE UNCHANGED localWriteActive
  BY <1>6 DEF Read, Sync, AcquireRead, ReleaseRead, BeginSync, EndSync
<1> QED  BY <1>1, <1>2, <1>3, <1>4, <1>5, <1>6 DEF Next

LEMMA MutexStep == TypeInv /\ TokenInv /\ [SerialNext]_vars => [Mutex!Next]_(Mutex!vars)
<1> SUFFICES ASSUME TypeInv, TokenInv, [SerialNext]_vars PROVE [Mutex!Next]_(Mutex!vars)
  OBVIOUS
<1> DEFINE held == {r \in Replica : hasToken[r]}
           active == {r \in Replica : localWriteActive[r]}
<1>0. /\ \A r \in held : held = {r}
      /\ active \subseteq held
  BY DEF TokenInv, UniqueToken, OnlyHolderWrites
<1>a. hasToken \in [Replica -> BOOLEAN] /\ localWriteActive \in [Replica -> BOOLEAN]
  BY DEF TypeInv, LockTypeOK, GuardTypeOK
<1>1. CASE UNCHANGED vars
  BY <1>1 DEF vars, lockVars, tokenVars, guardVars, Mutex!vars
<1>2. ASSUME NEW x \in Writer, BeginsOrEnds(x)
      PROVE  [Mutex!Next]_(Mutex!vars)
  <2> DEFINE r == Home[x]
  <2>0. r \in Replica
    BY ConstantFacts
  <2>1. held' = held
    BY <1>2 DEF BeginsOrEnds, BeginWrite, FinishWrite, AbortWrite, lockVars, tokenVars
  <2>2. CASE BeginWrite(x)
    <3>1. hasToken[r] /\ ~localWriteActive[r]
      BY <2>2 DEF BeginWrite, MayBegin
    <3>2. held = {r} /\ active = {}
      BY <1>0, <2>0, <3>1
    <3>3. active' = {r}
      BY <1>a, <2>0, <2>2, <3>2 DEF BeginWrite
    <3>4. Mutex!Enter(r)
      BY <2>1, <3>2, <3>3 DEF Mutex!Enter
    <3> QED  BY <2>0, <3>4 DEF Mutex!Next
  <2>3. CASE FinishWrite(x) \/ AbortWrite(x)
    <3>1. localWriteActive' = [localWriteActive EXCEPT ![r] = FALSE]
      BY <2>3 DEF FinishWrite, AbortWrite
    <3>2. CASE localWriteActive[r]
      <4>1. active = {r} /\ active' = {}
        BY <1>0, <1>a, <2>0, <3>1, <3>2
      <4>2. Mutex!Leave(r)
        BY <2>1, <4>1 DEF Mutex!Leave
      <4> QED  BY <2>0, <4>2 DEF Mutex!Next
    <3>3. CASE ~localWriteActive[r]
      <4>1. active' = active
        BY <1>a, <2>0, <3>1, <3>3
      <4> QED  BY <2>1, <4>1 DEF Mutex!vars
    <3> QED  BY <3>2, <3>3
  <2> QED  BY <1>2, <2>2, <2>3 DEF BeginsOrEnds
<1>3. CASE SerialNext /\ \A x \in Writer : ~BeginsOrEnds(x)
  <2>1. active' = active /\ TokenStep
    BY <1>3, WhoWrites, NextKind DEF SerialNext, Kinds
  <2>2. CASE held' = held
    BY <2>1, <2>2 DEF Mutex!vars
  <2>3. CASE SameTokens
    BY <2>2, <2>3 DEF SameTokens
  <2>4. CASE Received /\ ~SameTokens
    <3>1. PICK m \in Transfers : ReceiveToken(m.to, m) /\ m.to \in Replica /\ Transfers' \subseteq Transfers
      BY <2>4 DEF Received
    <3> DEFINE p == m.to
    <3>2. Newer(p, m) /\ hasToken' = [hasToken EXCEPT ![p] = TRUE]
      BY <2>4, <3>1 DEF ReceiveToken, tokenVars, SameTokens
    <3>3. held = {}
      BY <3>1, <3>2 DEF Newer, Live, Transfers, TokenInv, LiveIsNewest
    <3>4. held' = {p}
      BY <1>a, <3>1, <3>2, <3>3
    <3>5. Mutex!Arrive(p)
      BY <2>1, <3>3, <3>4 DEF Mutex!Arrive
    <3> QED  BY <3>1, <3>5 DEF Mutex!Next
  <2>5. ASSUME NEW x \in Thread, MarkSent(x)
        PROVE  [Mutex!Next]_(Mutex!vars)
    <3> DEFINE r == Home[x]
    <3>1. /\ r \in Replica /\ hasToken[r] /\ ~localWriteActive[r]
          /\ hasToken' = [hasToken EXCEPT ![r] = FALSE]
      BY <2>5, ConstantFacts DEF MarkSent, TokenInv, OneHandoff, InHandoff
    <3>2. held = {r} /\ active = {}
      BY <1>0, <3>1
    <3>3. held' = {}
      BY <1>a, <3>1, <3>2
    <3>4. Mutex!Depart(r)
      BY <2>1, <3>2, <3>3 DEF Mutex!Depart
    <3> QED  BY <3>1, <3>4 DEF Mutex!Next
  <2> QED  BY <2>1, <2>3, <2>4, <2>5 DEF TokenStep
<1> QED  BY <1>1, <1>2, <1>3

\* The coordinators implement the lock of TokenMutex: writes enter and leave one
\* at a time at the holder, and the token departs only from a replica that does
\* not write.
THEOREM CoordinationRefinesMutex == SerialSpec => ImplementsMutex
<1>1. Init => Mutex!Init
  <2> SUFFICES ASSUME Init PROVE Mutex!Init
    OBVIOUS
  <2>1. \A r \in Replica : (hasToken[r] <=> r = InitialHolder) /\ ~localWriteActive[r]
    BY DEF Init
  <2> QED  BY <2>1, ConstantFacts DEF Mutex!Init
<1> QED  BY <1>1, TypeInit, TypeStep, TokenInvInit, TokenInvStep, MutexStep, SerialIsNext, PTL
         DEF SerialSpec, ImplementsMutex, Mutex!Spec

-----------------------------------------------------------------------------
(* Readers and the local write of a replica.                               *)

\* Readers come and go in acquire_read and release_read only.
LEMMA ReadersSame == ASSUME Next, ~Read PROVE UNCHANGED activeReaders
<1>1. ASSUME NEW x \in Thread, Pass(x)
      PROVE  UNCHANGED activeReaders
  BY <1>1 DEF Pass, PassCheck, NextNobody, NextRecipient, Export, ExportWithoutToken,
     MarkSent, Send, SendNothing, ClearPending, GiveUpSend, guardVars
<1>2. ASSUME NEW x \in Writer, Write(x)
      PROVE  UNCHANGED activeReaders
  BY <1>2 DEF Write, OpenWrite, DecideBroadcast, BeginWrite, ServeStart, MarkStarted,
     ApplyLocally, ServeReplicate, ServeFinish, MarkFinished, FinishWrite, FinishWithoutToken,
     AbortWrite, guardVars
<1>3. ASSUME NEW x \in Thread, (\E h \in Handler : Serve(x, h)) \/ Fail(x)
      PROVE  UNCHANGED activeReaders
  BY <1>3 DEF Serve, ServeRequest, ServeTransfer, Fail, RequestFails, StartFails,
     ApplyFails, FinishFails, TransferFails, guardVars
<1>4. ASSUME Late \/ Sync PROVE UNCHANGED activeReaders
  BY <1>4 DEF Late, LateStart, LateFinish, LateRequest, LateTransfer, MarkStarted,
     MarkFinished, Sync, BeginSync, EndSync, guardVars
<1> QED  BY <1>1, <1>2, <1>3, <1>4 DEF Next

LEMMA ExclusionKept ==
  TypeInv /\ LocalReadWriteExclusion /\ [Next]_vars => LocalReadWriteExclusion'
<1> SUFFICES ASSUME TypeInv, LocalReadWriteExclusion, [Next]_vars
             PROVE  LocalReadWriteExclusion'
  OBVIOUS
<1>0. /\ activeReaders \in [Replica -> Nat] /\ localWriteActive \in [Replica -> BOOLEAN]
  BY DEF TypeInv, GuardTypeOK
<1>1. CASE UNCHANGED <<activeReaders, localWriteActive>>
  BY <1>1 DEF LocalReadWriteExclusion
<1>2. ASSUME NEW x \in Writer, BeginsOrEnds(x)
      PROVE  LocalReadWriteExclusion'
  BY <1>0, <1>2, ConstantFacts
  DEF BeginsOrEnds, BeginWrite, MayBegin, FinishWrite, AbortWrite, LocalReadWriteExclusion
<1>3. ASSUME NEW r \in Replica, AcquireRead(r) \/ ReleaseRead(r)
      PROVE  LocalReadWriteExclusion'
  BY <1>0, <1>3 DEF AcquireRead, MayRead, ReleaseRead, LocalReadWriteExclusion
<1>4. CASE Next /\ ~Read /\ \A x \in Writer : ~BeginsOrEnds(x)
  <2>1. UNCHANGED activeReaders
    BY <1>4, ReadersSame
  <2> QED  BY <1>1, <1>4, <2>1, WhoWrites
<1>5. CASE UNCHANGED vars
  BY <1>1, <1>5 DEF vars, guardVars
<1> QED  BY <1>2, <1>3, <1>4, <1>5 DEF Read

\* acquire_read and begin_local_write exclude each other in every schedule and
\* after every failure, whatever the coordinators of the other replicas do.
THEOREM LocalExclusion == Spec => []LocalReadWriteExclusion
<1>1. Init => LocalReadWriteExclusion
  BY DEF Init, LocalReadWriteExclusion
<1> QED  BY <1>1, ExclusionKept, TypeInit, TypeStep, PTL DEF Spec

=============================================================================
