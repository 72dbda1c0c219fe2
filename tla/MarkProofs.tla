------------------------------- MODULE MarkProofs -------------------------------
(***************************************************************************)
(* Theorems about the marks of Coordination (_remote_writer_ids): they are *)
(* there while a write is applied and replicated, so that nobody reads,    *)
(* and none is left when the writes have ended.                            *)
(***************************************************************************)
EXTENDS CoordinationProofs

-----------------------------------------------------------------------------
(* The memory of finished writes.                                           *)

LEMMA RangeIs == ASSUME NEW s  PROVE Range(s) = {s[i] : i \in DOMAIN s}
BY DEF Range

LEMMA SubSeqAfter ==
  ASSUME NEW S, NEW l \in Seq(S), NEW k \in 1..Len(l)
  PROVE  /\ SubSeq(l, k + 1, Len(l)) \in Seq(S)
         /\ Len(SubSeq(l, k + 1, Len(l))) = Len(l) - k
         /\ \A j \in 1..(Len(l) - k) : SubSeq(l, k + 1, Len(l))[j] = l[k + j]
<1>1. Len(l) \in Nat /\ k + 1 \in 1..(Len(l) + 1)
  OBVIOUS
<1>2. Len(SubSeq(l, k + 1, Len(l))) = Len(l) - k
  BY <1>1
<1>3. \A j \in 1..(Len(l) - k) : SubSeq(l, k + 1, Len(l))[j] = l[k + j]
  BY <1>1
<1>4. SubSeq(l, k + 1, Len(l)) \in Seq(S)
  BY <1>1
<1> QED  BY <1>2, <1>3, <1>4

LEMMA WithoutRange ==
  ASSUME NEW S, NEW s \in Seq(S), NEW e  PROVE Range(Without(s, e)) \subseteq Range(s)
<1>1. CASE e \notin Range(s)
  BY <1>1 DEF Without
<1>2. CASE e \in Range(s)
  <2> DEFINE i == CHOOSE j \in 1..Len(s) : s[j] = e
             a == SubSeq(s, 1, i - 1)
             b == SubSeq(s, i + 1, Len(s))
  <2>1. i \in 1..Len(s)
    BY <1>2 DEF Range
  <2>2. Without(s, e) = a \o b
    BY <1>2 DEF Without
  <2> HIDE DEF i
  <2>3. a \in Seq(S) /\ Len(a) = i - 1 /\ \A j \in 1..(i - 1) : a[j] = s[j]
    BY <2>1
  <2>5. b \in Seq(S) /\ Len(b) = Len(s) - i /\ \A j \in 1..(Len(s) - i) : b[j] = s[i + j]
    BY <2>1, SubSeqAfter
  <2> HIDE DEF a, b
  <2>6. ASSUME NEW j \in DOMAIN (a \o b)  PROVE (a \o b)[j] \in Range(s)
    <3>0. Len(s) \in Nat /\ DOMAIN s = 1..Len(s) /\ j \in 1..(Len(s) - 1)
      BY <2>1, <2>3, <2>5
    <3>1. CASE j < i
      <4>1. (a \o b)[j] = s[j] /\ j \in DOMAIN s
        BY <2>1, <2>3, <2>5, <3>0, <3>1
      <4> QED  BY <4>1, RangeIs
    <3>2. CASE ~(j < i)
      <4>1. j - (i - 1) \in 1..(Len(s) - i) /\ (a \o b)[j] = b[j - (i - 1)]
        BY <2>1, <2>3, <2>5, <3>0, <3>2
      <4>2. b[j - (i - 1)] = s[i + (j - (i - 1))]
        BY <2>5, <4>1
      <4>3. i + (j - (i - 1)) \in DOMAIN s
        BY <2>1, <3>0, <4>1
      <4> QED  BY <4>1, <4>2, <4>3, RangeIs
    <3> QED  BY <3>1, <3>2
  <2> QED  BY <2>2, <2>6, RangeIs
<1> QED  BY <1>1, <1>2

LEMMA RememberRange ==
  ASSUME NEW s \in Seq(WriteId), NEW id \in WriteId
  PROVE  id \in Range(Remember(s, id)) /\ Range(Remember(s, id)) \subseteq Range(s) \cup {id}
<1>1. ASSUME NEW l \in Seq(WriteId)
      PROVE  /\ id \in Range(Append(l, id)) /\ Range(Append(l, id)) \subseteq Range(l) \cup {id}
  <2>1. /\ DOMAIN Append(l, id) = 1..(Len(l) + 1) /\ Append(l, id)[Len(l) + 1] = id
        /\ \A i \in 1..Len(l) : Append(l, id)[i] = l[i] /\ i \in DOMAIN l
        /\ Len(l) \in Nat
    OBVIOUS
  <2>2. Len(l) + 1 \in DOMAIN Append(l, id)
    BY <2>1
  <2>3. \A i \in DOMAIN Append(l, id) : i = Len(l) + 1 \/ i \in 1..Len(l)
    BY <2>1
  <2>4. \A i \in DOMAIN Append(l, id) : Append(l, id)[i] \in Range(l) \cup {id}
    BY <2>1, <2>3, RangeIs
  <2> QED  BY <2>1, <2>2, <2>4, RangeIs
<1>2. CASE id \in Range(s)
  BY <1>2 DEF Remember
<1>3. CASE id \notin Range(s) /\ Len(s) < MaxFinished
  BY <1>1, <1>3 DEF Remember
<1>4. CASE id \notin Range(s) /\ ~(Len(s) < MaxFinished)
  <2>1. s # <<>> /\ Tail(s) \in Seq(WriteId)
    BY <1>4, ConstantFacts
  <2>2. Range(Tail(s)) \subseteq Range(s)
    <3>1. \A i \in DOMAIN Tail(s) : i + 1 \in DOMAIN s /\ Tail(s)[i] = s[i + 1]
      BY <2>1
    <3> QED  BY <3>1, RangeIs
  <2>3. Remember(s, id) = Append(Tail(s), id)
    BY <1>4 DEF Remember
  <2> QED  BY <1>1, <2>1, <2>2, <2>3
<1> QED  BY <1>2, <1>3, <1>4

-----------------------------------------------------------------------------
(* Start and finish calls at replica p.                                     *)

Remembered(q) == Range(finishedWrites[q])

LEMMA MarkStartedIs ==
  ASSUME TypeInv, NEW p \in Replica, NEW id \in WriteId, MarkStarted(p, id)
  PROVE  /\ activeReaders[p] = 0 /\ UNCHANGED <<activeReaders, localWriteActive>>
         /\ \A q \in Replica : Remembered(q)' \subseteq Remembered(q)
         /\ \A q \in Replica \ {p} : remoteWriters'[q] = remoteWriters[q]
         /\ id \in Remembered(p) => remoteWriters'[p] = remoteWriters[p]
         /\ id \notin Remembered(p) =>
              finishedWrites' = finishedWrites /\ remoteWriters'[p] = remoteWriters[p] \cup {id[1]}
<1>0. /\ finishedWrites \in [Replica -> Seq(WriteId)]
      /\ remoteWriters \in [Replica -> SUBSET Replica]
  BY DEF TypeInv, GuardTypeOK
<1>1. activeReaders[p] = 0 /\ UNCHANGED <<activeReaders, localWriteActive>>
  BY DEF MarkStarted, MayMark
<1>2. CASE id \in Remembered(p)
  <2>1. /\ finishedWrites' = [finishedWrites EXCEPT ![p] = Without(finishedWrites[p], id)]
        /\ remoteWriters' = remoteWriters
    BY <1>2 DEF MarkStarted, Remembered
  <2>2. Range(Without(finishedWrites[p], id)) \subseteq Range(finishedWrites[p])
    BY <1>0, WithoutRange
  <2> QED  BY <1>0, <1>1, <1>2, <2>1, <2>2 DEF Remembered
<1>3. CASE id \notin Remembered(p)
  <2>1. /\ finishedWrites' = finishedWrites
        /\ remoteWriters' = [remoteWriters EXCEPT ![p] = remoteWriters[p] \cup {id[1]}]
    BY <1>3 DEF MarkStarted, Remembered
  <2> QED  BY <1>0, <1>1, <1>3, <2>1 DEF Remembered
<1> QED  BY <1>2, <1>3

LEMMA MarkFinishedIs ==
  ASSUME TypeInv, NEW p \in Replica, NEW id \in WriteId, MarkFinished(p, id)
  PROVE  /\ UNCHANGED <<activeReaders, localWriteActive>>
         /\ id \in Remembered(p)' /\ Remembered(p)' \subseteq Remembered(p) \cup {id}
         /\ \A q \in Replica \ {p} :
              remoteWriters'[q] = remoteWriters[q] /\ Remembered(q)' = Remembered(q)
         /\ remoteWriters'[p] = remoteWriters[p] \ {id[1]}
<1>0. /\ finishedWrites \in [Replica -> Seq(WriteId)]
      /\ remoteWriters \in [Replica -> SUBSET Replica]
  BY DEF TypeInv, GuardTypeOK
<1>1. /\ finishedWrites' = [finishedWrites EXCEPT ![p] = Remember(finishedWrites[p], id)]
      /\ remoteWriters' = [remoteWriters EXCEPT ![p] = remoteWriters[p] \ {id[1]}]
      /\ UNCHANGED <<activeReaders, localWriteActive>>
  BY DEF MarkFinished
<1>2. /\ id \in Range(Remember(finishedWrites[p], id))
      /\ Range(Remember(finishedWrites[p], id)) \subseteq Range(finishedWrites[p]) \cup {id}
  BY <1>0, RememberRange
<1> QED  BY <1>0, <1>1, <1>2 DEF Remembered

-----------------------------------------------------------------------------
(* The numbers of writes, and the steps that leave all marks alone.         *)

\* The last request of r
Rn(r) == requestNumbers[r][r]

Early == {"opened", "ask", "asked", "begin"}
Holding == {"start", "apply", "replicate"}
Marking == Holding \cup {"release"}
WriteLabel == Early \cup Marking \cup {"finish", "abort"}

\* A write has the last number of its replica, no call or memory is of a later one, and
\* only threads of /cache/write write.
Numbers ==
  /\ \A x \in Thread : seq[x] <= Rn(Home[x])
  /\ \A x \in Writer : seq[x] = Rn(Home[x])
  /\ \A c \in lateCalls : c.id[2] <= Rn(c.id[1])
  /\ \A q \in Replica : \A id \in Remembered(q) : id[2] <= Rn(id[1])
  /\ \A x \in Thread : pc[x] \in WriteLabel => x \in Writer

\* The write x serves is opened.
Opens(x) ==
  /\ pc[x] = "idle" /\ pc'[x] = "opened" /\ Rn(Home[x]) < MaxWrites
  /\ seq' = [seq EXCEPT ![x] = Rn(Home[x]) + 1]
  /\ \A r \in Replica : Rn(r)' = IF r = Home[x] THEN Rn(r) + 1 ELSE Rn(r)

\* finish_local_write
EndsWrite(x) == FinishWrite(x) \/ FinishWithoutToken(x)

\* Where a thread goes in a step that leaves all marks alone
QuietMove(x) ==
  \/ pc'[x] = pc[x] /\ peer'[x] = peer[x]
  \/ pc[x] \in Early /\ pc'[x] \in Early
  \/ pc[x] \notin Marking \cup {"finish", "sync"} /\ pc'[x] \notin Early \cup Marking
  \/ pc[x] = "finish" /\ EndsWrite(x) /\ pc'[x] \in {"check", "idle"}
  \/ pc[x] = "begin" /\ peer'[x] = FirstPeer(Home[x]) /\ pc'[x] = Stage(peer'[x], "start", "apply")
  \/ pc[x] \in {"apply", "replicate"} /\ pc'[x] = "replicate"
  \/ /\ pc[x] \in {"apply", "replicate"}
     /\ peer'[x] = LastPeer(Home[x]) /\ pc'[x] = Stage(peer'[x], "release", "finish")
  \/ pc[x] = "apply" /\ FirstPeer(Home[x]) = 0 /\ pc'[x] = "finish"
  \/ x \in Writer /\ Opens(x)

Labels(x) == pc'[x] \in WriteLabel => pc[x] \in WriteLabel \/ x \in Writer

Move(x) == QuietMove(x) /\ Labels(x)

SameNumbers == seq' = seq /\ \A r \in Replica : Rn(r)' = Rn(r)

SameCalls ==
  /\ \A c \in lateCalls' : c \in lateCalls \/ (c.kind = "request" /\ \E x \in Thread : c.id = Id(x))
  /\ \A c \in lateCalls : c \in lateCalls' \/ c.kind = "request"

Quiet ==
  /\ UNCHANGED markVars
  /\ SameCalls
  /\ \A x \in Thread : Move(x)
  /\ SameNumbers \/ \E x \in Writer : Opens(x)

LEMMA OneMoves ==
  ASSUME TypeInv, NEW x \in Thread, NEW l, Goto(x, l), QuietMove(x), Labels(x),
         \A z \in Thread \ {x} : peer'[z] = peer[z]
  PROVE  \A z \in Thread : Move(z)
BY DEF TypeInv, ThreadInv, ThreadTypeOK, Goto, Move, QuietMove, Labels

LEMMA StepMoves ==
  ASSUME TypeInv, NEW x \in Thread, NEW l, Goto(x, l), pc[x] \notin Marking \cup {"finish", "sync"},
         l \notin Early \cup Marking, l \in WriteLabel => x \in Writer, UNCHANGED peer
  PROVE  \A z \in Thread : Move(z)
<1>1. pc'[x] = l
  BY DEF TypeInv, ThreadInv, ThreadTypeOK, Goto
<1> QED  BY <1>1, OneMoves DEF QuietMove, Labels

LEMMA EndPassMoves ==
  ASSUME TypeInv, NEW x \in Thread, NEW ok \in BOOLEAN, EndPass(x, ok),
         pc[x] \notin WriteLabel \cup {"sync"}
  PROVE  \A z \in Thread : Move(z)
<1>0. pc \in [Thread -> Label] /\ peer \in [Thread -> 0..N]
  BY DEF TypeInv, ThreadInv, ThreadTypeOK
<1>1. CASE caller[x] = NoThread
  BY <1>1, StepMoves DEF EndPass, WriteLabel, Early, Marking, Holding
<1>2. CASE caller[x] # NoThread
  <2> DEFINE y == caller[x]
  <2>1. y \in Thread /\ pc[y] \in {"asked", "awaited"}
    BY <1>2 DEF TypeInv, ThreadInv, ThreadTypeOK, CallersWait
  <2>2. /\ pc' = [pc EXCEPT ![x] = "idle", ![y] = Replied(y, ok)]
        /\ \A z \in Thread \ {y} : peer'[z] = peer[z]
        /\ pc[y] # "asked" => peer' = peer
    BY <1>0, <1>2, <2>1 DEF EndPass
  <2>3. Replied(y, ok) \in IF pc[y] = "awaited" THEN {"clear", "unsent"} ELSE {"ask", "begin", "abort"}
    BY <2>1 DEF Replied, Stage
  <2>4. Move(y)
    <3>1. pc'[y] = Replied(y, ok)
      BY <1>0, <2>1, <2>2
    <3>2. CASE pc[y] = "awaited"
      BY <2>3, <3>1, <3>2 DEF Move, QuietMove, Labels, WriteLabel, Early, Marking, Holding
    <3>3. CASE pc[y] = "asked"
      BY <2>3, <3>1, <3>3 DEF Move, QuietMove, Labels, WriteLabel, Early, Marking, Holding
    <3> QED  BY <2>1, <3>2, <3>3
  <2>5. x # y => Move(x)
    <3>1. x # y => pc'[x] = "idle"
      BY <1>0, <2>1, <2>2
    <3> QED  BY <3>1 DEF Move, QuietMove, Labels, WriteLabel, Early, Marking, Holding
  <2>6. ASSUME NEW z \in Thread, z # x, z # y  PROVE Move(z)
    BY <1>0, <2>1, <2>2, <2>6 DEF Move, QuietMove, Labels
  <2> QED  BY <2>4, <2>5, <2>6
<1> QED  BY <1>1, <1>2

\* Noting a request that its replica has opened
LEMMA NoteKeeps ==
  ASSUME TypeInv, NEW p, NEW q \in Replica, NEW n \in Nat, NoteRequest(p, q, n), n <= Rn(q)
  PROVE  \A r \in Replica : Rn(r)' = Rn(r)
<1>1. requestNumbers \in [Replica -> [Replica -> Nat]]
  BY DEF TypeInv, LockTypeOK, Grants
<1>2. requestNumbers' = [requestNumbers EXCEPT ![p][q] = IF n > @ THEN n ELSE @]
  BY DEF NoteRequest
<1>3. ASSUME NEW r \in Replica  PROVE Rn(r)' = Rn(r)
  <2>1. CASE p = r /\ q = r
    BY <1>1, <1>2, <2>1 DEF Rn
  <2>2. CASE ~(p = r /\ q = r)
    BY <1>1, <1>2, <2>2 DEF Rn
  <2> QED  BY <2>1, <2>2
<1> QED  BY <1>3

LEMMA PassQuiet ==
  ASSUME TypeInv, NEW x \in Thread, Pass(x)
  PROVE  Quiet
<1> USE DEF WriteLabel, Early, Marking, Holding
<1>1. UNCHANGED <<markVars, lateCalls, seq, requestNumbers>>
  BY DEF Pass, PassCheck, NextNobody, NextRecipient, Export, ExportWithoutToken, MarkSent, Send,
     SendNothing, ClearPending, GiveUpSend, Step, EndPass, guardVars, lockVars, requestVars, netVars
<1>2. SameCalls /\ SameNumbers
  BY <1>1 DEF SameCalls, SameNumbers, Rn
<1>3. CASE PassCheck(x) \/ NextRecipient(x) \/ Export(x) \/ MarkSent(x) \/ Send(x)
  <2>1. PICK l \in {"next", "send", "export", "mark", "await"} :
          Goto(x, l) /\ UNCHANGED peer /\ pc[x] \notin WriteLabel \cup {"sync"}
    BY <1>3 DEF PassCheck, NextRecipient, Export, MarkSent, Send, Step
  <2>2. \A z \in Thread : Move(z)
    BY <2>1, StepMoves
  <2> QED  BY <1>1, <1>2, <2>2 DEF Quiet
<1>4. CASE \/ NextNobody(x) \/ ExportWithoutToken(x) \/ SendNothing(x)
           \/ ClearPending(x) \/ GiveUpSend(x)
  <2>1. (EndPass(x, TRUE) \/ EndPass(x, FALSE)) /\ pc[x] \notin WriteLabel \cup {"sync"}
    BY <1>4 DEF NextNobody, ExportWithoutToken, SendNothing, ClearPending, GiveUpSend
  <2>2. \A z \in Thread : Move(z)
    BY <2>1, EndPassMoves
  <2> QED  BY <1>1, <1>2, <2>2 DEF Quiet
<1> QED  BY <1>3, <1>4 DEF Pass

LEMMA WriteQuiet ==
  ASSUME TypeInv, NEW x \in Writer,
         \/ OpenWrite(x) \/ DecideBroadcast(x) \/ BeginWrite(x) \/ ApplyLocally(x)
         \/ ServeReplicate(x) \/ FinishWrite(x) \/ FinishWithoutToken(x) \/ AbortWrite(x)
  PROVE  Quiet
<1> USE DEF WriteLabel, Early, Marking, Holding
<1>0. /\ pc \in [Thread -> Label] /\ peer \in [Thread -> 0..N] /\ seq \in [Thread -> Nat]
      /\ requestNumbers \in [Replica -> [Replica -> Nat]]
      /\ x \in Thread /\ Home[x] \in Replica
  BY ConstantFacts DEF TypeInv, ThreadInv, ThreadTypeOK, LockTypeOK, Grants
<1>1. UNCHANGED <<markVars, lateCalls>>
  BY DEF OpenWrite, DecideBroadcast, BeginWrite, ApplyLocally, ServeReplicate, FinishWrite,
     FinishWithoutToken, AbortWrite, guardVars, netVars
<1>2. SameCalls
  BY <1>1 DEF SameCalls
<1>3. CASE OpenWrite(x)
  <2>1. Opens(x)
    BY <1>0, <1>3 DEF OpenWrite, Opens, Rn, Goto
  <2>2. QuietMove(x) /\ Labels(x) /\ Goto(x, "opened") /\ UNCHANGED peer
    BY <1>3, <2>1 DEF OpenWrite, QuietMove, Labels
  <2>3. \A z \in Thread : Move(z)
    BY <1>0, <2>2, OneMoves
  <2> QED  BY <1>1, <1>2, <2>1, <2>3 DEF Quiet
<1>4. ASSUME ~OpenWrite(x)  PROVE SameNumbers
  BY <1>4 DEF DecideBroadcast, BeginWrite, ApplyLocally, ServeReplicate, FinishWrite,
     FinishWithoutToken, AbortWrite, Advance, Step, lockVars, requestVars, SameNumbers, Rn
<1>5. CASE DecideBroadcast(x)
  <2> DEFINE q == IF hasToken[Home[x]] THEN 0 ELSE FirstPeer(Home[x])
  <2>1. pc[x] = "opened" /\ Goto(x, Stage(q, "ask", "begin")) /\ peer' = [peer EXCEPT ![x] = q]
    BY <1>5 DEF DecideBroadcast
  <2>2. Stage(q, "ask", "begin") \in Early
    BY DEF Stage
  <2>3. QuietMove(x) /\ Labels(x)
    BY <1>0, <2>1, <2>2 DEF Goto, QuietMove, Labels
  <2>4. \A z \in Thread : Move(z)
    BY <1>0, <2>1, <2>3, OneMoves
  <2> QED  BY <1>1, <1>2, <1>4, <1>5, <2>1, <2>4 DEF Quiet, OpenWrite
<1>6. CASE BeginWrite(x)
  <2> DEFINE q == FirstPeer(Home[x])
  <2>1. pc[x] = "begin" /\ Goto(x, Stage(q, "start", "apply")) /\ peer' = [peer EXCEPT ![x] = q]
    BY <1>6 DEF BeginWrite, MayBegin
  <2>2. peer'[x] = q /\ pc'[x] = Stage(q, "start", "apply")
    BY <1>0, <2>1 DEF Goto
  <2>3. QuietMove(x) /\ Labels(x)
    BY <2>1, <2>2 DEF QuietMove, Labels
  <2>4. \A z \in Thread : Move(z)
    BY <1>0, <2>1, <2>3, OneMoves
  <2> QED  BY <1>1, <1>2, <1>4, <1>6, <2>1, <2>4 DEF Quiet, OpenWrite
<1>7. CASE ApplyLocally(x)
  <2> DEFINE q == FirstPeer(Home[x])
  <2>1. pc[x] = "apply" /\ Goto(x, Stage(q, "replicate", "finish")) /\ peer' = [peer EXCEPT ![x] = q]
    BY <1>7 DEF ApplyLocally, Advance
  <2>2. pc'[x] = IF q = 0 THEN "finish" ELSE "replicate"
    BY <1>0, <2>1 DEF Goto, Stage
  <2>3. QuietMove(x) /\ Labels(x)
    BY <2>1, <2>2 DEF QuietMove, Labels
  <2>4. \A z \in Thread : Move(z)
    BY <1>0, <2>1, <2>3, OneMoves
  <2> QED  BY <1>1, <1>2, <1>4, <1>7, <2>1, <2>4 DEF Quiet, OpenWrite
<1>8. CASE ServeReplicate(x)
  <2> DEFINE q == NextPeer(Home[x], peer[x])
             p == IF q = 0 THEN LastPeer(Home[x]) ELSE q
             l == Stage(p, IF q = 0 THEN "release" ELSE "replicate", "finish")
  <2>1. pc[x] = "replicate" /\ Goto(x, l) /\ peer' = [peer EXCEPT ![x] = p]
    BY <1>8 DEF ServeReplicate, Advance
  <2>2. pc'[x] = l /\ peer'[x] = p
    BY <1>0, <2>1 DEF Goto
  <2>3. QuietMove(x) /\ Labels(x)
    BY <2>1, <2>2, <1>0 DEF QuietMove, Labels, Stage
  <2>4. \A z \in Thread : Move(z)
    BY <1>0, <2>1, <2>3, OneMoves
  <2> QED  BY <1>1, <1>2, <1>4, <1>8, <2>1, <2>4 DEF Quiet, OpenWrite
<1>9. CASE FinishWrite(x) \/ FinishWithoutToken(x) \/ AbortWrite(x)
  <2>1. PICK l \in {"check", "idle"} :
          /\ Goto(x, l) /\ UNCHANGED peer
          /\ pc[x] = "abort" \/ (pc[x] = "finish" /\ EndsWrite(x))
    BY <1>9 DEF FinishWrite, FinishWithoutToken, AbortWrite, Step, EndsWrite
  <2>2. pc'[x] = l
    BY <1>0, <2>1 DEF Goto
  <2>3. QuietMove(x) /\ Labels(x)
    BY <2>1, <2>2 DEF QuietMove, Labels
  <2>4. \A z \in Thread : Move(z)
    BY <1>0, <2>1, <2>3, OneMoves
  <2> QED  BY <1>1, <1>2, <1>4, <1>9, <2>1, <2>4 DEF Quiet, OpenWrite
<1> QED  BY <1>3, <1>5, <1>6, <1>7, <1>8, <1>9

LEMMA ServeQuiet ==
  ASSUME TypeInv, Numbers, NEW x \in Thread, NEW h \in Handler, Serve(x, h)
  PROVE  Quiet
<1> USE DEF WriteLabel, Early, Marking, Holding
<1>0. /\ pc \in [Thread -> Label] /\ peer \in [Thread -> 0..N] /\ seq \in [Thread -> Nat]
      /\ Home[x] \in Replica /\ h \in Thread
  BY ConstantFacts DEF TypeInv, ThreadInv, ThreadTypeOK
<1>1. UNCHANGED <<markVars, lateCalls, seq, peer>>
  BY DEF Serve, ServeRequest, ServeTransfer, guardVars, netVars
<1>2. \A r \in Replica : Rn(r)' = Rn(r)
  <2>1. CASE ServeRequest(x, h)
    <3>1. NoteRequest(peer[x], Home[x], seq[x]) /\ seq[x] <= Rn(Home[x])
      BY <2>1 DEF ServeRequest, Numbers
    <3> QED  BY <1>0, <3>1, NoteKeeps
  <2>2. CASE ServeTransfer(x, h)
    BY <2>2 DEF ServeTransfer, requestVars, Rn
  <2> QED  BY <2>1, <2>2 DEF Serve
<1>3. \A z \in Thread : Move(z)
  <2>1. /\ pc[h] = "idle"
        /\ \/ pc[x] = "ask" /\ pc' = [pc EXCEPT ![x] = "asked", ![h] = "check"]
           \/ pc[x] = "await" /\ pc' = [pc EXCEPT ![x] = "awaited", ![h] = "check"]
    BY DEF Serve, ServeRequest, ServeTransfer
  <2>2. x # h /\ pc'[h] = "check" /\ \A z \in Thread \ {x, h} : pc'[z] = pc[z]
    BY <1>0, <2>1
  <2>3. Move(h)
    BY <2>1, <2>2 DEF Move, QuietMove, Labels
  <2>4. Move(x)
    <3>1. \/ pc[x] = "ask" /\ pc'[x] = "asked"
          \/ pc[x] = "await" /\ pc'[x] = "awaited"
      BY <1>0, <2>1, <2>2
    <3> QED  BY <3>1 DEF Move, QuietMove, Labels
  <2> QED  BY <1>1, <2>2, <2>3, <2>4 DEF Move, QuietMove, Labels
<1> QED  BY <1>1, <1>2, <1>3 DEF Quiet, SameCalls, SameNumbers

LEMMA LateQuiet ==
  ASSUME TypeInv, Numbers, NEW h \in Handler,
         (\E c \in lateCalls : LateRequest(h, c)) \/ (\E m \in lateTransfers : LateTransfer(h, m))
  PROVE  Quiet
<1> USE DEF WriteLabel, Early, Marking, Holding
<1>0. h \in Thread
  BY ConstantFacts
<1>1. UNCHANGED <<markVars, seq, peer>> /\ Goto(h, "check") /\ pc[h] = "idle"
  BY DEF LateRequest, LateTransfer, guardVars
<1>2. \A z \in Thread : Move(z)
  BY <1>0, <1>1, StepMoves
<1>3. SameCalls /\ \A r \in Replica : Rn(r)' = Rn(r)
  <2>1. ASSUME NEW c \in lateCalls, LateRequest(h, c)
        PROVE  SameCalls /\ \A r \in Replica : Rn(r)' = Rn(r)
    <3>1. c.kind = "request" /\ lateCalls' = lateCalls \ {c} /\ NoteRequest(c.to, c.id[1], c.id[2])
      BY <2>1 DEF LateRequest
    <3>2. c.id[1] \in Replica /\ c.id[2] \in Nat /\ c.id[2] <= Rn(c.id[1])
      BY DEF TypeInv, NetTypeOK, Call, WriteId, Numbers
    <3> QED  BY <3>1, <3>2, NoteKeeps DEF SameCalls
  <2>2. ASSUME NEW m \in lateTransfers, LateTransfer(h, m)
        PROVE  SameCalls /\ \A r \in Replica : Rn(r)' = Rn(r)
    BY <2>2 DEF LateTransfer, SameCalls, requestVars, Rn
  <2> QED  BY <2>1, <2>2
<1> QED  BY <1>1, <1>2, <1>3 DEF Quiet, SameNumbers

LEMMA FailQuiet ==
  ASSUME TypeInv, Numbers, NEW x \in Thread, UNCHANGED lockVars,
         RequestFails(x) \/ ApplyFails(x) \/ TransferFails(x)
  PROVE  Quiet
<1> USE DEF WriteLabel, Early, Marking, Holding
<1>0. pc \in [Thread -> Label] /\ peer \in [Thread -> 0..N]
  BY DEF TypeInv, ThreadInv, ThreadTypeOK
<1>1. UNCHANGED <<markVars, seq>> /\ SameNumbers
  BY DEF RequestFails, ApplyFails, TransferFails, EndPass, Advance, guardVars, lockVars,
     requestVars, SameNumbers, Rn
<1>2. SameCalls
  <2>1. \/ lateCalls' = lateCalls
        \/ lateCalls' = lateCalls \cup {[kind |-> "request", id |-> Id(x), to |-> peer[x]]}
    BY DEF RequestFails, ApplyFails, TransferFails, LostOrLate
  <2> QED  BY <2>1 DEF SameCalls
<1>3. CASE RequestFails(x)
  <2>1. /\ pc[x] \in {"ask", "asked"} /\ Goto(x, "abort")
        /\ \A z \in Thread \ {x} : peer'[z] = peer[z]
    BY <1>0, <1>3 DEF RequestFails
  <2>2. QuietMove(x) /\ Labels(x)
    BY <1>0, <2>1 DEF Goto, QuietMove, Labels
  <2> QED  BY <1>1, <1>2, <2>1, <2>2, OneMoves DEF Quiet
<1>4. CASE ApplyFails(x)
  <2> DEFINE q == LastPeer(Home[x])
             l == Stage(q, "release", "finish")
  <2>1. /\ pc[x] \in {"apply", "replicate"} /\ Goto(x, l) /\ peer' = [peer EXCEPT ![x] = q]
    BY <1>4 DEF ApplyFails, Advance
  <2>2. pc'[x] = l /\ peer'[x] = q /\ l \in {"release", "finish"}
    BY <1>0, <2>1 DEF Goto, Stage
  <2>3. QuietMove(x) /\ Labels(x)
    BY <2>1, <2>2 DEF QuietMove, Labels
  <2>4. \A z \in Thread : Move(z)
    BY <1>0, <2>1, <2>3, OneMoves
  <2> QED  BY <1>1, <1>2, <2>4 DEF Quiet
<1>5. CASE TransferFails(x)
  <2>1. EndPass(x, TRUE) /\ pc[x] \notin WriteLabel \cup {"sync"}
    BY <1>5 DEF TransferFails
  <2>2. \A z \in Thread : Move(z)
    BY <2>1, EndPassMoves
  <2> QED  BY <1>1, <1>2, <2>2 DEF Quiet
<1> QED  BY <1>3, <1>4, <1>5

\* Every step leaves the marks alone or is one of eight: a start or finish call is
\* served, in time or late, or fails, or a sync begins or ends.
MarkStep ==
  \/ \E x \in Writer : ServeStart(x) \/ ServeFinish(x)
  \/ \E x \in Thread : (StartFails(x) \/ FinishFails(x)) /\ UNCHANGED lockVars
  \/ \E c \in lateCalls : LateStart(c) \/ LateFinish(c)
  \/ \E x \in Syncer : (\E source \in Replica : BeginSync(x, source)) \/ EndSync(x)

LEMMA MarkKinds == ASSUME TypeInv, Numbers, Next PROVE Quiet \/ MarkStep
<1>1. ASSUME Read  PROVE Quiet
  BY <1>1 DEF Read, AcquireRead, ReleaseRead, lockVars, requestVars, threadVars, netVars,
     Quiet, SameCalls, SameNumbers, Rn, Move, QuietMove, Labels, markVars
<1> QED
  BY <1>1, PassQuiet, WriteQuiet, ServeQuiet, LateQuiet, FailQuiet
  DEF Next, Write, Fail, Late, Sync, MarkStep

-----------------------------------------------------------------------------
(* What the eight steps do.                                                 *)

\* Nothing but a finish or start call at replica p, and the thread x
Only(x, l, q) ==
  /\ pc' = [pc EXCEPT ![x] = l] /\ peer' = [peer EXCEPT ![x] = q]
  /\ seq' = seq /\ requestNumbers' = requestNumbers

LEMMA IdType == ASSUME TypeInv, NEW x \in Thread  PROVE Id(x) \in WriteId
BY ConstantFacts DEF TypeInv, ThreadInv, ThreadTypeOK, Id, WriteId

LEMMA ServeStartIs ==
  ASSUME TypeInv, NEW x \in Writer, ServeStart(x)
  PROVE  LET q == NextPeer(Home[x], peer[x]) IN
         /\ pc[x] = "start" /\ peer[x] \in Replica /\ MarkStarted(peer[x], Id(x))
         /\ Only(x, Stage(q, "start", "apply"), q) /\ lateCalls' = lateCalls
BY ConstantFacts DEF ServeStart, Advance, Goto, lockVars, requestVars, netVars, Only, TypeInv,
   ThreadInv, PeersNamed

LEMMA ServeFinishIs ==
  ASSUME TypeInv, NEW x \in Writer, ServeFinish(x)
  PROVE  LET q == PrevPeer(Home[x], peer[x]) IN
         /\ pc[x] = "release" /\ peer[x] \in Replica /\ MarkFinished(peer[x], Id(x))
         /\ Only(x, Stage(q, "release", "finish"), q) /\ lateCalls' = lateCalls
BY ConstantFacts DEF ServeFinish, Advance, Goto, lockVars, requestVars, netVars, Only, TypeInv,
   ThreadInv, PeersNamed

LateCall(kind, x) == [kind |-> kind, id |-> Id(x), to |-> peer[x]]

LEMMA StartFailsIs ==
  ASSUME TypeInv, Numbers, NEW x \in Thread, StartFails(x), UNCHANGED lockVars
  PROVE  /\ x \in Writer /\ pc[x] = "start" /\ peer[x] \in Replica /\ UNCHANGED guardVars
         /\ Only(x, "release", peer[x])
         /\ (Lossy /\ lateCalls' = lateCalls) \/ lateCalls' = lateCalls \cup {LateCall("start", x)}
<1>1. peer' = [peer EXCEPT ![x] = peer[x]]
  BY DEF StartFails, TypeInv, ThreadInv, ThreadTypeOK
<1>2. x \in Writer /\ peer[x] \in Replica
  BY DEF StartFails, TypeInv, ThreadInv, PeersNamed, Numbers, WriteLabel, Marking, Holding
<1> QED  BY <1>1, <1>2 DEF StartFails, Goto, lockVars, requestVars, Only, LostOrLate, LateCall

LEMMA FinishFailsIs ==
  ASSUME TypeInv, Numbers, NEW x \in Thread, FinishFails(x), UNCHANGED lockVars
  PROVE  LET q == PrevPeer(Home[x], peer[x]) IN
         /\ x \in Writer /\ pc[x] = "release" /\ peer[x] \in Replica /\ UNCHANGED guardVars
         /\ Only(x, Stage(q, "release", "finish"), q)
         /\ (Lossy /\ lateCalls' = lateCalls) \/ lateCalls' = lateCalls \cup {LateCall("finish", x)}
<1>2. x \in Writer /\ peer[x] \in Replica
  BY DEF FinishFails, TypeInv, ThreadInv, PeersNamed, Numbers, WriteLabel, Marking, Holding
<1> QED  BY <1>2 DEF FinishFails, Advance, Goto, lockVars, requestVars, Only, LostOrLate, LateCall

LEMMA LateIs ==
  ASSUME TypeInv, NEW c \in lateCalls, LateStart(c) \/ LateFinish(c)
  PROVE  /\ c.to \in Replica /\ c.id \in WriteId /\ lateCalls' = lateCalls \ {c}
         /\ UNCHANGED <<pc, peer, seq, requestNumbers>>
         /\ \/ c.kind = "start" /\ MarkStarted(c.to, c.id)
            \/ c.kind = "finish" /\ MarkFinished(c.to, c.id)
<1>1. c.to \in Replica /\ c.id \in WriteId
  BY DEF TypeInv, NetTypeOK, Call
<1> QED  BY <1>1 DEF LateStart, LateFinish, threadVars, lockVars, requestVars

LEMMA SyncIs ==
  ASSUME TypeInv, NEW s \in Syncer, NEW o \in Replica, BeginSync(s, o) \/ EndSync(s)
  PROVE  LET r == Home[s] IN
         /\ s \in Thread /\ r \in Replica
         /\ UNCHANGED <<seq, requestNumbers, lateCalls, finishedWrites, activeReaders, localWriteActive>>
         /\ \A q \in Replica \ {r} : remoteWriters'[q] = remoteWriters[q]
         /\ \/ /\ pc[s] = "idle" /\ activeReaders[r] = 0 /\ remoteWriters[r] = {}
               /\ remoteWriters'[r] = {o} /\ Only(s, "sync", o)
            \/ /\ pc[s] = "sync" /\ remoteWriters'[r] = remoteWriters[r] \ {peer[s]}
               /\ Only(s, "idle", 0)
<1>1. s \in Thread /\ Home[s] \in Replica /\ remoteWriters \in [Replica -> SUBSET Replica]
  BY ConstantFacts DEF TypeInv, GuardTypeOK
<1>2. CASE BeginSync(s, o)
  BY <1>1, <1>2 DEF BeginSync, Goto, lockVars, requestVars, netVars, Only
<1>3. CASE EndSync(s)
  BY <1>1, <1>3 DEF EndSync, Goto, lockVars, requestVars, netVars, Only
<1> QED  BY <1>2, <1>3

-----------------------------------------------------------------------------
(* Numbers are kept.                                                        *)

LEMMA NumbersQuiet == ASSUME SingleWriter, TypeInv, Numbers, Quiet PROVE Numbers'
<1>1. /\ \A r \in Replica : Rn(r) \in Nat
      /\ Home \in [Thread -> Replica] /\ seq \in [Thread -> Nat] /\ Writer \subseteq Thread
  BY ConstantFacts DEF TypeInv, LockTypeOK, Grants, ThreadInv, ThreadTypeOK, Rn
<1>2. \A r \in Replica : Rn(r)' >= Rn(r) /\ Rn(r)' \in Nat
  BY <1>1 DEF Quiet, SameNumbers, Opens
<1>3. /\ \A x \in Thread : seq'[x] <= Rn(Home[x])'
      /\ \A x \in Writer : seq'[x] = Rn(Home[x])'
  <2>1. CASE SameNumbers
    BY <1>1, <1>2, <2>1 DEF SameNumbers, Numbers
  <2>2. ASSUME NEW y \in Writer, Opens(y)
        PROVE  /\ \A x \in Thread : seq'[x] <= Rn(Home[x])'
               /\ \A x \in Writer : seq'[x] = Rn(Home[x])'
    <3>1. seq'[y] = Rn(Home[y])' /\ y \in Thread
      BY <1>1, <1>2, <2>2 DEF Opens
    <3>2. ASSUME NEW x \in Thread, x # y
          PROVE  seq'[x] <= Rn(Home[x])' /\ (x \in Writer => seq'[x] = Rn(Home[x])')
      <4>1. seq'[x] = seq[x] /\ seq[x] <= Rn(Home[x])
        BY <1>1, <1>2, <2>2, <3>2 DEF Opens, Numbers
      <4>2. x \in Writer => Home[x] # Home[y] /\ seq[x] = Rn(Home[x])
        BY <3>2 DEF SingleWriter, Numbers
      <4> QED  BY <1>1, <1>2, <2>2, <4>1, <4>2 DEF Opens
    <3> QED  BY <1>1, <1>2, <3>1, <3>2
  <2> QED  BY <2>1, <2>2 DEF Quiet
<1>4. ASSUME NEW c \in lateCalls'  PROVE c.id[2] <= Rn(c.id[1])'
  <2>1. CASE c \in lateCalls
    <3>1. c.id[1] \in Replica /\ c.id[2] \in Nat /\ c.id[2] <= Rn(c.id[1])
      BY <2>1 DEF TypeInv, NetTypeOK, Call, WriteId, Numbers
    <3> QED  BY <1>1, <1>2, <3>1
  <2>2. ASSUME NEW x \in Thread, c.id = Id(x)  PROVE c.id[2] <= Rn(c.id[1])'
    <3>1. c.id[1] = Home[x] /\ c.id[2] = seq[x] /\ Home[x] \in Replica /\ seq[x] \in Nat
      BY <1>1, <1>2, <2>2 DEF Id
    <3>2. seq[x] <= Rn(Home[x])
      BY DEF Numbers
    <3> QED  BY <1>1, <1>2, <3>1, <3>2
  <2> QED  BY <2>1, <2>2 DEF Quiet, SameCalls
<1>5. ASSUME NEW q \in Replica, NEW id \in Remembered(q)'  PROVE id[2] <= Rn(id[1])'
  <2>1. id \in Remembered(q) /\ Remembered(q) \subseteq WriteId
    BY DEF Quiet, markVars, Remembered, TypeInv, GuardTypeOK, Range
  <2>2. id[1] \in Replica /\ id[2] \in Nat /\ id[2] <= Rn(id[1])
    BY <2>1 DEF WriteId, Numbers
  <2> QED  BY <1>1, <1>2, <2>2
<1>6. \A x \in Thread : pc'[x] \in WriteLabel => x \in Writer
  BY DEF Quiet, Move, Labels, Numbers
<1> QED  BY <1>3, <1>4, <1>5, <1>6 DEF Numbers

\* A step that opens no write
LEMMA NumbersSame ==
  ASSUME Numbers, TypeInv, UNCHANGED <<seq, requestNumbers>>,
         \A c \in lateCalls' : c \in lateCalls \/ \E x \in Thread : c.id = Id(x),
         \A q \in Replica : \A id \in Remembered(q)' :
           \/ id \in Remembered(q) \/ \E x \in Thread : id = Id(x)
           \/ \E c \in lateCalls : id = c.id,
         \A x \in Thread : pc'[x] \in WriteLabel => x \in Writer
  PROVE  Numbers'
<1>1. \A r : Rn(r)' = Rn(r)
  BY DEF Rn
<1>2. \A x \in Thread : Id(x)[2] <= Rn(Id(x)[1])
  BY DEF Numbers, Id
<1>3. \A x \in Thread : seq'[x] <= Rn(Home[x])'
  BY <1>1 DEF Numbers
<1>4. \A x \in Writer : seq'[x] = Rn(Home[x])'
  BY <1>1 DEF Numbers
<1>5. \A c \in lateCalls' : c.id[2] <= Rn(c.id[1])'
  BY <1>1, <1>2 DEF Numbers
<1>6. \A q \in Replica : \A id \in Remembered(q)' : id[2] <= Rn(id[1])'
  BY <1>1, <1>2 DEF Numbers
<1> QED  BY <1>3, <1>4, <1>5, <1>6 DEF Numbers

LEMMA NumbersMark == ASSUME TypeInv, Numbers, MarkStep PROVE Numbers'
<1> USE DEF Only, WriteLabel, Early, Marking, Holding
<1>0. pc \in [Thread -> Label] /\ Writer \subseteq Thread
  BY ConstantFacts DEF TypeInv, ThreadInv, ThreadTypeOK
<1>1. ASSUME NEW x \in Writer, ServeStart(x)  PROVE Numbers'
  <2>1. /\ UNCHANGED <<seq, requestNumbers, lateCalls>>
        /\ \A q \in Replica : Remembered(q)' \subseteq Remembered(q)
        /\ \A z \in Thread \ {x} : pc'[z] = pc[z]
    BY <1>0, <1>1, ServeStartIs, MarkStartedIs, IdType
  <2> QED  BY <1>1, <2>1, NumbersSame DEF Numbers
<1>2. ASSUME NEW x \in Writer, ServeFinish(x)  PROVE Numbers'
  <2>1. peer[x] \in Replica /\ MarkFinished(peer[x], Id(x)) /\ Id(x) \in WriteId /\ x \in Thread
    BY <1>0, <1>2, ServeFinishIs, IdType
  <2>2. \A q \in Replica : Remembered(q)' \subseteq Remembered(q) \cup {Id(x)}
    BY <2>1, MarkFinishedIs
  <2>3. /\ UNCHANGED <<seq, requestNumbers, lateCalls>>
        /\ \A z \in Thread \ {x} : pc'[z] = pc[z]
    BY <1>0, <1>2, ServeFinishIs
  <2> QED  BY <1>2, <2>1, <2>2, <2>3, NumbersSame DEF Numbers
<1>3. ASSUME NEW x \in Thread, StartFails(x) \/ FinishFails(x), UNCHANGED lockVars  PROVE Numbers'
  <2>1. /\ x \in Writer /\ UNCHANGED <<seq, requestNumbers>> /\ UNCHANGED finishedWrites
        /\ \A z \in Thread \ {x} : pc'[z] = pc[z]
    BY <1>0, <1>3, StartFailsIs, FinishFailsIs DEF guardVars, markVars
  <2>2. \A c \in lateCalls' : c \in lateCalls \/ c.id = Id(x)
    BY <1>3, StartFailsIs, FinishFailsIs DEF LateCall
  <2>3. \A q \in Replica : Remembered(q)' = Remembered(q)
    BY <2>1 DEF Remembered
  <2>4. \A z \in Thread : pc'[z] \in WriteLabel => z \in Writer
    BY <2>1 DEF Numbers
  <2>5. \A c \in lateCalls' : c \in lateCalls \/ \E z \in Thread : c.id = Id(z)
    BY <2>2
  <2> QED  BY <2>1, <2>3, <2>4, <2>5, NumbersSame
<1>4. ASSUME NEW c \in lateCalls, LateStart(c) \/ LateFinish(c)  PROVE Numbers'
  <2>1. \A q \in Replica : Remembered(q)' \subseteq Remembered(q) \cup {c.id}
    BY <1>4, LateIs, MarkStartedIs, MarkFinishedIs
  <2>2. UNCHANGED <<pc, seq, requestNumbers>> /\ lateCalls' = lateCalls \ {c}
    BY <1>4, LateIs
  <2> QED  BY <2>1, <2>2, NumbersSame DEF Numbers
<1>5. ASSUME NEW s \in Syncer, (\E source \in Replica : BeginSync(s, source)) \/ EndSync(s)
      PROVE  Numbers'
  <2>1. PICK o \in Replica : BeginSync(s, o) \/ EndSync(s)
    BY <1>5, ConstantFacts
  <2>2. /\ UNCHANGED <<seq, requestNumbers, lateCalls, finishedWrites>> /\ s \in Thread
        /\ pc' = [pc EXCEPT ![s] = "sync"] \/ pc' = [pc EXCEPT ![s] = "idle"]
    BY <2>1, SyncIs
  <2>3. \A z \in Thread : pc'[z] \in WriteLabel => z \in Writer
    BY <1>0, <2>2 DEF Numbers
  <2>4. \A q \in Replica : Remembered(q)' = Remembered(q)
    BY <2>2 DEF Remembered
  <2> QED  BY <2>2, <2>3, <2>4, NumbersSame
<1> QED  BY <1>1, <1>2, <1>3, <1>4, <1>5 DEF MarkStep

-----------------------------------------------------------------------------
(* A write is not finished before it releases its marks.                    *)

\* Nobody remembers, or is on the way to report, the end of a write that is not ended.
Unfinished ==
  \A x \in Writer : pc[x] \in Early \cup Holding =>
    /\ \A q \in Replica : Id(x) \notin Remembered(q)
    /\ \A c \in lateCalls : c.kind = "finish" => c.id # Id(x)

LEMMA UnfinishedQuiet == ASSUME TypeInv, Numbers, Unfinished, Quiet PROVE Unfinished'
<1> USE DEF WriteLabel, Early, Marking, Holding
<1>0. /\ \A r \in Replica : Rn(r) \in Nat
      /\ Home \in [Thread -> Replica] /\ seq \in [Thread -> Nat] /\ Writer \subseteq Thread
  BY ConstantFacts DEF TypeInv, LockTypeOK, Grants, ThreadInv, ThreadTypeOK, Rn
<1> SUFFICES ASSUME NEW x \in Writer, pc'[x] \in Early \cup Holding
             PROVE  /\ \A q \in Replica : Id(x)' \notin Remembered(q)'
                    /\ \A c \in lateCalls' : c.kind = "finish" => c.id # Id(x)'
  BY DEF Unfinished
<1>1. /\ \A q \in Replica : Remembered(q)' = Remembered(q)
      /\ \A c \in lateCalls' : c.kind = "finish" => c \in lateCalls
  BY DEF Quiet, markVars, SameCalls, Remembered
<1>2. CASE Opens(x)
  <2>1. Id(x)' = <<Home[x], Rn(Home[x]) + 1>>
    BY <1>0, <1>2 DEF Opens, Id
  <2>2. ASSUME NEW id, id[2] <= Rn(id[1])  PROVE id # Id(x)'
    BY <1>0, <2>1, <2>2
  <2>3. \A q \in Replica : \A id \in Remembered(q) : id # Id(x)'
    BY <2>2 DEF Numbers
  <2>4. \A c \in lateCalls : c.id # Id(x)'
    BY <2>2 DEF Numbers
  <2> QED  BY <1>1, <2>3, <2>4
<1>3. CASE ~Opens(x)
  <2>1. seq'[x] = seq[x]
    <3>1. CASE SameNumbers
      BY <3>1 DEF SameNumbers
    <3>2. ASSUME NEW y \in Writer, Opens(y)  PROVE seq'[x] = seq[x]
      BY <1>0, <1>3, <3>2 DEF Opens
    <3> QED  BY <3>1, <3>2 DEF Quiet
  <2>2. pc[x] \in Early \cup Holding
    <3>1. QuietMove(x)
      BY <1>0 DEF Quiet, Move
    <3> QED  BY <1>3, <3>1 DEF QuietMove, Stage
  <2>3. Id(x)' = Id(x)
    BY <2>1 DEF Id
  <2> QED  BY <1>1, <2>2, <2>3 DEF Unfinished
<1> QED  BY <1>2, <1>3

\* The write of x releases its marks or has released them.
LEMMA OtherIds ==
  ASSUME SingleWriter, NEW x \in Writer, NEW y \in Writer, x # y
  PROVE  Home[x] # Home[y] /\ Id(x) # Id(y)
BY DEF SingleWriter, Id

\* No write is before its release that was not so before, and each keeps its id.
LEMMA UnfinishedSame ==
  ASSUME TypeInv, Unfinished, UNCHANGED seq,
         \A x \in Writer : pc'[x] \in Early \cup Holding => pc[x] \in Early \cup Holding,
         \A x \in Writer : pc'[x] \in Early \cup Holding =>
           /\ \A q \in Replica : \A id \in Remembered(q)' : id \in Remembered(q) \/ id # Id(x)
           /\ \A c \in lateCalls' : c \in lateCalls \/ (c.kind = "finish" => c.id # Id(x))
  PROVE  Unfinished'
<1>1. \A x : Id(x)' = Id(x)
  BY DEF Id
<1> QED  BY <1>1 DEF Unfinished

LEMMA UnfinishedMark ==
  ASSUME SingleWriter, TypeInv, Numbers, Unfinished, MarkStep PROVE Unfinished'
<1> USE DEF Only, WriteLabel, Early, Marking, Holding
<1>0. pc \in [Thread -> Label] /\ Writer \subseteq Thread
  BY ConstantFacts DEF TypeInv, ThreadInv, ThreadTypeOK
<1>1. ASSUME NEW x \in Writer, ServeStart(x)  PROVE Unfinished'
  <2>1. /\ UNCHANGED <<seq, lateCalls>> /\ pc[x] = "start"
        /\ \A q \in Replica : Remembered(q)' \subseteq Remembered(q)
        /\ \A z \in Thread \ {x} : pc'[z] = pc[z]
    BY <1>0, <1>1, ServeStartIs, MarkStartedIs, IdType
  <2> QED  BY <1>0, <2>1, UnfinishedSame
<1>2. ASSUME NEW y \in Writer, ServeFinish(y)  PROVE Unfinished'
  <2>1. peer[y] \in Replica /\ MarkFinished(peer[y], Id(y)) /\ Id(y) \in WriteId
    BY <1>0, <1>2, ServeFinishIs, IdType
  <2>2. \A q \in Replica : Remembered(q)' \subseteq Remembered(q) \cup {Id(y)}
    BY <2>1, MarkFinishedIs
  <2>3. /\ UNCHANGED <<seq, lateCalls>> /\ pc'[y] \in {"release", "finish"}
        /\ \A z \in Thread \ {y} : pc'[z] = pc[z]
    BY <1>0, <1>2, ServeFinishIs DEF Stage
  <2>4. \A z \in Writer : z # y => Id(z) # Id(y)
    BY OtherIds
  <2> QED  BY <1>0, <2>2, <2>3, <2>4, UnfinishedSame
<1>3. ASSUME NEW y \in Thread, StartFails(y), UNCHANGED lockVars  PROVE Unfinished'
  <2>1. /\ y \in Writer /\ UNCHANGED <<seq, finishedWrites>> /\ pc'[y] = "release"
        /\ \A z \in Thread \ {y} : pc'[z] = pc[z]
        /\ \A c \in lateCalls' : c \in lateCalls \/ c.kind = "start"
    BY <1>0, <1>3, StartFailsIs DEF guardVars, markVars, LateCall
  <2>2. \A q \in Replica : Remembered(q)' = Remembered(q)
    BY <2>1 DEF Remembered
  <2> QED  BY <1>0, <2>1, <2>2, UnfinishedSame
<1>4. ASSUME NEW y \in Thread, FinishFails(y), UNCHANGED lockVars  PROVE Unfinished'
  <2>1. /\ y \in Writer /\ UNCHANGED <<seq, finishedWrites>> /\ pc'[y] \in {"release", "finish"}
        /\ \A z \in Thread \ {y} : pc'[z] = pc[z]
        /\ \A c \in lateCalls' : c \in lateCalls \/ c.id = Id(y)
    BY <1>0, <1>4, FinishFailsIs DEF guardVars, markVars, LateCall, Stage
  <2>2. \A q \in Replica : Remembered(q)' = Remembered(q)
    BY <2>1 DEF Remembered
  <2>3. \A z \in Writer : z # y => Id(z) # Id(y)
    BY <2>1, OtherIds
  <2> QED  BY <1>0, <2>1, <2>2, <2>3, UnfinishedSame
<1>5. ASSUME NEW c \in lateCalls, LateStart(c) \/ LateFinish(c)  PROVE Unfinished'
  <2>1. UNCHANGED <<pc, seq>> /\ lateCalls' = lateCalls \ {c}
    BY <1>5, LateIs
  <2>2. \A q \in Replica :
          \/ Remembered(q)' \subseteq Remembered(q)
          \/ c.kind = "finish" /\ Remembered(q)' \subseteq Remembered(q) \cup {c.id}
    BY <1>5, LateIs, MarkStartedIs, MarkFinishedIs
  <2>3. \A x \in Writer : pc'[x] \in Early \cup Holding =>
          \A q \in Replica : \A id \in Remembered(q)' : id \in Remembered(q) \/ id # Id(x)
    BY <2>1, <2>2 DEF Unfinished
  <2> QED  BY <2>1, <2>3, UnfinishedSame
<1>6. ASSUME NEW s \in Syncer, (\E source \in Replica : BeginSync(s, source)) \/ EndSync(s)
      PROVE  Unfinished'
  <2>1. PICK o \in Replica : BeginSync(s, o) \/ EndSync(s)
    BY <1>6, ConstantFacts
  <2>2. /\ UNCHANGED <<seq, lateCalls, finishedWrites>> /\ s \in Thread
        /\ pc' = [pc EXCEPT ![s] = "sync"] \/ pc' = [pc EXCEPT ![s] = "idle"]
    BY <2>1, SyncIs
  <2>3. \A z \in Writer : pc'[z] \in Early \cup Holding => pc[z] \in Early \cup Holding
    BY <1>0, <2>2
  <2>4. \A q \in Replica : Remembered(q)' = Remembered(q)
    BY <2>2 DEF Remembered
  <2> QED  BY <2>2, <2>3, <2>4, UnfinishedSame
<1> QED  BY <1>1, <1>2, <1>3, <1>4, <1>5, <1>6 DEF MarkStep

-----------------------------------------------------------------------------
(* Nobody reads at a replica with a mark.                                   *)

MarksRead == \A q \in Replica : remoteWriters[q] # {} => activeReaders[q] = 0

\* What a step of MarkStep does to the marks of a replica
LEMMA MarksOf ==
  ASSUME TypeInv, Numbers, MarkStep, NEW q \in Replica
  PROVE  remoteWriters'[q] \subseteq remoteWriters[q] \/ activeReaders[q] = 0
<1>1. ASSUME NEW x \in Writer, ServeStart(x) \/ ServeFinish(x)
      PROVE  remoteWriters'[q] \subseteq remoteWriters[q] \/ activeReaders[q] = 0
  <2>1. x \in Thread /\ Id(x) \in WriteId
    BY IdType, ConstantFacts
  <2> QED
    BY <1>1, <2>1, ServeStartIs, ServeFinishIs, MarkStartedIs, MarkFinishedIs
<1>2. ASSUME NEW x \in Thread, StartFails(x) \/ FinishFails(x), UNCHANGED lockVars
      PROVE  remoteWriters'[q] \subseteq remoteWriters[q]
  BY <1>2, StartFailsIs, FinishFailsIs DEF guardVars, markVars
<1>3. ASSUME NEW c \in lateCalls, LateStart(c) \/ LateFinish(c)
      PROVE  remoteWriters'[q] \subseteq remoteWriters[q] \/ activeReaders[q] = 0
  BY <1>3, LateIs, MarkStartedIs, MarkFinishedIs
<1>4. ASSUME NEW s \in Syncer, NEW o \in Replica, BeginSync(s, o) \/ EndSync(s)
      PROVE  remoteWriters'[q] \subseteq remoteWriters[q] \/ activeReaders[q] = 0
  BY <1>4, SyncIs
<1> QED  BY <1>1, <1>2, <1>3, <1>4, ConstantFacts DEF MarkStep

LEMMA MarksReadKept ==
  ASSUME TypeInv, Numbers, MarksRead, Next  PROVE MarksRead'
<1>0. activeReaders \in [Replica -> Nat]
  BY DEF TypeInv, GuardTypeOK
<1>1. ASSUME NEW r \in Replica, AcquireRead(r) \/ ReleaseRead(r)  PROVE MarksRead'
  BY <1>0, <1>1 DEF AcquireRead, MayRead, ReleaseRead, MarksRead, markVars
<1>2. CASE ~Read
  <2>1. UNCHANGED activeReaders
    BY <1>2, ReadersSame
  <2>2. \A q \in Replica : remoteWriters'[q] \subseteq remoteWriters[q] \/ activeReaders[q] = 0
    BY MarkKinds, MarksOf DEF Quiet, markVars
  <2> QED  BY <2>1, <2>2 DEF MarksRead
<1> QED  BY <1>1, <1>2 DEF Read

-----------------------------------------------------------------------------
(* A write has placed its marks when it applies its entry.                  *)

\* Replica q has acknowledged the start of x's write.
Acknowledged(x, q) ==
  \/ pc[x] = "start" /\ q < peer[x]
  \/ pc[x] \in {"apply", "replicate"}

Marked ==
  \A x \in Writer : \A q \in Replica \ {Home[x]} :
    Acknowledged(x, q) => Home[x] \in remoteWriters[q]

\* While a write places and holds its marks, no call that reports the end of an earlier
\* write of its replica arrives late, and no sync from its replica ends.
MarksUndisturbed ==
  \A x \in Writer : pc[x] \in Holding =>
    /\ \A c \in lateCalls \ lateCalls' : c.kind = "finish" => c.id[1] # Home[x]
    /\ \A s \in Syncer : pc[s] = "sync" /\ pc'[s] # "sync" => peer[s] # Home[x]

LEMMA MarksStay ==
  ASSUME SingleWriter, TypeInv, Numbers, MarkStep, MarksUndisturbed,
         NEW x \in Writer, pc[x] \in Holding,
         NEW q \in Replica, Home[x] \in remoteWriters[q]
  PROVE  Home[x] \in remoteWriters'[q]
<1> USE DEF Holding
<1>0. pc \in [Thread -> Label] /\ Writer \subseteq Thread /\ Syncer \subseteq Thread
  BY ConstantFacts DEF TypeInv, ThreadInv, ThreadTypeOK
<1>1. ASSUME NEW y \in Writer, ServeStart(y)  PROVE Home[x] \in remoteWriters'[q]
  BY <1>0, <1>1, ServeStartIs, MarkStartedIs, IdType
<1>2. ASSUME NEW y \in Writer, ServeFinish(y)  PROVE Home[x] \in remoteWriters'[q]
  <2>1. peer[y] \in Replica /\ MarkFinished(peer[y], Id(y)) /\ Id(y) \in WriteId /\ pc[y] = "release"
    BY <1>0, <1>2, ServeFinishIs, IdType
  <2>2. remoteWriters'[q] = remoteWriters[q] \/ remoteWriters'[q] = remoteWriters[q] \ {Id(y)[1]}
    BY <2>1, MarkFinishedIs
  <2>3. Id(y)[1] # Home[x]
    BY <2>1 DEF SingleWriter, Id
  <2> QED  BY <2>2, <2>3
<1>3. ASSUME NEW y \in Thread, StartFails(y) \/ FinishFails(y), UNCHANGED lockVars
      PROVE  Home[x] \in remoteWriters'[q]
  BY <1>3, StartFailsIs, FinishFailsIs DEF guardVars, markVars
<1>4. ASSUME NEW c \in lateCalls, LateStart(c) \/ LateFinish(c)
      PROVE  Home[x] \in remoteWriters'[q]
  <2>1. c \in lateCalls \ lateCalls' /\ c.to \in Replica /\ c.id \in WriteId
    BY <1>4, LateIs
  <2>2. CASE c.kind = "start" /\ MarkStarted(c.to, c.id)
    BY <2>1, <2>2, MarkStartedIs
  <2>3. CASE c.kind = "finish" /\ MarkFinished(c.to, c.id)
    <3>1. c.id[1] # Home[x]
      BY <2>1, <2>3 DEF MarksUndisturbed
    <3>2. remoteWriters'[q] = remoteWriters[q] \/ remoteWriters'[q] = remoteWriters[q] \ {c.id[1]}
      BY <2>1, <2>3, MarkFinishedIs
    <3> QED  BY <3>1, <3>2
  <2> QED  BY <1>4, <2>2, <2>3, LateIs
<1>5. ASSUME NEW s \in Syncer, NEW o \in Replica, BeginSync(s, o) \/ EndSync(s)
      PROVE  Home[x] \in remoteWriters'[q]
  <2>1. CASE q # Home[s]
    BY <1>5, <2>1, SyncIs
  <2>2. CASE /\ q = Home[s] /\ pc[s] = "sync" /\ remoteWriters'[q] = remoteWriters[q] \ {peer[s]}
             /\ Only(s, "idle", 0)
    <3>1. pc'[s] # "sync"
      BY <1>0, <2>2 DEF Only
    <3>2. peer[s] # Home[x]
      BY <2>2, <3>1 DEF MarksUndisturbed
    <3> QED  BY <2>2, <3>2
  <2> QED  BY <1>5, <2>1, <2>2, SyncIs
<1> QED  BY <1>1, <1>2, <1>3, <1>4, <1>5, ConstantFacts DEF MarkStep

\* A replica acknowledges the start of a write in ServeStart only, and is marked then.
LEMMA AcknowledgedIs ==
  ASSUME SingleWriter, TypeInv, Numbers, Unfinished, MarkStep, NEW x \in Writer,
         NEW q \in Replica \ {Home[x]}, Acknowledged(x, q)'
  PROVE  Acknowledged(x, q) \/ Home[x] \in remoteWriters'[q]
<1> USE DEF Acknowledged
<1>0. /\ pc \in [Thread -> Label] /\ peer \in [Thread -> 0..N] /\ Writer \subseteq Thread
      /\ x \in Thread /\ Home[x] \in Replica /\ N \in Nat /\ q \in 1..N /\ Replica = 1..N
  BY ConstantFacts DEF TypeInv, ThreadInv, ThreadTypeOK, Replica
<1>1. ASSUME NEW y \in Writer, ServeStart(y)
      PROVE  Acknowledged(x, q) \/ Home[x] \in remoteWriters'[q]
  <2> DEFINE p == peer[y]
             n == NextPeer(Home[y], p)
  <2>1. /\ pc[y] = "start" /\ p \in Replica /\ MarkStarted(p, Id(y)) /\ Id(y) \in WriteId
        /\ pc' = [pc EXCEPT ![y] = Stage(n, "start", "apply")] /\ peer' = [peer EXCEPT ![y] = n]
    BY <1>0, <1>1, ServeStartIs, IdType DEF Only
  <2>2. CASE x # y
    BY <1>0, <2>1, <2>2
  <2>3. CASE x = y
    <3>1. q <= p
      <4>1. n = 0 \/ q < n
        BY <1>0, <2>1, <2>3 DEF Stage
      <4> QED  BY <1>0, <2>1, <2>3, <4>1 DEF NextPeer
    <3>2. CASE q < p
      BY <2>1, <2>3, <3>2
    <3>3. CASE q = p
      <4>1. Id(x) \notin Remembered(p)
        BY <2>1, <2>3 DEF Unfinished, Holding
      <4>2. remoteWriters'[p] = remoteWriters[p] \cup {Id(x)[1]}
        BY <2>1, <2>3, <4>1, MarkStartedIs
      <4> QED  BY <3>3, <4>2 DEF Id
    <3> QED  BY <1>0, <2>1, <3>1, <3>2, <3>3
  <2> QED  BY <2>2, <2>3
<1>2. ASSUME NEW y \in Writer, ServeFinish(y)  PROVE Acknowledged(x, q)
  BY <1>0, <1>2, ServeFinishIs DEF Only, Stage
<1>3. ASSUME NEW y \in Thread, StartFails(y) \/ FinishFails(y), UNCHANGED lockVars
      PROVE  Acknowledged(x, q)
  BY <1>0, <1>3, StartFailsIs, FinishFailsIs DEF Only, Stage
<1>4. ASSUME NEW c \in lateCalls, LateStart(c) \/ LateFinish(c)  PROVE Acknowledged(x, q)
  BY <1>4, LateIs
<1>5. ASSUME NEW s \in Syncer, NEW o \in Replica, BeginSync(s, o) \/ EndSync(s)
      PROVE  Acknowledged(x, q)
  BY <1>0, <1>5, SyncIs DEF Only
<1> QED  BY <1>1, <1>2, <1>3, <1>4, <1>5, ConstantFacts DEF MarkStep

LEMMA MarkedMark ==
  ASSUME SingleWriter, TypeInv, Numbers, Unfinished, Marked, MarkStep, MarksUndisturbed
  PROVE  Marked'
<1> SUFFICES ASSUME NEW x \in Writer, NEW q \in Replica \ {Home[x]}, Acknowledged(x, q)'
             PROVE  Home[x] \in remoteWriters'[q]
  BY DEF Marked
<1>1. CASE Acknowledged(x, q)
  <2>1. Home[x] \in remoteWriters[q] /\ pc[x] \in Holding
    BY <1>1 DEF Marked, Acknowledged, Holding
  <2> QED  BY <2>1, MarksStay
<1> QED  BY <1>1, AcknowledgedIs

LEMMA MarkedQuiet == ASSUME TypeInv, Marked, Quiet PROVE Marked'
<1> SUFFICES ASSUME NEW x \in Writer, NEW q \in Replica \ {Home[x]}, Acknowledged(x, q)'
             PROVE  Acknowledged(x, q)
  BY DEF Marked, Quiet, markVars
<1>0. x \in Thread /\ Home[x] \in Replica /\ N \in Nat /\ q \in 1..N /\ Replica = 1..N
  BY ConstantFacts DEF Replica
<1>1. QuietMove(x)
  BY <1>0 DEF Quiet, Move
<1>2. ~(/\ pc[x] = "begin" /\ peer'[x] = FirstPeer(Home[x])
        /\ pc'[x] = Stage(peer'[x], "start", "apply"))
  BY <1>0 DEF FirstPeer, NextPeer, Stage, Acknowledged
<1>3. LastPeer(Home[x]) # 0 \/ pc'[x] # "release"
  BY DEF Acknowledged
<1> QED
  BY <1>1, <1>2 DEF QuietMove, Acknowledged, Early, Marking, Holding, Stage, Opens

-----------------------------------------------------------------------------
(* Nobody reads while a write is applied.                                   *)

MarkInv ==
  /\ Numbers /\ Unfinished /\ MarksRead /\ Marked
  /\ ActiveInCriticalSection /\ LocalReadWriteExclusion

UndisturbedSpec == Init /\ [][Next /\ MarksUndisturbed]_vars

LEMMA MarkInit == Init => TypeInv /\ MarkInv
<1> SUFFICES ASSUME Init  PROVE MarkInv
  BY TypeInit
<1>1. \A q \in Replica : Remembered(q) = {}
  BY DEF Init, Remembered, Range
<1>2. \A x \in Thread : pc[x] = "idle" /\ seq[x] = 0 /\ Rn(Home[x]) = 0
  BY ConstantFacts DEF Init, Rn, NoGrants
<1>3. Numbers /\ Unfinished /\ Marked
  BY <1>1, <1>2, ConstantFacts
  DEF Init, Numbers, Unfinished, Marked, Acknowledged, WriteLabel, Early, Marking, Holding
<1>4. MarksRead /\ ActiveInCriticalSection /\ LocalReadWriteExclusion
  BY <1>2, ConstantFacts
  DEF Init, MarksRead, ActiveInCriticalSection, InCriticalSection, LocalReadWriteExclusion
<1> QED  BY <1>3, <1>4 DEF MarkInv

LEMMA MarkStutter == ASSUME MarkInv, UNCHANGED vars PROVE MarkInv'
<1>1. UNCHANGED <<requestNumbers, seq, peer, pc, lateCalls, markVars, activeReaders, localWriteActive>>
  BY DEF vars, lockVars, requestVars, guardVars, threadVars, netVars
<1>2. Numbers' /\ Unfinished' /\ Marked'
  BY <1>1 DEF MarkInv, Numbers, Unfinished, Marked, Acknowledged, Rn, Id, Remembered, markVars
<1>3. MarksRead' /\ ActiveInCriticalSection' /\ LocalReadWriteExclusion'
  BY <1>1 DEF MarkInv, MarksRead, ActiveInCriticalSection, InCriticalSection,
     LocalReadWriteExclusion, markVars
<1> QED  BY <1>2, <1>3 DEF MarkInv

LEMMA MarkInvStep ==
  ASSUME SingleWriter, TypeInv, MarkInv, [Next /\ MarksUndisturbed]_vars
  PROVE  MarkInv'
<1>1. CASE Next /\ MarksUndisturbed
  <2>1. Quiet \/ MarkStep
    BY <1>1, MarkKinds DEF MarkInv
  <2>2. Numbers'
    BY <2>1, NumbersQuiet, NumbersMark DEF MarkInv
  <2>3. Unfinished'
    BY <2>1, UnfinishedQuiet, UnfinishedMark DEF MarkInv
  <2>4. Marked'
    BY <1>1, <2>1, MarkedQuiet, MarkedMark DEF MarkInv
  <2>5. MarksRead'
    BY <1>1, MarksReadKept DEF MarkInv
  <2>6. ActiveInCriticalSection' /\ LocalReadWriteExclusion'
    BY <1>1, SingleEndsApart, CriticalKept, ExclusionKept DEF MarkInv
  <2> QED  BY <2>2, <2>3, <2>4, <2>5, <2>6 DEF MarkInv
<1> QED  BY <1>1, MarkStutter

LEMMA MarkedIsolated == MarkInv => ReadIsolation
<1> SUFFICES ASSUME MarkInv, NEW x \in Writer, pc[x] \in {"apply", "replicate"},
                    NEW q \in Replica
             PROVE  activeReaders[q] = 0
  BY DEF ReadIsolation
<1>1. CASE q = Home[x]
  BY <1>1, ConstantFacts DEF MarkInv, ActiveInCriticalSection, InCriticalSection, LocalReadWriteExclusion
<1>2. CASE q # Home[x]
  BY <1>2 DEF MarkInv, Marked, Acknowledged, MarksRead
<1> QED  BY <1>1, <1>2

\* When each replica serves one write at a time, nobody reads while a write is applied and
\* replicated, on any replica, whatever calls fail or arrive late -- except the report of
\* the end of an earlier write, and the end of a sync, of the writing replica: those take
\* the one mark that its writes and syncs share (the configuration
\* late_finish_unblocks_reads shows the first), and UndisturbedSpec leaves them out.
THEOREM ReadsIsolated == ASSUME SingleWriter PROVE UndisturbedSpec => []ReadIsolation
<1>1. MarkInv => ReadIsolation
  BY MarkedIsolated
<1>2. TypeInv /\ MarkInv /\ [Next /\ MarksUndisturbed]_vars => TypeInv' /\ MarkInv'
  BY MarkInvStep, TypeStep
<1> QED  BY <1>1, <1>2, MarkInit, PTL DEF UndisturbedSpec

-----------------------------------------------------------------------------
(* Every mark is released.                                                  *)

\* The loop over the peers never stops at the writer's own replica.
PeersOther == \A x \in Writer : pc[x] \in {"start", "release"} => peer[x] # Home[x]

\* The write of x will send its end to q.
Releases(x, q) ==
  /\ q # Home[x]
  /\ \/ pc[x] \in {"start", "release"} /\ q <= peer[x]
     \/ pc[x] \in {"apply", "replicate"}

\* The mark of o at q will be removed: by a write of o, by the late report of the end of
\* one, or by the sync that placed it.
Reason(q, o) ==
  \/ \E x \in Writer : Home[x] = o /\ Releases(x, q)
  \/ \E c \in lateCalls : c.kind = "finish" /\ c.to = q /\ c.id[1] = o
  \/ \E s \in Syncer : Home[s] = q /\ pc[s] = "sync" /\ peer[s] = o

MarksHaveReasons == \A q \in Replica : \A o \in remoteWriters[q] : Reason(q, o)

Ending(c) == [c EXCEPT !.kind = "finish"]

\* A late start finds that its write has finished, or the end is still to come.
StartsEnd ==
  \A c \in lateCalls : c.kind = "start" =>
    \/ c.id \in Remembered(c.to)
    \/ \E x \in Writer : pc[x] = "release" /\ Id(x) = c.id /\ Releases(x, c.to)
    \/ Ending(c) \in lateCalls

\* No replica forgets a finished write while the late start of it is on its way.
StartsRemembered ==
  \A c \in lateCalls' : c.kind = "start" /\ c.id \in Remembered(c.to) => c.id \in Remembered(c.to)'

LEMMA PeersOtherKept ==
  ASSUME TypeInv, Numbers, PeersOther, Quiet \/ MarkStep  PROVE PeersOther'
<1>0. /\ pc \in [Thread -> Label] /\ peer \in [Thread -> 0..N] /\ Writer \subseteq Thread
      /\ N \in Nat /\ Replica = 1..N /\ Home \in [Thread -> Replica]
  BY ConstantFacts DEF TypeInv, ThreadInv, ThreadTypeOK, Replica
<1>1. CASE Quiet
  <2> SUFFICES ASSUME NEW x \in Writer, pc'[x] \in {"start", "release"}
               PROVE  peer'[x] # Home[x]
    BY DEF PeersOther
  <2>1. QuietMove(x) /\ x \in Thread /\ Home[x] \in 1..N
    BY <1>0, <1>1 DEF Quiet, Move
  <2>2. FirstPeer(Home[x]) # Home[x] /\ LastPeer(Home[x]) # Home[x]
    BY <1>0, <2>1 DEF FirstPeer, LastPeer, NextPeer, PrevPeer
  <2> QED
    BY <2>1, <2>2 DEF QuietMove, PeersOther, Early, Marking, Holding, Stage, Opens
<1>2. ASSUME NEW x \in Writer, ServeStart(x) \/ ServeFinish(x)  PROVE PeersOther'
  <2>1. x \in Thread /\ Home[x] \in 1..N /\ peer[x] \in 1..N
    BY <1>0, <1>2, ServeStartIs, ServeFinishIs
  <2>2. NextPeer(Home[x], peer[x]) # Home[x] /\ PrevPeer(Home[x], peer[x]) # Home[x]
    BY <1>0, <2>1 DEF NextPeer, PrevPeer
  <2>3. /\ peer'[x] \in {NextPeer(Home[x], peer[x]), PrevPeer(Home[x], peer[x])}
        /\ \A z \in Thread \ {x} : pc'[z] = pc[z] /\ peer'[z] = peer[z]
    BY <1>0, <1>2, <2>1, ServeStartIs, ServeFinishIs DEF Only
  <2> QED  BY <1>0, <2>2, <2>3 DEF PeersOther
<1>3. ASSUME NEW x \in Thread, StartFails(x) \/ FinishFails(x), UNCHANGED lockVars
      PROVE  PeersOther'
  <2>1. Home[x] \in 1..N /\ peer[x] \in 1..N /\ x \in Writer /\ pc[x] \in {"start", "release"}
    BY <1>0, <1>3, StartFailsIs, FinishFailsIs
  <2>2. PrevPeer(Home[x], peer[x]) # Home[x] /\ peer[x] # Home[x]
    BY <1>0, <2>1 DEF PrevPeer, PeersOther
  <2>3. /\ peer'[x] \in {peer[x], PrevPeer(Home[x], peer[x])}
        /\ \A z \in Thread \ {x} : pc'[z] = pc[z] /\ peer'[z] = peer[z]
    BY <1>0, <1>3, StartFailsIs, FinishFailsIs DEF Only
  <2> QED  BY <1>0, <2>2, <2>3 DEF PeersOther
<1>4. ASSUME NEW c \in lateCalls, LateStart(c) \/ LateFinish(c)  PROVE PeersOther'
  BY <1>4, LateIs DEF PeersOther
<1>5. ASSUME NEW s \in Syncer, NEW o \in Replica, BeginSync(s, o) \/ EndSync(s)
      PROVE  PeersOther'
  BY <1>0, <1>5, SyncIs DEF Only, PeersOther
<1> QED  BY <1>1, <1>2, <1>3, <1>4, <1>5, ConstantFacts DEF MarkStep

LEMMA ReleasesQuiet ==
  ASSUME TypeInv, Quiet, NEW x \in Writer, NEW q \in Replica, Releases(x, q)
  PROVE  Releases(x, q)' /\ (pc[x] = "release" => pc'[x] = "release" /\ Id(x)' = Id(x))
<1>0. /\ seq \in [Thread -> Nat] /\ x \in Thread /\ Writer \subseteq Thread
      /\ N \in Nat /\ q \in 1..N /\ Home[x] \in 1..N
  BY ConstantFacts DEF TypeInv, ThreadInv, ThreadTypeOK, Replica
<1>1. QuietMove(x) /\ pc[x] \in Marking
  BY <1>0 DEF Quiet, Move, Releases, Marking, Holding
<1>2. pc[x] \notin Early /\ pc[x] \notin {"idle", "begin", "finish", "sync"}
  BY <1>1 DEF Marking, Holding, Early
<1>3. q <= LastPeer(Home[x]) /\ LastPeer(Home[x]) # 0 /\ FirstPeer(Home[x]) # 0
  BY <1>0 DEF Releases, FirstPeer, LastPeer, NextPeer, PrevPeer
<1>4. Releases(x, q)'
  BY <1>1, <1>2, <1>3 DEF QuietMove, Releases, Stage, Opens
<1>5. ASSUME pc[x] = "release"  PROVE pc'[x] = "release" /\ Id(x)' = Id(x)
  <2>1. pc'[x] = "release"
    BY <1>1, <1>2, <1>5 DEF QuietMove, Opens
  <2>2. seq'[x] = seq[x]
    <3>1. ASSUME NEW y \in Writer, Opens(y)  PROVE seq'[x] = seq[x]
      BY <1>0, <1>2, <3>1 DEF Opens
    <3> QED  BY <3>1 DEF Quiet, SameNumbers
  <2> QED  BY <2>1, <2>2 DEF Id
<1> QED  BY <1>4, <1>5

\* A write goes on with its release, has released q, or has given up on q.
LEMMA ReleasesMark ==
  ASSUME TypeInv, Numbers, ~Lossy, MarkStep, NEW x \in Writer, NEW q \in Replica, Releases(x, q)
  PROVE  /\ Id(x)' = Id(x)
         /\ \/ Releases(x, q)' /\ (pc[x] = "release" => pc'[x] = "release")
            \/ MarkFinished(q, Id(x))
            \/ /\ LateCall("finish", x) \in lateCalls' /\ peer[x] = q
<1> DEFINE Goal == /\ Id(x)' = Id(x)
                   /\ \/ Releases(x, q)' /\ (pc[x] = "release" => pc'[x] = "release")
                      \/ MarkFinished(q, Id(x))
                      \/ /\ LateCall("finish", x) \in lateCalls' /\ peer[x] = q
<1>0. /\ pc \in [Thread -> Label] /\ peer \in [Thread -> 0..N] /\ Writer \subseteq Thread
      /\ x \in Thread /\ N \in Nat /\ q \in 1..N /\ Home[x] \in 1..N /\ Replica = 1..N
  BY ConstantFacts DEF TypeInv, ThreadInv, ThreadTypeOK, Replica
<1>1. ASSUME UNCHANGED seq, pc'[x] = pc[x], peer'[x] = peer[x]  PROVE Goal
  BY <1>1 DEF Id, Releases
<1>2. ASSUME NEW y \in Thread, NEW l, NEW p, Only(y, l, p), y # x  PROVE Goal
  BY <1>0, <1>1, <1>2 DEF Only
<1>3. ASSUME UNCHANGED seq  PROVE Id(x)' = Id(x)
  BY <1>3 DEF Id
<1>4. ASSUME pc[x] = "release", peer[x] \in 1..N,
             peer'[x] = PrevPeer(Home[x], peer[x]),
             pc'[x] = Stage(PrevPeer(Home[x], peer[x]), "release", "finish")
      PROVE  q = peer[x] \/ (Releases(x, q)' /\ pc'[x] = "release")
  BY <1>0, <1>4 DEF Releases, PrevPeer, Stage
<1>5. ASSUME NEW y \in Writer, ServeStart(y)  PROVE Goal
  <2>1. CASE x = y
    <3>1. /\ pc[x] = "start" /\ peer[x] \in 1..N /\ UNCHANGED seq
          /\ peer'[x] = NextPeer(Home[x], peer[x])
          /\ pc'[x] = Stage(NextPeer(Home[x], peer[x]), "start", "apply")
      BY <1>0, <1>5, <2>1, ServeStartIs DEF Only
    <3>2. Releases(x, q)'
      BY <1>0, <3>1 DEF Releases, NextPeer, Stage
    <3> QED  BY <1>3, <3>1, <3>2
  <2>2. CASE x # y
    BY <1>0, <1>2, <1>5, <2>2, ServeStartIs
  <2> QED  BY <2>1, <2>2
<1>6. ASSUME NEW y \in Writer, ServeFinish(y)  PROVE Goal
  <2>1. CASE x = y
    <3>1. /\ pc[x] = "release" /\ peer[x] \in 1..N /\ UNCHANGED seq
          /\ peer'[x] = PrevPeer(Home[x], peer[x]) /\ MarkFinished(peer[x], Id(x))
          /\ pc'[x] = Stage(PrevPeer(Home[x], peer[x]), "release", "finish")
      BY <1>0, <1>6, <2>1, ServeFinishIs DEF Only
    <3> QED  BY <1>3, <1>4, <3>1
  <2>2. CASE x # y
    BY <1>0, <1>2, <1>6, <2>2, ServeFinishIs
  <2> QED  BY <2>1, <2>2
<1>7. ASSUME NEW y \in Thread, StartFails(y), UNCHANGED lockVars  PROVE Goal
  <2>1. CASE x = y
    <3>1. pc[x] = "start" /\ UNCHANGED seq /\ peer'[x] = peer[x] /\ pc'[x] = "release"
      BY <1>0, <1>7, <2>1, StartFailsIs DEF Only
    <3>2. Releases(x, q)'
      BY <3>1 DEF Releases
    <3> QED  BY <1>3, <3>1, <3>2
  <2>2. CASE x # y
    BY <1>0, <1>2, <1>7, <2>2, StartFailsIs
  <2> QED  BY <2>1, <2>2
<1>8. ASSUME NEW y \in Thread, FinishFails(y), UNCHANGED lockVars  PROVE Goal
  <2>1. CASE x = y
    <3>1. /\ pc[x] = "release" /\ peer[x] \in 1..N /\ UNCHANGED seq
          /\ peer'[x] = PrevPeer(Home[x], peer[x]) /\ LateCall("finish", x) \in lateCalls'
          /\ pc'[x] = Stage(PrevPeer(Home[x], peer[x]), "release", "finish")
      BY <1>0, <1>8, <2>1, FinishFailsIs DEF Only
    <3> QED  BY <1>3, <1>4, <3>1
  <2>2. CASE x # y
    BY <1>0, <1>2, <1>8, <2>2, FinishFailsIs
  <2> QED  BY <2>1, <2>2
<1>9. ASSUME NEW c \in lateCalls, LateStart(c) \/ LateFinish(c)  PROVE Goal
  BY <1>1, <1>9, LateIs
<1>10. ASSUME NEW s \in Syncer, NEW o \in Replica, BeginSync(s, o) \/ EndSync(s)  PROVE Goal
  <2>1. s \in Thread /\ pc[s] \in {"idle", "sync"} /\ pc[x] \notin {"idle", "sync"}
    BY <1>10, SyncIs DEF Releases
  <2>2. Only(s, "sync", o) \/ Only(s, "idle", 0)
    BY <1>10, SyncIs
  <2> QED  BY <1>2, <2>1, <2>2
<1> QED  BY <1>5, <1>6, <1>7, <1>8, <1>9, <1>10, ConstantFacts DEF MarkStep

\* A late report of an end stays on its way or is served.
LEMMA LateEnds ==
  ASSUME TypeInv, Numbers, MarkStep, NEW c \in lateCalls, c.kind = "finish"
  PROVE  c \in lateCalls' \/ MarkFinished(c.to, c.id)
<1>1. ASSUME NEW x \in Writer, ServeStart(x) \/ ServeFinish(x)  PROVE c \in lateCalls'
  BY <1>1, ServeStartIs, ServeFinishIs
<1>2. ASSUME NEW x \in Thread, StartFails(x) \/ FinishFails(x), UNCHANGED lockVars
      PROVE  c \in lateCalls'
  BY <1>2, StartFailsIs, FinishFailsIs
<1>3. ASSUME NEW d \in lateCalls, LateStart(d) \/ LateFinish(d)
      PROVE  c \in lateCalls' \/ MarkFinished(c.to, c.id)
  BY <1>3, LateIs
<1>4. ASSUME NEW s \in Syncer, NEW o \in Replica, BeginSync(s, o) \/ EndSync(s)
      PROVE  c \in lateCalls'
  BY <1>4, SyncIs
<1> QED  BY <1>1, <1>2, <1>3, <1>4, ConstantFacts DEF MarkStep

\* A sync goes on or removes its mark.
LEMMA SyncEnds ==
  ASSUME TypeInv, Numbers, MarkStep, NEW s \in Syncer, pc[s] = "sync"
  PROVE  \/ pc'[s] = "sync" /\ peer'[s] = peer[s]
         \/ peer[s] \notin remoteWriters'[Home[s]]
<1>0. /\ pc \in [Thread -> Label] /\ peer \in [Thread -> 0..N]
      /\ Syncer \subseteq Thread /\ Writer \subseteq Thread
  BY ConstantFacts DEF TypeInv, ThreadInv, ThreadTypeOK
<1>1. ASSUME NEW x \in Thread, NEW l, NEW q, Only(x, l, q), x # s
      PROVE  pc'[s] = "sync" /\ peer'[s] = peer[s]
  BY <1>0, <1>1 DEF Only
<1>2. ASSUME NEW x \in Writer, ServeStart(x) \/ ServeFinish(x)
      PROVE  pc'[s] = "sync" /\ peer'[s] = peer[s]
  <2>1. x \in Thread /\ x # s
    BY <1>0, <1>2, ServeStartIs, ServeFinishIs
  <2> QED  BY <1>1, <1>2, <2>1, ServeStartIs, ServeFinishIs
<1>3. ASSUME NEW x \in Thread, StartFails(x) \/ FinishFails(x), UNCHANGED lockVars
      PROVE  pc'[s] = "sync" /\ peer'[s] = peer[s]
  <2>1. x # s
    BY <1>3, StartFailsIs, FinishFailsIs
  <2> QED  BY <1>1, <1>3, <2>1, StartFailsIs, FinishFailsIs
<1>4. ASSUME NEW d \in lateCalls, LateStart(d) \/ LateFinish(d)
      PROVE  pc'[s] = "sync" /\ peer'[s] = peer[s]
  BY <1>4, LateIs
<1>5. ASSUME NEW u \in Syncer, NEW o \in Replica, BeginSync(u, o) \/ EndSync(u)
      PROVE  \/ pc'[s] = "sync" /\ peer'[s] = peer[s]
             \/ peer[s] \notin remoteWriters'[Home[s]]
  <2>1. CASE u = s
    BY <1>5, <2>1, SyncIs
  <2>2. CASE u # s
    <3>1. u \in Thread /\ (Only(u, "sync", o) \/ Only(u, "idle", 0))
      BY <1>5, SyncIs
    <3> QED  BY <1>1, <2>2, <3>1
  <2> QED  BY <2>1, <2>2
<1> QED  BY <1>2, <1>3, <1>4, <1>5, ConstantFacts DEF MarkStep

\* Who places a mark
LEMMA NewMark ==
  ASSUME TypeInv, Numbers, MarkStep, NEW q \in Replica, NEW o \in remoteWriters'[q] \ remoteWriters[q]
  PROVE  \/ \E x \in Writer : ServeStart(x) /\ peer[x] = q /\ Home[x] = o
         \/ \E c \in lateCalls : LateStart(c) /\ c.to = q /\ c.id[1] = o /\ c.id \notin Remembered(q)
         \/ \E s \in Syncer : Home[s] = q /\ pc'[s] = "sync" /\ peer'[s] = o
<1>0. pc \in [Thread -> Label] /\ peer \in [Thread -> 0..N]
  BY DEF TypeInv, ThreadInv, ThreadTypeOK
<1>1. ASSUME NEW x \in Writer, ServeStart(x)  PROVE peer[x] = q /\ Home[x] = o
  <2>1. peer[x] \in Replica /\ MarkStarted(peer[x], Id(x)) /\ Id(x) \in WriteId
    BY <1>1, ServeStartIs, IdType, ConstantFacts
  <2>2. peer[x] = q /\ remoteWriters'[q] = remoteWriters[q] \cup {Id(x)[1]}
    BY <2>1, MarkStartedIs
  <2> QED  BY <2>2 DEF Id
<1>2. ASSUME NEW x \in Writer, ServeFinish(x)  PROVE FALSE
  <2>1. peer[x] \in Replica /\ MarkFinished(peer[x], Id(x)) /\ Id(x) \in WriteId
    BY <1>2, ServeFinishIs, IdType, ConstantFacts
  <2> QED  BY <2>1, MarkFinishedIs
<1>3. ASSUME NEW x \in Thread, StartFails(x) \/ FinishFails(x), UNCHANGED lockVars  PROVE FALSE
  BY <1>3, StartFailsIs, FinishFailsIs DEF guardVars, markVars
<1>4. ASSUME NEW c \in lateCalls, LateStart(c)
      PROVE  c.to = q /\ c.id[1] = o /\ c.id \notin Remembered(q)
  <2>1. c.to \in Replica /\ c.id \in WriteId /\ MarkStarted(c.to, c.id)
    BY <1>4, LateIs DEF LateStart
  <2> QED  BY <2>1, MarkStartedIs
<1>5. ASSUME NEW c \in lateCalls, LateFinish(c)  PROVE FALSE
  <2>1. c.to \in Replica /\ c.id \in WriteId /\ MarkFinished(c.to, c.id)
    BY <1>5, LateIs DEF LateFinish
  <2> QED  BY <2>1, MarkFinishedIs
<1>6. ASSUME NEW s \in Syncer, NEW u \in Replica, BeginSync(s, u) \/ EndSync(s)
      PROVE  Home[s] = q /\ pc'[s] = "sync" /\ peer'[s] = o
  <2>1. Home[s] = q /\ o = u /\ Only(s, "sync", u) /\ s \in Thread
    BY <1>6, SyncIs
  <2> QED  BY <1>0, <2>1 DEF Only
<1> QED  BY <1>1, <1>2, <1>3, <1>4, <1>5, <1>6, ConstantFacts DEF MarkStep

LEMMA ReasonsQuiet ==
  ASSUME TypeInv, MarksHaveReasons, Quiet  PROVE MarksHaveReasons'
<1> SUFFICES ASSUME NEW q \in Replica, NEW o \in remoteWriters[q]  PROVE Reason(q, o)'
  BY DEF MarksHaveReasons, Quiet, markVars
<1>1. ASSUME NEW x \in Writer, Home[x] = o, Releases(x, q)  PROVE Reason(q, o)'
  BY <1>1, ReleasesQuiet DEF Reason
<1>2. ASSUME NEW c \in lateCalls, c.kind = "finish", c.to = q, c.id[1] = o  PROVE Reason(q, o)'
  BY <1>2 DEF Reason, Quiet, SameCalls
<1>3. ASSUME NEW s \in Syncer, Home[s] = q, pc[s] = "sync", peer[s] = o  PROVE Reason(q, o)'
  <2>1. QuietMove(s)
    BY ConstantFacts DEF Quiet, Move
  <2>2. pc'[s] = "sync" /\ peer'[s] = peer[s]
    BY <1>3, <2>1 DEF QuietMove, Early, Marking, Holding, Opens
  <2> QED  BY <1>3, <2>2 DEF Reason
<1> QED  BY <1>1, <1>2, <1>3 DEF MarksHaveReasons, Reason

LEMMA ReasonsMark ==
  ASSUME SingleWriter, ~Lossy, TypeInv, Numbers, Unfinished, PeersOther, MarksHaveReasons,
         StartsEnd, MarkStep
  PROVE  MarksHaveReasons'
<1> SUFFICES ASSUME NEW q \in Replica, NEW o \in remoteWriters'[q]  PROVE Reason(q, o)'
  BY DEF MarksHaveReasons
<1>0. Writer \subseteq Thread
  BY ConstantFacts
\* The reasons of a mark that is left stay.
<1>1. ASSUME NEW x \in Writer, Home[x] = o, Releases(x, q)  PROVE Reason(q, o)'
  <2>1. CASE Releases(x, q)'
    BY <1>1, <2>1 DEF Reason
  <2>2. ~MarkFinished(q, Id(x))
    <3>1. Id(x) \in WriteId /\ Id(x)[1] = o
      BY <1>0, <1>1, IdType DEF Id
    <3> QED  BY <3>1, MarkFinishedIs
  <2>3. CASE LateCall("finish", x) \in lateCalls' /\ peer[x] = q
    BY <1>1, <2>3 DEF Reason, LateCall, Id
  <2> QED  BY <1>1, <2>1, <2>2, <2>3, ReleasesMark
<1>2. ASSUME NEW c \in lateCalls, c.kind = "finish", c.to = q, c.id[1] = o  PROVE Reason(q, o)'
  <2>1. ~MarkFinished(c.to, c.id)
    <3>1. c.id \in WriteId
      BY DEF TypeInv, NetTypeOK, Call
    <3> QED  BY <1>2, <3>1, MarkFinishedIs
  <2> QED  BY <1>2, <2>1, LateEnds DEF Reason
<1>3. ASSUME NEW s \in Syncer, Home[s] = q, pc[s] = "sync", peer[s] = o  PROVE Reason(q, o)'
  BY <1>3, SyncEnds DEF Reason
<1>4. CASE o \in remoteWriters[q]
  BY <1>1, <1>2, <1>3, <1>4 DEF MarksHaveReasons, Reason
\* A mark that is placed has a reason.
<1>5. ASSUME NEW x \in Writer, ServeStart(x), peer[x] = q, Home[x] = o  PROVE Reason(q, o)'
  <2>1. Releases(x, q)
    BY <1>5, ConstantFacts, ServeStartIs DEF PeersOther, Releases
  <2> QED  BY <1>1, <1>5, <2>1
<1>6. ASSUME NEW c \in lateCalls, LateStart(c), c.to = q, c.id[1] = o, c.id \notin Remembered(q)
      PROVE  Reason(q, o)'
  <2>1. c.kind = "start" /\ c \in Call
    BY <1>6 DEF LateStart, TypeInv, NetTypeOK
  <2>2. CASE \E x \in Writer : Id(x) = c.id /\ Releases(x, c.to)
    BY <1>1, <1>6, <2>2 DEF Id
  <2>3. CASE Ending(c) \in lateCalls
    BY <1>2, <1>6, <2>1, <2>3 DEF Ending, Call
  <2> QED  BY <1>6, <2>1, <2>2, <2>3 DEF StartsEnd
<1>7. ASSUME NEW s \in Syncer, Home[s] = q, pc'[s] = "sync", peer'[s] = o  PROVE Reason(q, o)'
  BY <1>7 DEF Reason
<1> QED  BY <1>4, <1>5, <1>6, <1>7, NewMark

\* Who gives up on a start
LEMMA NewStart ==
  ASSUME TypeInv, Numbers, PeersOther, MarkStep, NEW c \in lateCalls' \ lateCalls, c.kind = "start"
  PROVE  \E x \in Writer : pc'[x] = "release" /\ Id(x)' = c.id /\ Releases(x, c.to)'
<1>0. pc \in [Thread -> Label] /\ peer \in [Thread -> 0..N] /\ Writer \subseteq Thread
  BY ConstantFacts DEF TypeInv, ThreadInv, ThreadTypeOK
<1>1. ASSUME NEW x \in Writer, ServeStart(x) \/ ServeFinish(x)  PROVE FALSE
  BY <1>1, ServeStartIs, ServeFinishIs
<1>2. ASSUME NEW x \in Thread, StartFails(x), UNCHANGED lockVars
      PROVE  x \in Writer /\ pc'[x] = "release" /\ Id(x)' = c.id /\ Releases(x, c.to)'
  <2>1. /\ x \in Writer /\ pc[x] = "start" /\ pc'[x] = "release" /\ peer'[x] = peer[x]
        /\ peer[x] \in Replica /\ c = LateCall("start", x) /\ UNCHANGED seq
    BY <1>0, <1>2, StartFailsIs DEF Only
  <2>2. peer[x] # Home[x] /\ peer[x] <= peer[x]
    BY <2>1, ConstantFacts DEF PeersOther
  <2>3. c.to = peer[x] /\ c.id = Id(x)
    BY <2>1 DEF LateCall
  <2>4. Id(x)' = Id(x)
    BY <2>1 DEF Id
  <2>5. c.to # Home[x] /\ c.to <= peer'[x]
    BY <2>1, <2>2, <2>3
  <2>6. Releases(x, c.to)'
    BY <2>1, <2>5 DEF Releases
  <2> QED  BY <2>1, <2>3, <2>4, <2>6
<1>3. ASSUME NEW x \in Thread, FinishFails(x), UNCHANGED lockVars  PROVE FALSE
  BY <1>3, FinishFailsIs DEF LateCall
<1>4. ASSUME NEW d \in lateCalls, LateStart(d) \/ LateFinish(d)  PROVE FALSE
  BY <1>4, LateIs
<1>5. ASSUME NEW s \in Syncer, NEW o \in Replica, BeginSync(s, o) \/ EndSync(s)  PROVE FALSE
  BY <1>5, SyncIs
<1> QED  BY <1>1, <1>2, <1>3, <1>4, <1>5, ConstantFacts DEF MarkStep

LEMMA StartsEndKept ==
  ASSUME ~Lossy, TypeInv, Numbers, PeersOther, StartsEnd, StartsRemembered, Quiet \/ MarkStep
  PROVE  StartsEnd'
<1> DEFINE Ends(c) ==
      \/ c.id \in Remembered(c.to)'
      \/ \E x \in Writer : pc'[x] = "release" /\ Id(x)' = c.id /\ Releases(x, c.to)'
      \/ Ending(c) \in lateCalls'
<1> SUFFICES ASSUME NEW c \in lateCalls', c.kind = "start"  PROVE Ends(c)
  BY DEF StartsEnd, Ending
<1>1. CASE c \notin lateCalls
  BY <1>1, NewStart DEF Quiet, SameCalls
<1>2. CASE c \in lateCalls
  <2>0. c \in Call /\ Ending(c).kind = "finish" /\ Ending(c).to = c.to /\ Ending(c).id = c.id
    BY <1>2 DEF TypeInv, NetTypeOK, Ending, Call
  <2>1. CASE c.id \in Remembered(c.to)
    BY <2>1 DEF StartsRemembered
  <2>2. ASSUME NEW x \in Writer, pc[x] = "release", Id(x) = c.id, Releases(x, c.to)  PROVE Ends(c)
    <3>0. c.to \in Replica /\ c.id \in WriteId
      BY <2>0 DEF Call
    <3>1. CASE Quiet
      BY <2>2, <3>0, <3>1, ReleasesQuiet
    <3>2. CASE MarkFinished(c.to, Id(x))
      BY <2>2, <3>0, <3>2, MarkFinishedIs
    <3>3. CASE LateCall("finish", x) \in lateCalls' /\ peer[x] = c.to
      <4>1. Ending(c) = LateCall("finish", x)
        BY <2>0, <2>2, <3>3 DEF Ending, LateCall, Call
      <4> QED  BY <3>3, <4>1
    <3>4. CASE MarkStep
      BY <2>2, <3>0, <3>2, <3>3, <3>4, ReleasesMark
    <3> QED  BY <3>1, <3>4
  <2>3. CASE Ending(c) \in lateCalls
    <3>1. CASE Quiet
      BY <2>0, <2>3, <3>1 DEF Quiet, SameCalls
    <3>2. CASE MarkFinished(c.to, c.id)
      BY <2>0, <3>2, MarkFinishedIs DEF Call
    <3>3. CASE MarkStep
      BY <2>0, <2>3, <3>2, <3>3, LateEnds
    <3> QED  BY <3>1, <3>3
  <2> QED  BY <1>2, <2>1, <2>2, <2>3 DEF StartsEnd
<1> QED  BY <1>1, <1>2

-----------------------------------------------------------------------------
(* The flag of a local write is cleared.                                    *)

ActiveHasWriter ==
  \A r \in Replica : localWriteActive[r] => \E x \in Writer : Home[x] = r /\ InCriticalSection(x)

LEMMA CriticalStays ==
  ASSUME TypeInv, Numbers, Quiet \/ MarkStep, NEW x \in Writer, InCriticalSection(x)
  PROVE  InCriticalSection(x)' \/ EndsWrite(x)
<1>0. /\ pc \in [Thread -> Label] /\ Writer \subseteq Thread
      /\ pc[x] \in Marking \cup {"finish"}
      /\ (pc'[x] \in Marking \cup {"finish"} => InCriticalSection(x)')
  BY ConstantFacts DEF TypeInv, ThreadInv, ThreadTypeOK, InCriticalSection, Marking, Holding
<1> USE DEF Marking, Holding
<1>1. CASE Quiet
  <2>1. QuietMove(x)
    BY <1>0, <1>1 DEF Quiet, Move
  <2> QED  BY <1>0, <2>1 DEF QuietMove, Early, Opens, Stage
<1>2. ASSUME NEW y \in Writer, ServeStart(y) \/ ServeFinish(y)  PROVE InCriticalSection(x)'
  BY <1>0, <1>2, ServeStartIs, ServeFinishIs DEF Only, Stage
<1>3. ASSUME NEW y \in Thread, StartFails(y) \/ FinishFails(y), UNCHANGED lockVars
      PROVE  InCriticalSection(x)'
  BY <1>0, <1>3, StartFailsIs, FinishFailsIs DEF Only, Stage
<1>4. ASSUME NEW c \in lateCalls, LateStart(c) \/ LateFinish(c)  PROVE InCriticalSection(x)'
  BY <1>0, <1>4, LateIs
<1>5. ASSUME NEW s \in Syncer, NEW o \in Replica, BeginSync(s, o) \/ EndSync(s)
      PROVE  InCriticalSection(x)'
  <2>1. pc[s] \in {"idle", "sync"} /\ s # x /\ (Only(s, "sync", o) \/ Only(s, "idle", 0))
    BY <1>0, <1>5, SyncIs
  <2> QED  BY <1>0, <2>1 DEF Only
<1> QED  BY <1>1, <1>2, <1>3, <1>4, <1>5, ConstantFacts DEF MarkStep

LEMMA ActiveKept ==
  ASSUME TypeInv, TokenInv, Numbers, ActiveInCriticalSection, ActiveHasWriter, Next
  PROVE  ActiveHasWriter'
<1> SUFFICES ASSUME NEW r \in Replica, localWriteActive'[r]
             PROVE  \E x \in Writer : Home[x] = r /\ InCriticalSection(x)'
  BY DEF ActiveHasWriter
<1>0. /\ localWriteActive \in [Replica -> BOOLEAN] /\ pc \in [Thread -> Label]
      /\ Writer \subseteq Thread
  BY ConstantFacts DEF TypeInv, GuardTypeOK, ThreadInv, ThreadTypeOK
<1>1. CASE ~localWriteActive[r]
  <2>1. PICK x \in Writer : BeginsOrEnds(x)
    BY <1>1, WhoWrites
  <2>2. BeginWrite(x) /\ Home[x] = r
    BY <1>0, <1>1, <2>1 DEF BeginsOrEnds, BeginWrite, FinishWrite, AbortWrite
  <2>3. pc'[x] \in {"start", "apply"}
    BY <1>0, <2>2 DEF BeginWrite, Goto, Stage
  <2> QED  BY <2>2, <2>3 DEF InCriticalSection
<1>2. CASE localWriteActive[r]
  <2>1. PICK x \in Writer : Home[x] = r /\ InCriticalSection(x)
    BY <1>2 DEF ActiveHasWriter
  <2>2. ~FinishWrite(x)
    BY <1>0, <2>1 DEF FinishWrite
  <2>3. ~FinishWithoutToken(x)
    BY <2>1 DEF FinishWithoutToken, ActiveInCriticalSection, TokenInv, OnlyHolderWrites
  <2> QED  BY <2>1, <2>2, <2>3, MarkKinds, CriticalStays DEF EndsWrite
<1> QED  BY <1>1, <1>2

-----------------------------------------------------------------------------
(* Nothing is left of the writes that have ended.                           *)

CleanInv ==
  /\ Numbers /\ Unfinished /\ PeersOther /\ MarksHaveReasons /\ StartsEnd
  /\ ActiveInCriticalSection /\ ActiveHasWriter

LEMMA CleanInit == Init => CleanInv
<1> SUFFICES ASSUME Init  PROVE CleanInv
  OBVIOUS
<1>1. Numbers /\ Unfinished /\ ActiveInCriticalSection
  BY MarkInit DEF MarkInv
<1>2. PeersOther /\ MarksHaveReasons /\ StartsEnd /\ ActiveHasWriter
  BY ConstantFacts DEF Init, PeersOther, MarksHaveReasons, StartsEnd, ActiveHasWriter
<1> QED  BY <1>1, <1>2 DEF CleanInv

LEMMA CleanStutter == ASSUME CleanInv, UNCHANGED vars PROVE CleanInv'
<1>1. UNCHANGED <<requestNumbers, seq, peer, pc, lateCalls, remoteWriters, finishedWrites,
                  activeReaders, localWriteActive>>
  BY DEF vars, lockVars, requestVars, guardVars, markVars, threadVars, netVars
<1>2. Numbers' /\ Unfinished' /\ PeersOther'
  BY <1>1 DEF CleanInv, Numbers, Unfinished, PeersOther, Rn, Id, Remembered
<1>3. MarksHaveReasons' /\ StartsEnd'
  BY <1>1 DEF CleanInv, MarksHaveReasons, Reason, StartsEnd, Releases, Remembered, Id, Ending
<1>4. ActiveInCriticalSection' /\ ActiveHasWriter'
  BY <1>1 DEF CleanInv, ActiveInCriticalSection, ActiveHasWriter, InCriticalSection
<1> QED  BY <1>2, <1>3, <1>4 DEF CleanInv

LEMMA CleanStep ==
  ASSUME SingleWriter, ~Lossy, TypeInv, TokenInv, CleanInv, [Next /\ StartsRemembered]_vars
  PROVE  CleanInv'
<1>1. CASE Next /\ StartsRemembered
  <2>1. Quiet \/ MarkStep
    BY <1>1, MarkKinds DEF CleanInv
  <2>2. Numbers' /\ Unfinished'
    BY <2>1, NumbersQuiet, NumbersMark, UnfinishedQuiet, UnfinishedMark DEF CleanInv
  <2>3. PeersOther' /\ StartsEnd'
    BY <1>1, <2>1, PeersOtherKept, StartsEndKept DEF CleanInv
  <2>4. MarksHaveReasons'
    BY <2>1, ReasonsQuiet, ReasonsMark DEF CleanInv
  <2>5. ActiveInCriticalSection' /\ ActiveHasWriter'
    BY <1>1, SingleEndsApart, CriticalKept, ActiveKept DEF CleanInv
  <2> QED  BY <2>2, <2>3, <2>4, <2>5 DEF CleanInv
<1> QED  BY <1>1, CleanStutter

LEMMA CleanWhenQuiet == ASSUME CleanInv  PROVE QuiescentClean
<1> SUFFICES ASSUME AllQuiet, lateCalls = {}, NEW r \in Replica
             PROVE  ~localWriteActive[r] /\ remoteWriters[r] = {}
  BY DEF QuiescentClean
<1>1. /\ \A x \in Writer : pc[x] \in {"idle", "begin"}
      /\ \A s \in Syncer : pc[s] \in {"idle", "begin"}
  BY ConstantFacts DEF AllQuiet
<1>2. ~localWriteActive[r]
  BY <1>1 DEF CleanInv, ActiveHasWriter, InCriticalSection
<1>3. \A o : ~Reason(r, o)
  BY <1>1 DEF Reason, Releases
<1> QED  BY <1>2, <1>3 DEF CleanInv, MarksHaveReasons

RememberingSpec == Init /\ [][SerialNext /\ StartsRemembered]_vars

\* When the writes have ended and no call is on its way, nothing blocks reads: no flag of
\* a local write and no mark is left on any replica, in every schedule in which a hand-off
\* is not disturbed, when each replica serves one write at a time, a call that times out
\* arrives in the end, and no replica forgets a finished write while the late start of it
\* is on its way.  The last is what _remember_finished_remote_write_locked is for, and what
\* its bound may break.
THEOREM MarksReleased ==
  ASSUME SingleWriter, ~Lossy
  PROVE  RememberingSpec => []QuiescentClean
<1>1. [SerialNext /\ StartsRemembered]_vars => [SerialNext]_vars /\ [Next /\ StartsRemembered]_vars
  BY DEF SerialNext
<1>2. TypeInv /\ TokenInv /\ CleanInv /\ [SerialNext /\ StartsRemembered]_vars
        => TypeInv' /\ TokenInv' /\ CleanInv'
  BY <1>1, SerialIsNext, TypeStep, TokenInvStep, CleanStep
<1>3. CleanInv => QuiescentClean
  BY CleanWhenQuiet
<1> QED  BY <1>2, <1>3, TypeInit, TokenInvInit, CleanInit, PTL DEF RememberingSpec

=============================================================================
