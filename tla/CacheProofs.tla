-------------------------------- MODULE CacheProofs --------------------------------
(***************************************************************************)
(* Theorems about ReplicatedCache, for any replicas, keys and failures.    *)
(* Its steps are steps of the lock or leave it alone, so that what is      *)
(* proved of the lock holds of the cache.  The replica a write was made at *)
(* has every entry of it that any replica has; what an answer to a write   *)
(* says of the logs is true; no two entries in the logs have the same      *)
(* timestamp; and only syncs and late replicate calls put an older entry   *)
(* in the place of a newer one.                                            *)
(***************************************************************************)
EXTENDS ReplicatedCache, CoordinationProofs

-----------------------------------------------------------------------------
(* The invariant.                                                           *)

DataTypes ==
  /\ clock \in [Replica -> Nat]
  /\ log \in [Replica -> Seq(Entry)]
  /\ snapshots \in [Replica -> SUBSET [since : Nat, length : Nat]]
  /\ \A r \in Replica : \A p \in snapshots[r] : p.length <= Len(log[r])
  /\ written \in SUBSET Entry
  /\ lateEntries \in SUBSET [to : Replica, entry : Entry]
  /\ work \in [Syncer -> SUBSET Entry]

\* A write's id and timestamp are its own.
Stamps ==
  /\ \A e \in written :
       e.ts <= clock[e.id[1]] /\ e.id[2] <= requestNumbers[e.id[1]][e.id[1]]
  /\ \A e, f \in written : e.id = f.id => e = f
  /\ \A e, f \in written : e.id[1] = f.id[1] /\ e.ts = f.ts => e = f

BeforeStamp == {"opened", "ask", "asked", "begin"}
Stamped == {"start", "apply", "replicate"}

\* No other write has the id of one that waits for its timestamp.
Fresh ==
  /\ \A x \in Writer : pc[x] \in BeforeStamp =>
       /\ seq[x] <= requestNumbers[Home[x]][Home[x]]
       /\ \A e \in written : e.id # Id(x)
  /\ \A x, y \in Writer :
       x # y /\ Home[x] = Home[y] /\ pc[x] \in BeforeStamp /\ pc[y] \in BeforeStamp
         => seq[x] # seq[y]
  /\ \A x \in Writer : pc[x] \in Stamped => \E e \in written : e.id = Id(x)

Settled(e) == e \in written /\ e \in Range(log[e.id[1]])

\* Whatever is kept or under way has settled at its origin.
AllSettled ==
  /\ \A x \in Writer : pc[x] = "replicate" => \A e \in written : e.id = Id(x) => Settled(e)
  /\ \A r \in Replica : \A e \in Range(log[r]) : Settled(e)
  /\ \A m \in lateEntries : Settled(m.entry)
  /\ \A x \in Syncer : \A e \in work[x] : Settled(e)

DataInv == DataTypes /\ Stamps /\ Fresh /\ AllSettled

LEMMA OriginFromInv == DataInv => OriginHasEntry
BY DEF DataInv, AllSettled, Settled, OriginHasEntry, Logged

-----------------------------------------------------------------------------
(* The lock's side: how a step moves the threads of writes.                 *)

Keeps(y) ==
  /\ seq'[y] = seq[y]
  /\ pc'[y] \in BeforeStamp => pc[y] \in BeforeStamp
  /\ pc'[y] \in Stamped => pc'[y] = pc[y] /\ peer'[y] = peer[y]

RequestsGrow == \A r \in Replica : requestNumbers'[r][r] >= requestNumbers[r][r]

Quiet == RequestsGrow /\ \A y \in Writer : Keeps(y)

LEMMA LockQuiet ==
  ASSUME TypeInv, UNCHANGED requestNumbers  PROVE RequestsGrow
BY DEF RequestsGrow, TypeInv, LockTypeOK, Grants

LEMMA MoveQuiet ==
  ASSUME ThreadInv, NEW x \in Thread, NEW l, pc' = [pc EXCEPT ![x] = l], UNCHANGED seq,
         peer' = peer \/ \E q : peer' = [peer EXCEPT ![x] = q],
         l \in BeforeStamp => pc[x] \in BeforeStamp, l \notin Stamped
  PROVE  \A y \in Writer : Keeps(y)
BY ConstantFacts DEF Keeps, ThreadInv, ThreadTypeOK

LEMMA AdvanceQuiet ==
  ASSUME ThreadInv, NEW x \in Thread, NEW q, NEW loop, NEW after, Advance(x, q, loop, after),
         loop \notin BeforeStamp \cup Stamped, after \notin BeforeStamp \cup Stamped
  PROVE  \A y \in Writer : Keeps(y)
BY MoveQuiet DEF Advance, Goto, Stage

LEMMA EndPassQuiet ==
  ASSUME ThreadInv, NEW x \in Thread, NEW ok, EndPass(x, ok)
  PROVE  \A y \in Writer : Keeps(y)
<1>1. CASE caller[x] = NoThread
  BY <1>1, MoveQuiet DEF EndPass, Goto, BeforeStamp, Stamped
<1>2. CASE caller[x] # NoThread
  <2> DEFINE y == caller[x]
  <2>1. y \in Thread /\ pc[y] \in {"asked", "awaited"}
    BY <1>2 DEF ThreadInv, ThreadTypeOK, CallersWait
  <2>2. /\ pc' = [pc EXCEPT ![x] = "idle", ![y] = Replied(y, ok)] /\ UNCHANGED seq
        /\ peer' = peer \/ \E q : peer' = [peer EXCEPT ![y] = q]
    BY <1>2 DEF EndPass
  <2>3. /\ Replied(y, ok) \notin Stamped
        /\ Replied(y, ok) \in BeforeStamp => pc[y] \in BeforeStamp
    BY <2>1 DEF Replied, Stage, Stamped, BeforeStamp
  <2>4. "idle" \notin BeforeStamp \cup Stamped
    BY DEF BeforeStamp, Stamped
  <2> HIDE DEF y
  <2> QED  BY <2>1, <2>2, <2>3, <2>4, ConstantFacts DEF Keeps, ThreadInv, ThreadTypeOK
<1> QED  BY <1>1, <1>2

LEMMA PassQuiet ==
  ASSUME TypeInv, NEW x \in Thread, Pass(x)
  PROVE  Quiet
<1>0. ThreadInv /\ RequestsGrow
  BY LockQuiet DEF TypeInv, Pass, PassCheck, NextNobody, NextRecipient, Export,
     ExportWithoutToken, MarkSent, Send, SendNothing, ClearPending, GiveUpSend, lockVars,
     requestVars
<1>1. CASE PassCheck(x) \/ NextRecipient(x) \/ Export(x) \/ MarkSent(x) \/ Send(x)
  BY <1>0, <1>1, MoveQuiet
  DEF PassCheck, NextRecipient, Export, MarkSent, Send, Step, Goto, BeforeStamp, Stamped, Quiet
<1>2. CASE \/ NextNobody(x) \/ ExportWithoutToken(x) \/ SendNothing(x)
           \/ ClearPending(x) \/ GiveUpSend(x)
  BY <1>0, <1>2, EndPassQuiet
  DEF NextNobody, ExportWithoutToken, SendNothing, ClearPending, GiveUpSend, Quiet
<1> QED  BY <1>1, <1>2 DEF Pass

LEMMA NoteGrows ==
  ASSUME TypeInv, NEW p \in Replica, NEW q \in Replica, NEW n \in Nat, NoteRequest(p, q, n)
  PROVE  RequestsGrow
BY DEF NoteRequest, RequestsGrow, TypeInv, LockTypeOK, Grants

LEMMA ServeQuiet ==
  ASSUME TypeInv, NEW x \in Thread, NEW h \in Handler, Serve(x, h)
  PROVE  Quiet
<1>1. h \in Thread /\ h \notin Writer /\ "check" \notin BeforeStamp \cup Stamped
  BY ConstantsAssumption, ConstantFacts DEF BeforeStamp, Stamped
<1>2. CASE ServeRequest(x, h)
  <2>1. RequestsGrow
    BY <1>2, NoteGrows, ConstantFacts
    DEF ServeRequest, TypeInv, ThreadInv, ThreadTypeOK, PeersNamed
  <2>2. \A y \in Writer : Keeps(y)
    BY <1>1, <1>2, ConstantFacts
    DEF ServeRequest, Keeps, TypeInv, ThreadInv, ThreadTypeOK, BeforeStamp, Stamped
  <2> QED  BY <2>1, <2>2 DEF Quiet
<1>3. CASE ServeTransfer(x, h)
  <2>1. RequestsGrow
    BY <1>3, LockQuiet DEF ServeTransfer, requestVars
  <2>2. \A y \in Writer : Keeps(y)
    BY <1>1, <1>3, ConstantFacts
    DEF ServeTransfer, Keeps, TypeInv, ThreadInv, ThreadTypeOK, BeforeStamp, Stamped
  <2> QED  BY <2>1, <2>2 DEF Quiet
<1> QED  BY <1>2, <1>3 DEF Serve

LEMMA FailQuiet ==
  ASSUME TypeInv, NEW x \in Thread, Fail(x)
  PROVE  Quiet
<1>0. ThreadInv /\ RequestsGrow
  BY LockQuiet DEF TypeInv, Fail, lockVars, requestVars
<1>1. CASE RequestFails(x) \/ StartFails(x)
  BY <1>0, <1>1, MoveQuiet DEF RequestFails, StartFails, Goto, BeforeStamp, Stamped, Quiet
<1>2. CASE ApplyFails(x) \/ FinishFails(x)
  BY <1>0, <1>2, AdvanceQuiet DEF ApplyFails, FinishFails, BeforeStamp, Stamped, Quiet
<1>3. CASE TransferFails(x)
  BY <1>0, <1>3, EndPassQuiet DEF TransferFails, Quiet
<1> QED  BY <1>1, <1>2, <1>3 DEF Fail

LEMMA StillQuiet ==
  ASSUME TypeInv, UNCHANGED <<lockVars, threadVars>>  PROVE Quiet
BY LockQuiet DEF lockVars, requestVars, threadVars, Keeps, Quiet

LEMMA LateQuiet == TypeInv /\ Late => Quiet
<1> SUFFICES ASSUME TypeInv, Late  PROVE Quiet
  OBVIOUS
<1>1. ASSUME NEW c \in lateCalls, LateStart(c) \/ LateFinish(c)  PROVE Quiet
  BY <1>1, StillQuiet DEF LateStart, LateFinish
<1>2. ASSUME NEW h \in Handler, NEW c \in lateCalls, LateRequest(h, c)  PROVE Quiet
  <2>1. c.to \in Replica /\ c.id[1] \in Replica /\ c.id[2] \in Nat
    BY DEF TypeInv, NetTypeOK, Call, WriteId
  <2>2. RequestsGrow
    BY <1>2, <2>1, NoteGrows DEF LateRequest
  <2>3. \A y \in Writer : Keeps(y)
    BY <1>2, MoveQuiet, ConstantFacts DEF LateRequest, Goto, TypeInv, BeforeStamp, Stamped
  <2> QED  BY <2>2, <2>3 DEF Quiet
<1>3. ASSUME NEW h \in Handler, NEW m \in lateTransfers, LateTransfer(h, m)  PROVE Quiet
  <2>1. RequestsGrow
    BY <1>3, LockQuiet DEF LateTransfer, requestVars
  <2>2. \A y \in Writer : Keeps(y)
    BY <1>3, MoveQuiet, ConstantFacts DEF LateTransfer, Goto, TypeInv, BeforeStamp, Stamped
  <2> QED  BY <2>1, <2>2 DEF Quiet
<1> QED  BY <1>1, <1>2, <1>3 DEF Late

LEMMA SyncQuiet ==
  ASSUME TypeInv, NEW x \in Syncer, NEW source, BeginSync(x, source) \/ EndSync(x)
  PROVE  Quiet
<1>1. RequestsGrow
  BY LockQuiet DEF BeginSync, EndSync, lockVars, requestVars
<1>2. \A y \in Writer : Keeps(y)
  BY MoveQuiet, ConstantFacts DEF BeginSync, EndSync, Goto, TypeInv, BeforeStamp, Stamped
<1> QED  BY <1>1, <1>2 DEF Quiet

LEMMA OpenMoves ==
  ASSUME TypeInv, NEW x \in Writer, OpenWrite(x)
  PROVE  /\ RequestsGrow /\ \A y \in Writer \ {x} : Keeps(y)
         /\ pc'[x] = "opened" /\ seq'[x] = requestNumbers[Home[x]][Home[x]] + 1
         /\ requestNumbers'[Home[x]][Home[x]] = seq'[x]
<1>1. x \in Thread /\ Home[x] \in Replica
  BY ConstantFacts
<1>2. requestNumbers'[Home[x]][Home[x]] = requestNumbers[Home[x]][Home[x]] + 1
  BY <1>1 DEF OpenWrite, TypeInv, LockTypeOK, Grants
<1>3. RequestsGrow
  BY <1>1 DEF OpenWrite, RequestsGrow, TypeInv, LockTypeOK, Grants
<1>4. pc'[x] = "opened" /\ seq'[x] = requestNumbers[Home[x]][Home[x]] + 1
  BY <1>1 DEF OpenWrite, Goto, TypeInv, ThreadInv, ThreadTypeOK
<1>5. \A y \in Writer \ {x} : Keeps(y)
  BY <1>1, ConstantFacts DEF OpenWrite, Goto, Keeps, TypeInv, ThreadInv, ThreadTypeOK
<1> QED  BY <1>2, <1>3, <1>4, <1>5

LEMMA OtherWriteQuiet ==
  ASSUME TypeInv, NEW x \in Writer,
         \/ DecideBroadcast(x) \/ ServeFinish(x)
         \/ FinishWrite(x) \/ FinishWithoutToken(x) \/ AbortWrite(x)
  PROVE  Quiet
<1>0. ThreadInv /\ x \in Thread
  BY ConstantFacts DEF TypeInv
<1>1. RequestsGrow
  BY LockQuiet DEF DecideBroadcast, ServeFinish, FinishWrite, FinishWithoutToken, AbortWrite,
     lockVars, requestVars
<1>2. CASE DecideBroadcast(x)
  <2> DEFINE l == Stage(IF hasToken[Home[x]] THEN 0 ELSE FirstPeer(Home[x]), "ask", "begin")
  <2>1. l \notin Stamped /\ pc[x] \in BeforeStamp
    BY <1>2 DEF DecideBroadcast, Stage, Stamped, BeforeStamp
  <2>2. /\ pc' = [pc EXCEPT ![x] = l] /\ UNCHANGED seq
        /\ \E q : peer' = [peer EXCEPT ![x] = q]
    BY <1>2 DEF DecideBroadcast, Goto
  <2> HIDE DEF l
  <2> QED  BY <1>0, <1>1, <2>1, <2>2, MoveQuiet DEF Quiet
<1>3. CASE ServeFinish(x)
  BY <1>0, <1>1, <1>3, AdvanceQuiet DEF ServeFinish, Quiet, BeforeStamp, Stamped
<1>4. CASE FinishWrite(x) \/ FinishWithoutToken(x) \/ AbortWrite(x)
  BY <1>0, <1>1, <1>4, MoveQuiet
  DEF FinishWrite, FinishWithoutToken, AbortWrite, Step, Goto, Quiet, BeforeStamp, Stamped
<1> QED  BY <1>2, <1>3, <1>4

\* A write that gets its timestamp, or goes on with it
LEMMA StampedMoves ==
  ASSUME TypeInv, NEW x \in Writer,
         BeginWrite(x) \/ ServeStart(x) \/ ApplyLocally(x) \/ ServeReplicate(x)
  PROVE  /\ RequestsGrow /\ UNCHANGED seq /\ \A y \in Writer \ {x} : Keeps(y)
         /\ pc'[x] \notin BeforeStamp
         /\ BeginWrite(x) => pc[x] = "begin" /\ pc'[x] # "replicate"
         /\ ~BeginWrite(x) => pc[x] \in Stamped
         /\ ServeStart(x) => pc'[x] # "replicate"
         /\ ServeReplicate(x) => pc[x] = "replicate"
<1>0. ThreadInv /\ x \in Thread
  BY ConstantFacts DEF TypeInv
<1>1. RequestsGrow /\ UNCHANGED seq
  BY LockQuiet DEF BeginWrite, ServeStart, ApplyLocally, ServeReplicate, Advance, lockVars,
     requestVars
<1>2. PICK l, q : /\ pc' = [pc EXCEPT ![x] = l] /\ l \notin BeforeStamp
                  /\ peer' = [peer EXCEPT ![x] = q]
                  /\ BeginWrite(x) \/ ServeStart(x) => l # "replicate"
  <2>1. CASE BeginWrite(x) \/ ServeStart(x)
    BY <2>1, <1>0 DEF BeginWrite, ServeStart, ApplyLocally, ServeReplicate, Advance, Goto, Stage,
       BeforeStamp
  <2>2. CASE ApplyLocally(x) \/ ServeReplicate(x)
    <3>1. ~BeginWrite(x) /\ ~ServeStart(x)
      BY <2>2 DEF BeginWrite, MayBegin, ServeStart, ApplyLocally, ServeReplicate
    <3> QED  BY <2>2, <3>1 DEF ApplyLocally, ServeReplicate, Advance, Goto, Stage, BeforeStamp
  <2> QED  BY <2>1, <2>2
<1>3. \A y \in Writer \ {x} : Keeps(y)
  BY <1>0, <1>1, <1>2, ConstantFacts DEF Keeps, ThreadInv, ThreadTypeOK
<1>4. pc'[x] = l
  BY <1>0, <1>2 DEF ThreadInv, ThreadTypeOK
<1>5. /\ BeginWrite(x) => pc[x] = "begin"
      /\ ~BeginWrite(x) => pc[x] \in Stamped
      /\ ServeReplicate(x) => pc[x] = "replicate"
  BY DEF BeginWrite, MayBegin, ServeStart, ApplyLocally, ServeReplicate, Stamped
<1> QED  BY <1>1, <1>2, <1>3, <1>4, <1>5

-----------------------------------------------------------------------------
(* The data's side.                                                         *)

LEMMA EntryTypes ==
  \A e \in Entry : e.id[1] \in Replica /\ e.id[2] \in Nat /\ e.ts \in Nat /\ e.id \in WriteId
BY DEF Entry, WriteId

LEMMA IdType ==
  ASSUME TypeInv, NEW x \in Writer
  PROVE  Id(x) \in WriteId /\ Id(x)[1] = Home[x] /\ Id(x)[2] = seq[x] /\ Home[x] \in Replica
BY ConstantFacts DEF Id, WriteId, TypeInv, ThreadInv, ThreadTypeOK

LEMMA EntryOfIs ==
  ASSUME DataInv, NEW x \in Writer, pc[x] \in Stamped
  PROVE  /\ EntryOf(x) \in written /\ EntryOf(x).id = Id(x)
         /\ \A e \in written : e.id = Id(x) => e = EntryOf(x)
<1>1. \E e \in written : e.id = Id(x)
  BY DEF DataInv, Fresh
<1>2. EntryOf(x) \in written /\ EntryOf(x).id = Id(x)
  BY <1>1 DEF EntryOf
<1> QED  BY <1>2 DEF DataInv, Stamps

ClocksGrow == clock' \in [Replica -> Nat] /\ \A r \in Replica : clock'[r] >= clock[r]

LEMMA ClockMoves ==
  ASSUME DataTypes, NEW r \in Replica, NEW n \in Nat,
         \/ clock' = [clock EXCEPT ![r] = Updated(@, n)]
         \/ clock' = [clock EXCEPT ![r] = Updated(@, n) + 1]
  PROVE  ClocksGrow
<1>1. clock[r] \in Nat
  BY DEF DataTypes
<1>2. Updated(clock[r], n) \in Nat /\ Updated(clock[r], n) >= clock[r]
  BY <1>1 DEF Updated, Later
<1>3. PICK v \in Nat : v >= clock[r] /\ clock' = [clock EXCEPT ![r] = v]
  BY <1>1, <1>2
<1> QED  BY <1>1, <1>3 DEF ClocksGrow, DataTypes

LEMMA StampsKept ==
  ASSUME TypeInv, TypeInv', DataInv, RequestsGrow, ClocksGrow, UNCHANGED written
  PROVE  Stamps'
<1>1. ASSUME NEW e \in written
      PROVE  e.ts <= clock'[e.id[1]] /\ e.id[2] <= requestNumbers'[e.id[1]][e.id[1]]
  <2>1. e.id[1] \in Replica /\ e.id[2] \in Nat /\ e.ts \in Nat
    BY EntryTypes DEF DataInv, DataTypes
  <2>2. e.ts <= clock[e.id[1]] /\ e.id[2] <= requestNumbers[e.id[1]][e.id[1]]
    BY DEF DataInv, Stamps
  <2>3. clock'[e.id[1]] >= clock[e.id[1]] /\ clock'[e.id[1]] \in Nat /\ clock[e.id[1]] \in Nat
    BY <2>1 DEF ClocksGrow, DataInv, DataTypes
  <2>4. /\ requestNumbers'[e.id[1]][e.id[1]] >= requestNumbers[e.id[1]][e.id[1]]
        /\ requestNumbers'[e.id[1]][e.id[1]] \in Nat /\ requestNumbers[e.id[1]][e.id[1]] \in Nat
    BY <2>1 DEF RequestsGrow, TypeInv, LockTypeOK, Grants
  <2> QED  BY <2>1, <2>2, <2>3, <2>4
<1> QED  BY <1>1 DEF DataInv, Stamps

LEMMA FreshKept ==
  ASSUME TypeInv, TypeInv', DataInv, RequestsGrow, UNCHANGED <<written, seq>>,
         \A y \in Writer : /\ pc'[y] \in BeforeStamp => pc[y] \in BeforeStamp
                           /\ pc'[y] \in Stamped => pc[y] \in Stamped
  PROVE  Fresh'
<1>1. \A y \in Writer : Id(y)' = Id(y)
  BY DEF Id
<1>2. ASSUME NEW x \in Writer, pc[x] \in BeforeStamp
      PROVE  seq[x] <= requestNumbers'[Home[x]][Home[x]]
  <2>1. Home[x] \in Replica /\ seq[x] \in Nat
    BY ConstantFacts DEF TypeInv, ThreadInv, ThreadTypeOK
  <2>2. seq[x] <= requestNumbers[Home[x]][Home[x]]
    BY <1>2 DEF DataInv, Fresh
  <2>3. /\ requestNumbers'[Home[x]][Home[x]] >= requestNumbers[Home[x]][Home[x]]
        /\ requestNumbers'[Home[x]][Home[x]] \in Nat /\ requestNumbers[Home[x]][Home[x]] \in Nat
    BY <2>1 DEF RequestsGrow, TypeInv, LockTypeOK, Grants
  <2> QED  BY <2>1, <2>2, <2>3
<1> QED  BY <1>1, <1>2 DEF DataInv, Fresh

\* A log grows by an entry that is not in it.
LEMMA RecordedIs ==
  ASSUME NEW s \in Seq(Entry), NEW e \in Entry, \A f \in Range(s) : SameWrite(e, f) => f = e
  PROVE  /\ Recorded(s, e) \in Seq(Entry) /\ Range(Recorded(s, e)) = Range(s) \cup {e}
         /\ Len(Recorded(s, e)) >= Len(s)
<1>1. CASE \E f \in Range(s) : SameWrite(e, f)
  <2>1. Recorded(s, e) = s /\ e \in Range(s)
    BY <1>1 DEF Recorded
  <2> QED  BY <2>1
<1>2. CASE ~ \E f \in Range(s) : SameWrite(e, f)
  <2>1. Recorded(s, e) = Append(s, e)
    BY <1>2 DEF Recorded
  <2>2. /\ Append(s, e) \in Seq(Entry) /\ Len(s) \in Nat
        /\ DOMAIN Append(s, e) = 1..Len(s) + 1 /\ DOMAIN s = 1..Len(s)
        /\ Append(s, e)[Len(s) + 1] = e /\ \A i \in 1..Len(s) : Append(s, e)[i] = s[i]
        /\ Len(Append(s, e)) = Len(s) + 1
    OBVIOUS
  <2>3. Range(Append(s, e)) = Range(s) \cup {e}
    BY <2>2 DEF Range
  <2> QED  BY <2>1, <2>2, <2>3
<1> QED  BY <1>1, <1>2

LogsGrow ==
  /\ log' \in [Replica -> Seq(Entry)]
  /\ \A q \in Replica : Range(log[q]) \subseteq Range(log'[q]) /\ Len(log'[q]) >= Len(log[q])

LEMMA StoredIs ==
  ASSUME DataInv, NEW r \in Replica, NEW e \in written, Stored(r, e)
  PROVE  /\ LogsGrow /\ Range(log'[r]) = Range(log[r]) \cup {e}
         /\ \A q \in Replica \ {r} : log'[q] = log[q]
<1>1. e \in Entry /\ log[r] \in Seq(Entry) /\ log \in [Replica -> Seq(Entry)]
  BY DEF DataInv, DataTypes
<1>2. \A f \in Range(log[r]) : SameWrite(e, f) => f = e
  BY DEF DataInv, AllSettled, Settled, Stamps, SameWrite
<1>3. log' = [log EXCEPT ![r] = Recorded(log[r], e)]
  BY DEF Stored
<1>4. /\ Recorded(log[r], e) \in Seq(Entry) /\ Range(Recorded(log[r], e)) = Range(log[r]) \cup {e}
      /\ Len(Recorded(log[r], e)) >= Len(log[r])
  BY <1>1, <1>2, RecordedIs
<1>5. \A q \in Replica : Len(log[q]) \in Nat
  BY <1>1
<1>6. log' \in [Replica -> Seq(Entry)] /\ log'[r] = Recorded(log[r], e)
      /\ \A q \in Replica \ {r} : log'[q] = log[q]
  BY <1>1, <1>3, <1>4
<1>7. \A q \in Replica : Range(log[q]) \subseteq Range(log'[q]) /\ Len(log'[q]) >= Len(log[q])
  BY <1>4, <1>5, <1>6
<1> QED  BY <1>4, <1>6, <1>7 DEF LogsGrow

LEMMA SettledKept ==
  ASSUME DataInv, LogsGrow, written \subseteq written', NEW e, Settled(e)
  PROVE  Settled(e)'
<1>1. e \in written /\ e.id[1] \in Replica
  BY EntryTypes DEF DataInv, DataTypes, Settled
<1> QED  BY <1>1 DEF LogsGrow, Settled

LEMMA LogSameGrows == DataInv /\ UNCHANGED log => LogsGrow
<1> SUFFICES ASSUME DataInv, UNCHANGED log  PROVE LogsGrow
  OBVIOUS
<1>1. \A q \in Replica : Len(log[q]) \in Nat
  BY DEF DataInv, DataTypes
<1> QED  BY <1>1 DEF LogsGrow, DataInv, DataTypes

LEMMA ClockSameGrows == DataInv /\ UNCHANGED clock => ClocksGrow
BY DEF ClocksGrow, DataInv, DataTypes

SnapshotsKept ==
  UNCHANGED snapshots \/ (/\ snapshots' \in [Replica -> SUBSET [since : Nat, length : Nat]]
                          /\ \A r \in Replica : \A p \in snapshots'[r] : p.length <= Len(log[r]))

LateKept ==
  /\ lateEntries' \in SUBSET [to : Replica, entry : Entry]
  /\ \A m \in lateEntries' : Settled(m.entry)

WorkKept ==
  /\ work' \in [Syncer -> SUBSET Entry]
  /\ \A x \in Syncer : \A e \in work'[x] : Settled(e)

LEMMA LateSameKept == DataInv /\ lateEntries' \subseteq lateEntries => LateKept
BY DEF DataInv, DataTypes, AllSettled, LateKept

LEMMA WorkSameKept == DataInv /\ UNCHANGED work => WorkKept
BY DEF DataInv, DataTypes, AllSettled, WorkKept

\* A step that adds no write
LEMMA DataKept ==
  ASSUME TypeInv, TypeInv', DataInv, RequestsGrow, ClocksGrow, LogsGrow,
         UNCHANGED <<written, seq>>,
         \A y \in Writer :
           /\ pc'[y] \in BeforeStamp => pc[y] \in BeforeStamp
           /\ pc'[y] \in Stamped => pc[y] \in Stamped
           /\ pc'[y] = "replicate" => \A e \in written : e.id = Id(y) => Settled(e)',
         \A r \in Replica : \A e \in Range(log'[r]) : Settled(e)',
         SnapshotsKept, LateKept, WorkKept
  PROVE  DataInv'
<1>1. \A e : Settled(e) => Settled(e)'
  BY SettledKept
<1>2. \A r \in Replica : Len(log[r]) \in Nat /\ Len(log'[r]) \in Nat
  BY DEF DataInv, DataTypes, LogsGrow
<1>3. snapshots' \in [Replica -> SUBSET [since : Nat, length : Nat]]
  BY DEF DataInv, DataTypes, SnapshotsKept
<1>4. ASSUME NEW r \in Replica, NEW p \in snapshots'[r]  PROVE p.length <= Len(log'[r])
  <2>1. p.length \in Nat
    BY <1>3
  <2>2. p.length <= Len(log[r])
    BY DEF DataInv, DataTypes, SnapshotsKept
  <2>3. Len(log'[r]) >= Len(log[r])
    BY DEF LogsGrow
  <2> QED  BY <1>2, <2>1, <2>2, <2>3
<1>5. DataTypes'
  BY <1>3, <1>4 DEF DataInv, DataTypes, LogsGrow, ClocksGrow, LateKept, WorkKept
<1>6. \A y \in Writer : Id(y)' = Id(y)
  BY DEF Id
<1>7. AllSettled'
  BY <1>1, <1>6 DEF AllSettled, LateKept, WorkKept
<1> QED  BY <1>5, <1>7, StampsKept, FreshKept DEF DataInv

\* A step that only the lock takes, apart from clocks, snapshots, late calls and syncs
LEMMA QuietKept ==
  ASSUME TypeInv, TypeInv', DataInv, Quiet, ClocksGrow, UNCHANGED <<written, log>>,
         UNCHANGED seq, SnapshotsKept, LateKept, WorkKept
  PROVE  DataInv'
<1>1. LogsGrow
  BY LogSameGrows
<1>2. \A e : Settled(e) => Settled(e)'
  BY <1>1, SettledKept
<1>3. ASSUME NEW y \in Writer
      PROVE  /\ pc'[y] \in BeforeStamp => pc[y] \in BeforeStamp
             /\ pc'[y] \in Stamped => pc[y] \in Stamped
             /\ pc'[y] = "replicate" => \A e \in written : e.id = Id(y) => Settled(e)'
  BY <1>2 DEF Quiet, Keeps, Stamped, DataInv, AllSettled
<1>4. \A r \in Replica : \A e \in Range(log'[r]) : Settled(e)'
  BY <1>2 DEF DataInv, AllSettled
<1> QED  BY <1>1, <1>3, <1>4, DataKept DEF Quiet

\* An entry is stored that its origin has, or at its origin.
LEMMA StoredKept ==
  ASSUME TypeInv, TypeInv', DataInv, RequestsGrow, ClocksGrow, UNCHANGED <<written, seq>>,
         NEW r \in Replica, NEW e \in written, Stored(r, e), Settled(e) \/ e.id[1] = r,
         \A y \in Writer :
           /\ pc'[y] \in BeforeStamp => pc[y] \in BeforeStamp
           /\ pc'[y] \in Stamped => pc[y] \in Stamped
           /\ pc'[y] = "replicate" => pc[y] = "replicate" \/ (EntryOf(y) = e /\ pc[y] \in Stamped),
         SnapshotsKept, LateKept, WorkKept
  PROVE  DataInv'
<1>1. /\ LogsGrow /\ Range(log'[r]) = Range(log[r]) \cup {e}
      /\ \A q \in Replica \ {r} : log'[q] = log[q]
  BY StoredIs
<1>2. \A f : Settled(f) => Settled(f)'
  BY <1>1, SettledKept
<1>3. Settled(e)'
  BY <1>1, <1>2 DEF Settled
<1>4. \A q \in Replica : \A f \in Range(log'[q]) : Settled(f)'
  BY <1>1, <1>2, <1>3 DEF DataInv, AllSettled
<1>5. ASSUME NEW y \in Writer, pc'[y] = "replicate", NEW f \in written, f.id = Id(y)
      PROVE  Settled(f)'
  <2>1. CASE pc[y] = "replicate"
    BY <1>2, <1>5, <2>1 DEF DataInv, AllSettled
  <2>2. CASE EntryOf(y) = e /\ pc[y] \in Stamped
    BY <1>3, <1>5, <2>2, EntryOfIs
  <2> QED  BY <1>5, <2>1, <2>2
<1> QED  BY <1>1, <1>4, <1>5, DataKept

-----------------------------------------------------------------------------
(* One step of the cache.                                                   *)

\* The entries a sync starts with have an origin among the replicas.
LEMMA SinceSubset ==
  ASSUME NEW s \in Seq(Entry), NEW n, NEW k \in 0..Len(s)
  PROVE  Since(s, n, k) \subseteq Range(s)
BY DEF Since, Range

LEMMA BeginApplyIsSync ==
  ASSUME NEW x \in Syncer, NEW S \in SUBSET Entry, BeginApply(x, S)
  PROVE  Sync
<1>1. PICK e \in Oldest(S) : BeginSync(x, e.id[1])
  BY DEF BeginApply
<1>2. e.id[1] \in Replica
  BY EntryTypes DEF Oldest
<1> QED  BY <1>1, <1>2 DEF Sync

\* What a replay applies is in the replica's log.
LEMMA ReplayTakes ==
  ASSUME DataInv, NEW x \in Syncer, Replay(x)
  PROVE  \E S \in SUBSET Entry : S \subseteq Range(log[Home[x]]) /\ BeginApply(x, S)
<1> DEFINE s == log[Home[x]]
<1>1. Home[x] \in Replica /\ s \in Seq(Entry)
  BY ConstantFacts DEF DataInv, DataTypes
<1>2. PICK p \in snapshots[Home[x]] \cup {[since |-> 0, length |-> Len(s)]} :
        \E k \in 1..p.length : BeginApply(x, Since(s, p.since, k))
  BY DEF Replay
<1>3. PICK k \in 1..p.length : BeginApply(x, Since(s, p.since, k))
  BY <1>2
<1>4. p.length \in Nat /\ p.length <= Len(s) /\ Len(s) \in Nat
  BY <1>1 DEF DataInv, DataTypes
<1>5. k \in 0..Len(s)
  BY <1>4
<1>6. Since(s, p.since, k) \subseteq Range(s)
  BY <1>1, <1>5, SinceSubset
<1>7. Range(s) \subseteq Entry
  BY <1>1 DEF Range
<1> QED  BY <1>3, <1>6, <1>7

\* A step of the cache is a step of the lock, or leaves it alone.
LEMMA DataLeavesLock ==
  ASSUME DataInv, CacheNext
  PROVE  [SerialNext]_vars
<1>0. HandoffUndisturbed
  BY DEF CacheNext
<1>1. ASSUME NEW x \in Writer, WriteData(x)  PROVE Next
  <2>1. Write(x)
    BY <1>1 DEF WriteData, StampWrite, StartAt, StoreLocally, ReplicateTo, OtherWrite, Write
  <2> QED  BY <2>1 DEF Next
<1>2. ASSUME NEW x \in Thread, FailData(x)  PROVE Next
  BY <1>2 DEF FailData, FailEarly, FailToReplicate, FailElsewhere, Next
<1>3. ASSUME NEW m \in lateEntries, LateReplicate(m)  PROVE UNCHANGED vars
  BY <1>3 DEF LateReplicate
<1>4. ASSUME NEW c \in lateCalls, LateStartAt(c)  PROVE Next
  BY <1>4 DEF LateStartAt, Late, Next
<1>5. CASE OtherLate
  <2>1. Late
    BY <1>5 DEF OtherLate, Late
  <2> QED  BY <1>0, <2>1 DEF Next, SerialNext
<1>6. ASSUME NEW r \in Replica, Snapshot(r)  PROVE UNCHANGED vars
  BY <1>6 DEF Snapshot
<1>7. ASSUME NEW x \in Syncer, SyncData(x)  PROVE Next \/ UNCHANGED vars
  <2>1. CASE Replay(x)
    BY <2>1, ReplayTakes, BeginApplyIsSync DEF Next
  <2>2. CASE ApplyFetched(x)
    BY <2>2, BeginApplyIsSync DEF ApplyFetched, DataInv, DataTypes, Next
  <2>3. CASE EndApply(x)
    BY <2>3 DEF EndApply, Sync, Next
  <2>4. CASE \/ AskEntries(x) \/ EndFetch(x) \/ ApplyEntry(x)
             \/ \E q \in Replica : ExportEntries(x, q)
    BY <2>4 DEF AskEntries, EndFetch, ApplyEntry, ExportEntries
  <2> QED  BY <1>7, <2>1, <2>2, <2>3, <2>4 DEF SyncData
<1>8. CASE \/ \E x \in Thread : Pass(x)
           \/ \E x \in Thread, h \in Handler : Serve(x, h)
           \/ Read
  BY <1>0, <1>8 DEF Next, SerialNext
<1> QED  BY <1>0, <1>1, <1>2, <1>3, <1>4, <1>5, <1>6, <1>7, <1>8 DEF CacheNext, SerialNext

LEMMA SnapshotsSameKept == UNCHANGED snapshots => SnapshotsKept
BY DEF SnapshotsKept

\* The rest of the state stays as it is.
LEMMA StillKept ==
  ASSUME TypeInv, TypeInv', DataInv, Quiet, UNCHANGED <<seq, dataVars, work>>
  PROVE  DataInv'
<1>1. UNCHANGED <<written, log, clock, snapshots, lateEntries, work, seq>>
  BY DEF dataVars
<1> QED  BY <1>1, QuietKept, ClockSameGrows, SnapshotsSameKept, LateSameKept, WorkSameKept

\* A write that is stamped: its id is new, and its time is later than its replica's.
LEMMA StampKept ==
  ASSUME TypeInv, TypeInv', DataInv, NEW x \in Writer, NEW k \in Key, StampWrite(x, k)
  PROVE  DataInv'
<1> DEFINE r == Home[x]
           e == [key |-> k, id |-> Id(x), ts |-> clock[r] + 1]
<1>1. /\ RequestsGrow /\ UNCHANGED seq /\ \A y \in Writer \ {x} : Keeps(y)
      /\ pc'[x] \notin BeforeStamp /\ pc[x] = "begin" /\ pc'[x] # "replicate"
  BY StampedMoves DEF StampWrite
<1>2. /\ written' = written \cup {e} /\ clock' = [clock EXCEPT ![r] = @ + 1]
      /\ UNCHANGED <<log, snapshots, lateEntries, work>>
  BY DEF StampWrite, syncVars
<1>3. /\ Id(x) \in WriteId /\ Id(x)[1] = r /\ Id(x)[2] = seq[x] /\ r \in Replica
      /\ clock[r] \in Nat /\ clock \in [Replica -> Nat]
  BY IdType DEF DataInv, DataTypes
<1>4. e \in Entry /\ e.id = Id(x) /\ e.ts = clock[r] + 1
  BY <1>3 DEF Entry
<1>5. ClocksGrow /\ clock'[r] = clock[r] + 1
  BY <1>2, <1>3 DEF ClocksGrow
<1> HIDE DEF e
<1>6. \A f \in written : f.id # Id(x)
  BY <1>1 DEF DataInv, Fresh, BeforeStamp
<1>7. \A f \in written : f.id[1] = r => f.ts < e.ts
  BY <1>3, <1>4, EntryTypes DEF DataInv, DataTypes, Stamps
<1>8. ASSUME NEW f \in written'
      PROVE  f.ts <= clock'[f.id[1]] /\ f.id[2] <= requestNumbers'[f.id[1]][f.id[1]]
  <2>1. f \in Entry
    BY <1>2, <1>4 DEF DataInv, DataTypes
  <2>2. /\ f.id[1] \in Replica /\ f.id[2] \in Nat /\ f.ts \in Nat
    BY <2>1, EntryTypes
  <2>3. requestNumbers'[f.id[1]][f.id[1]] \in Nat /\ requestNumbers[f.id[1]][f.id[1]] \in Nat
    BY <2>2 DEF TypeInv, LockTypeOK, Grants
  <2>4. clock'[f.id[1]] >= clock[f.id[1]] /\ clock'[f.id[1]] \in Nat /\ clock[f.id[1]] \in Nat
    BY <1>3, <1>5, <2>2 DEF ClocksGrow
  <2>5. CASE f \in written
    <3>1. f.ts <= clock[f.id[1]] /\ f.id[2] <= requestNumbers[f.id[1]][f.id[1]]
      BY <2>5 DEF DataInv, Stamps
    <3>2. requestNumbers'[f.id[1]][f.id[1]] >= requestNumbers[f.id[1]][f.id[1]]
      BY <1>1, <2>2 DEF RequestsGrow
    <3> QED  BY <2>2, <2>3, <2>4, <3>1, <3>2
  <2>6. CASE f = e
    <3>1. f.ts = clock'[f.id[1]]
      BY <1>3, <1>4, <1>5, <2>6
    <3>2. seq[x] <= requestNumbers[r][r]
      BY <1>1 DEF DataInv, Fresh, BeforeStamp
    <3>3. f.id[2] = seq[x] /\ f.id[1] = r
      BY <1>3, <1>4, <2>6
    <3>4. requestNumbers'[r][r] >= requestNumbers[r][r]
      BY <1>1, <1>3 DEF RequestsGrow
    <3> HIDE DEF r
    <3> QED  BY <2>2, <2>3, <2>4, <3>1, <3>2, <3>3, <3>4
  <2> QED  BY <1>2, <2>5, <2>6
<1>9. Stamps'
  <2>1. \A f, g \in written' : f.id = g.id => f = g
    BY <1>2, <1>4, <1>6 DEF DataInv, Stamps
  <2>2. ASSUME NEW f \in written', NEW g \in written', f.id[1] = g.id[1], f.ts = g.ts
        PROVE  f = g
    <3>1. e.id[1] = r /\ e.ts \in Nat /\ \A d \in written : d.ts \in Nat
      BY <1>3, <1>4, EntryTypes DEF DataInv, DataTypes
    <3>2. CASE f \in written /\ g \in written
      BY <2>2, <3>2 DEF DataInv, Stamps
    <3>3. CASE f = e \/ g = e
      BY <1>2, <1>7, <2>2, <3>1, <3>3
    <3> QED  BY <1>2, <3>2, <3>3
  <2> QED  BY <1>8, <2>1, <2>2 DEF Stamps
<1>10. \A y \in Writer : Id(y)' = Id(y)
  BY <1>1 DEF Id
<1>11. Fresh'
  <2>1. ASSUME NEW y \in Writer, pc'[y] \in BeforeStamp
        PROVE  /\ y # x /\ pc[y] \in BeforeStamp
               /\ seq[y] <= requestNumbers'[Home[y]][Home[y]]
               /\ \A f \in written' : f.id # Id(y)
    <3>1. y # x /\ pc[y] \in BeforeStamp
      BY <1>1, <2>1 DEF Keeps
    <3>2. Home[y] \in Replica /\ seq[y] \in Nat /\ Id(y)[1] = Home[y] /\ Id(y)[2] = seq[y]
      BY IdType, ConstantFacts DEF TypeInv, ThreadInv, ThreadTypeOK
    <3>3. seq[y] <= requestNumbers[Home[y]][Home[y]] /\ \A f \in written : f.id # Id(y)
      BY <3>1 DEF DataInv, Fresh
    <3>4. /\ requestNumbers'[Home[y]][Home[y]] >= requestNumbers[Home[y]][Home[y]]
          /\ requestNumbers'[Home[y]][Home[y]] \in Nat /\ requestNumbers[Home[y]][Home[y]] \in Nat
      BY <1>1, <3>2 DEF RequestsGrow, TypeInv, LockTypeOK, Grants
    <3>5. Id(y) # Id(x)
      BY <1>1, <1>3, <3>1, <3>2 DEF DataInv, Fresh, BeforeStamp
    <3> QED  BY <1>2, <1>4, <3>1, <3>2, <3>3, <3>4, <3>5
  <2>2. \A y, z \in Writer :
          y # z /\ Home[y] = Home[z] /\ pc'[y] \in BeforeStamp /\ pc'[z] \in BeforeStamp
            => seq[y] # seq[z]
    BY <2>1 DEF DataInv, Fresh
  <2>3. \A y \in Writer : pc'[y] \in Stamped => \E f \in written' : f.id = Id(y)
    BY <1>1, <1>2, <1>4 DEF DataInv, Fresh, Keeps
  <2> QED  BY <1>1, <1>10, <2>1, <2>2, <2>3 DEF Fresh
<1>12. \A f : Settled(f) => Settled(f)'
  BY <1>2, SettledKept, LogSameGrows
<1>13. AllSettled'
  <2>1. ASSUME NEW y \in Writer, pc'[y] = "replicate", NEW f \in written', f.id = Id(y)
        PROVE  Settled(f)'
    <3>1. y # x /\ pc[y] = "replicate"
      BY <1>1, <2>1 DEF Keeps, Stamped
    <3>2. PICK g \in written : g.id = Id(y)
      BY <3>1 DEF DataInv, Fresh, Stamped
    <3>3. f = g
      BY <1>2, <1>9, <2>1, <3>2 DEF Stamps
    <3> QED  BY <1>12, <3>1, <3>2, <3>3 DEF DataInv, AllSettled
  <2> QED  BY <1>2, <1>10, <1>12, <2>1 DEF DataInv, AllSettled
<1>14. DataTypes'
  BY <1>2, <1>4, <1>5 DEF DataInv, DataTypes, ClocksGrow
<1> QED  BY <1>9, <1>11, <1>13, <1>14 DEF DataInv

LEMMA StartKept ==
  ASSUME TypeInv, TypeInv', DataInv, NEW x \in Writer, StartAt(x)
  PROVE  DataInv'
<1>1. /\ RequestsGrow /\ UNCHANGED seq /\ \A y \in Writer \ {x} : Keeps(y)
      /\ pc'[x] \notin BeforeStamp /\ pc[x] \in Stamped /\ pc'[x] # "replicate"
  <2>1. ~BeginWrite(x)
    BY DEF StartAt, ServeStart, BeginWrite, MayBegin
  <2> QED  BY <2>1, StampedMoves DEF StartAt
<1>2. UNCHANGED <<log, snapshots, written, lateEntries, work>>
  BY DEF StartAt, syncVars
<1>3. peer[x] \in Replica /\ EntryOf(x).ts \in Nat
  <2>1. EntryOf(x) \in Entry
    BY <1>1, EntryOfIs DEF DataInv, DataTypes
  <2>2. pc[x] = "start"
    BY DEF StartAt, ServeStart
  <2> QED  BY <2>1, <2>2, EntryTypes, ConstantFacts
       DEF TypeInv, ThreadInv, PeersNamed
<1>4. ClocksGrow
  BY <1>3, ClockMoves DEF StartAt, DataInv
<1>5. LogsGrow
  BY <1>2, LogSameGrows
<1>6. \A e : Settled(e) => Settled(e)'
  BY <1>2, <1>5, SettledKept
<1>7. ASSUME NEW y \in Writer
      PROVE  /\ pc'[y] \in BeforeStamp => pc[y] \in BeforeStamp
             /\ pc'[y] \in Stamped => pc[y] \in Stamped
             /\ pc'[y] = "replicate" => \A e \in written : e.id = Id(y) => Settled(e)'
  BY <1>1, <1>6 DEF Keeps, Stamped, DataInv, AllSettled
<1>8. \A r \in Replica : \A e \in Range(log'[r]) : Settled(e)'
  BY <1>2, <1>6 DEF DataInv, AllSettled
<1> QED  BY <1>1, <1>2, <1>4, <1>5, <1>7, <1>8, DataKept, SnapshotsSameKept, LateSameKept,
     WorkSameKept

LEMMA StoreLocallyKept ==
  ASSUME TypeInv, TypeInv', DataInv, NEW x \in Writer, StoreLocally(x)
  PROVE  DataInv'
<1>1. pc[x] = "apply"
  BY DEF StoreLocally, ApplyLocally
<1>2. /\ RequestsGrow /\ UNCHANGED seq /\ \A y \in Writer \ {x} : Keeps(y)
      /\ pc'[x] \notin BeforeStamp
  BY StampedMoves DEF StoreLocally
<1>3. UNCHANGED <<clock, snapshots, written, lateEntries, work>>
  BY DEF StoreLocally, syncVars
<1>4. EntryOf(x) \in written /\ EntryOf(x).id[1] = Home[x] /\ Home[x] \in Replica
  BY <1>1, EntryOfIs, IdType DEF Stamped
<1>5. Stored(Home[x], EntryOf(x))
  BY DEF StoreLocally
<1>6. \A y \in Writer :
           /\ pc'[y] \in BeforeStamp => pc[y] \in BeforeStamp
           /\ pc'[y] \in Stamped => pc[y] \in Stamped
           /\ pc'[y] = "replicate" =>
                pc[y] = "replicate" \/ (EntryOf(y) = EntryOf(x) /\ pc[y] \in Stamped)
  BY <1>1, <1>2 DEF Keeps, Stamped
<1> QED  BY <1>2, <1>3, <1>4, <1>5, <1>6, StoredKept, ClockSameGrows, SnapshotsSameKept,
     LateSameKept, WorkSameKept

LEMMA ReplicateKept ==
  ASSUME TypeInv, TypeInv', DataInv, NEW x \in Writer, ReplicateTo(x)
  PROVE  DataInv'
<1>1. pc[x] = "replicate"
  BY DEF ReplicateTo, ServeReplicate
<1>2. /\ RequestsGrow /\ UNCHANGED seq /\ \A y \in Writer \ {x} : Keeps(y)
      /\ pc'[x] \notin BeforeStamp
  BY StampedMoves DEF ReplicateTo
<1>3. UNCHANGED <<snapshots, written, lateEntries, work>>
  BY DEF ReplicateTo, syncVars
<1>4. EntryOf(x) \in written /\ Settled(EntryOf(x)) /\ EntryOf(x).ts \in Nat
  BY <1>1, EntryOfIs, EntryTypes DEF Stamped, DataInv, DataTypes, AllSettled
<1>5. peer[x] \in Replica
  BY <1>1, ConstantFacts DEF TypeInv, ThreadInv, PeersNamed
<1>6. Stored(peer[x], EntryOf(x))
  BY DEF ReplicateTo
<1>7. ClocksGrow
  BY <1>4, <1>5, ClockMoves DEF ReplicateTo, DataInv
<1>8. \A y \in Writer :
           /\ pc'[y] \in BeforeStamp => pc[y] \in BeforeStamp
           /\ pc'[y] \in Stamped => pc[y] \in Stamped
           /\ pc'[y] = "replicate" =>
                pc[y] = "replicate" \/ (EntryOf(y) = EntryOf(x) /\ pc[y] \in Stamped)
  BY <1>1, <1>2 DEF Keeps, Stamped
<1> QED  BY <1>2, <1>3, <1>4, <1>5, <1>6, <1>7, <1>8, StoredKept, SnapshotsSameKept,
     LateSameKept, WorkSameKept

LEMMA OpenKept ==
  ASSUME TypeInv, TypeInv', DataInv, NEW x \in Writer, OpenWrite(x), UNCHANGED <<dataVars, work>>
  PROVE  DataInv'
<1> DEFINE r == Home[x]
<1>1. /\ RequestsGrow /\ \A y \in Writer \ {x} : Keeps(y)
      /\ pc'[x] = "opened" /\ seq'[x] = requestNumbers[r][r] + 1
      /\ requestNumbers'[r][r] = seq'[x]
  BY OpenMoves
<1>2. UNCHANGED <<clock, log, snapshots, written, lateEntries, work>>
  BY DEF dataVars
<1>3. r \in Replica /\ requestNumbers[r][r] \in Nat
  <2>1. r \in Replica
    BY ConstantFacts
  <2> QED  BY <2>1 DEF TypeInv, LockTypeOK, Grants
<1>4. \A f \in written : f.id[2] \in Nat /\ (f.id[1] = r => f.id[2] <= requestNumbers[r][r])
  BY EntryTypes DEF DataInv, DataTypes, Stamps
<1>5. Stamps'
  BY <1>1, <1>2, StampsKept, ClockSameGrows
<1>6. \A y \in Writer : Id(y)' = <<Home[y], seq'[y]>>
  BY DEF Id
<1>7. ASSUME NEW y \in Writer \ {x}, pc'[y] \in BeforeStamp
      PROVE  /\ seq'[y] = seq[y] /\ pc[y] \in BeforeStamp
             /\ seq[y] <= requestNumbers'[Home[y]][Home[y]]
             /\ Home[y] = r => seq[y] # seq'[x]
             /\ \A f \in written : f.id # Id(y)
  <2>1. seq'[y] = seq[y] /\ pc[y] \in BeforeStamp
    BY <1>1, <1>7 DEF Keeps
  <2>2. Home[y] \in Replica /\ seq[y] \in Nat
    BY ConstantFacts DEF TypeInv, ThreadInv, ThreadTypeOK
  <2>3. seq[y] <= requestNumbers[Home[y]][Home[y]] /\ \A f \in written : f.id # Id(y)
    BY <2>1 DEF DataInv, Fresh
  <2>4. /\ requestNumbers'[Home[y]][Home[y]] >= requestNumbers[Home[y]][Home[y]]
        /\ requestNumbers'[Home[y]][Home[y]] \in Nat /\ requestNumbers[Home[y]][Home[y]] \in Nat
    BY <1>1, <2>2 DEF RequestsGrow, TypeInv, LockTypeOK, Grants
  <2> QED  BY <1>1, <1>3, <2>1, <2>2, <2>3, <2>4
<1>8. \A f \in written : f.id # <<r, seq'[x]>>
  BY <1>1, <1>3, <1>4
<1>9. Fresh'
  <2>1. \A y \in Writer : pc'[y] \in BeforeStamp =>
          /\ seq'[y] <= requestNumbers'[Home[y]][Home[y]]
          /\ \A f \in written' : f.id # Id(y)'
    <3>1. ASSUME NEW y \in Writer \ {x}, pc'[y] \in BeforeStamp
          PROVE  /\ seq'[y] <= requestNumbers'[Home[y]][Home[y]]
                 /\ \A f \in written' : f.id # Id(y)'
      BY <1>2, <1>7, <3>1 DEF Id
    <3>2. seq'[x] <= requestNumbers'[r][r] /\ \A f \in written' : f.id # Id(x)'
      BY <1>1, <1>2, <1>3, <1>6, <1>8
    <3> QED  BY <3>1, <3>2
  <2>2. \A y, z \in Writer :
          y # z /\ Home[y] = Home[z] /\ pc'[y] \in BeforeStamp /\ pc'[z] \in BeforeStamp
            => seq'[y] # seq'[z]
    BY <1>7 DEF DataInv, Fresh
  <2>3. ASSUME NEW y \in Writer, pc'[y] \in Stamped  PROVE \E f \in written' : f.id = Id(y)'
    <3>1. y # x
      BY <1>1, <2>3 DEF Stamped
    <3>2. pc[y] \in Stamped /\ seq'[y] = seq[y]
      BY <1>1, <2>3, <3>1 DEF Keeps
    <3> QED  BY <1>2, <3>2 DEF DataInv, Fresh, Id
  <2> QED  BY <2>1, <2>2, <2>3 DEF Fresh
<1>10. \A f : Settled(f) => Settled(f)'
  BY <1>2 DEF Settled
<1>11. ASSUME NEW y \in Writer, pc'[y] = "replicate", NEW f \in written, f.id = Id(y)'
       PROVE  Settled(f)'
  <2>1. y # x
    BY <1>1, <1>11
  <2>2. pc[y] = "replicate" /\ Id(y)' = Id(y)
    BY <1>1, <1>11, <2>1 DEF Keeps, Stamped, Id
  <2> QED  BY <1>10, <1>11, <2>2 DEF DataInv, AllSettled
<1>12. AllSettled'
  BY <1>2, <1>10, <1>11 DEF DataInv, AllSettled
<1>13. DataTypes'
  BY <1>2 DEF DataInv, DataTypes
<1> QED  BY <1>5, <1>9, <1>12, <1>13 DEF DataInv

LEMMA OtherWriteKept ==
  ASSUME TypeInv, TypeInv', DataInv, NEW x \in Writer, OtherWrite(x)
  PROVE  DataInv'
<1>1. UNCHANGED dataVars /\ UNCHANGED work
  BY DEF OtherWrite, syncVars
<1>2. CASE OpenWrite(x)
  BY <1>1, <1>2, OpenKept
<1>3. CASE \/ DecideBroadcast(x) \/ ServeFinish(x)
           \/ FinishWrite(x) \/ FinishWithoutToken(x) \/ AbortWrite(x)
  <2>1. UNCHANGED seq
    BY <1>3 DEF DecideBroadcast, ServeFinish, Advance, FinishWrite, FinishWithoutToken,
       AbortWrite, Step
  <2> QED  BY <1>1, <1>3, <2>1, OtherWriteQuiet, StillKept
<1>4. ~ (BeginWrite(x) \/ ServeStart(x) \/ ApplyLocally(x) \/ ServeReplicate(x))
  BY DEF OtherWrite, BeginWrite, MayBegin, ServeStart, ApplyLocally, ServeReplicate
<1> QED  BY <1>2, <1>3, <1>4 DEF OtherWrite, Write

LEMMA FailUnchanged == \A x \in Thread : Fail(x) => UNCHANGED seq
BY DEF Fail, RequestFails, StartFails, ApplyFails, FinishFails, TransferFails, Advance, EndPass

LEMMA FailKept ==
  ASSUME TypeInv, TypeInv', DataInv, NEW x \in Thread, FailData(x)
  PROVE  DataInv'
<1>1. Fail(x)
  BY DEF FailData, FailEarly, FailToReplicate, FailElsewhere
<1>2. Quiet /\ UNCHANGED seq
  BY <1>1, FailQuiet, FailUnchanged
<1>3. UNCHANGED <<clock, log, snapshots, written, work>>
  BY DEF FailData, FailEarly, FailToReplicate, FailElsewhere, dataVars, syncVars
<1>4. LateKept
  <2>1. CASE UNCHANGED lateEntries
    BY <2>1, LateSameKept
  <2>2. CASE FailToReplicate(x) /\ lateEntries' = lateEntries \cup {[to |-> peer[x], entry |-> EntryOf(x)]}
    <3>1. x \in Writer /\ pc[x] = "replicate" /\ peer[x] \in Replica
      BY <2>2, ConstantFacts DEF FailToReplicate, TypeInv, ThreadInv, ThreadTypeOK, PeersNamed
    <3>2. EntryOf(x) \in Entry /\ Settled(EntryOf(x))
      BY <3>1, EntryOfIs DEF Stamped, DataInv, DataTypes, AllSettled
    <3> QED  BY <2>2, <3>1, <3>2 DEF DataInv, DataTypes, AllSettled, LateKept
  <2> QED  BY <2>1, <2>2 DEF FailData, FailEarly, FailToReplicate, FailElsewhere, dataVars
<1> QED  BY <1>2, <1>3, <1>4, QuietKept, ClockSameGrows, SnapshotsSameKept, WorkSameKept

LEMMA LateReplicateKept ==
  ASSUME TypeInv, TypeInv', DataInv, NEW m \in lateEntries, LateReplicate(m)
  PROVE  DataInv'
<1>1. m.to \in Replica /\ m.entry \in written /\ Settled(m.entry) /\ m.entry.ts \in Nat
  BY EntryTypes DEF DataInv, DataTypes, AllSettled, Settled
<1>2. UNCHANGED <<lockVars, threadVars>> /\ UNCHANGED <<snapshots, written, work, seq, pc>>
  BY DEF LateReplicate, syncVars, vars, threadVars
<1>3. RequestsGrow
  BY <1>2, StillQuiet DEF Quiet
<1>4. ClocksGrow
  BY <1>1, ClockMoves DEF LateReplicate, DataInv
<1>5. lateEntries' \subseteq lateEntries /\ Stored(m.to, m.entry)
  BY DEF LateReplicate
<1>6. SnapshotsKept /\ LateKept /\ WorkKept
  BY <1>2, <1>5, SnapshotsSameKept, LateSameKept, WorkSameKept
<1>7. \A y \in Writer :
        /\ pc'[y] \in BeforeStamp => pc[y] \in BeforeStamp
        /\ pc'[y] \in Stamped => pc[y] \in Stamped
        /\ pc'[y] = "replicate" =>
             pc[y] = "replicate" \/ (EntryOf(y) = m.entry /\ pc[y] \in Stamped)
  <2>1. pc' = pc
    BY <1>2
  <2> QED  BY <2>1
<1>8. UNCHANGED <<written, seq>>
  BY <1>2
<1> QED  BY <1>1, <1>3, <1>4, <1>5, <1>6, <1>7, <1>8, StoredKept

LEMMA LateCallKept ==
  ASSUME TypeInv, TypeInv', DataInv, OtherLate \/ \E c \in lateCalls : LateStartAt(c)
  PROVE  DataInv'
<1>1. Late
  BY DEF OtherLate, LateStartAt, Late
<1>2. UNCHANGED <<log, snapshots, written, lateEntries, work>>
  BY DEF OtherLate, LateStartAt, dataVars, syncVars
<1>3. UNCHANGED seq
  BY <1>1 DEF Late, LateStart, LateFinish, LateRequest, LateTransfer, threadVars
<1>4. ClocksGrow
  <2>1. CASE OtherLate
    BY <2>1, ClockSameGrows DEF OtherLate, dataVars
  <2>2. ASSUME NEW c \in lateCalls, LateStartAt(c)  PROVE ClocksGrow
    <3>1. PICK e \in written : clock' = [clock EXCEPT ![c.to] = Updated(@, e.ts) + 1]
      BY <2>2 DEF LateStartAt
    <3>2. c.to \in Replica /\ e.ts \in Nat
      BY EntryTypes DEF TypeInv, NetTypeOK, Call, DataInv, DataTypes
    <3> QED  BY <3>1, <3>2, ClockMoves DEF DataInv
  <2> QED  BY <2>1, <2>2
<1> QED  BY <1>1, <1>2, <1>3, <1>4, LateQuiet, QuietKept, SnapshotsSameKept, LateSameKept,
     WorkSameKept

LEMMA SnapshotKept ==
  ASSUME TypeInv, TypeInv', DataInv, NEW r \in Replica, Snapshot(r)
  PROVE  DataInv'
<1>1. /\ UNCHANGED <<lockVars, threadVars>> /\ UNCHANGED seq
      /\ UNCHANGED <<clock, log, written, lateEntries, work>>
  BY DEF Snapshot, syncVars, vars, threadVars
<1>2. PICK n \in {0} \cup {e.ts : e \in Range(log[r])} :
        snapshots' = [snapshots EXCEPT ![r] = @ \cup {[since |-> n, length |-> Len(log[r])]}]
  BY DEF Snapshot
<1>3. n \in Nat /\ Len(log[r]) \in Nat
  BY EntryTypes DEF DataInv, DataTypes, Range
<1>4. SnapshotsKept
  <2> DEFINE p == [since |-> n, length |-> Len(log[r])]
  <2>1. p \in [since : Nat, length : Nat] /\ p.length <= Len(log[r])
    BY <1>3
  <2>2. snapshots' = [snapshots EXCEPT ![r] = snapshots[r] \cup {p}]
    BY <1>2
  <2> HIDE DEF p
  <2>3. snapshots' \in [Replica -> SUBSET [since : Nat, length : Nat]]
    BY <2>1, <2>2 DEF DataInv, DataTypes
  <2>4. \A q \in Replica : \A s \in snapshots'[q] : s.length <= Len(log[q])
    BY <2>1, <2>2 DEF DataInv, DataTypes
  <2> QED  BY <2>3, <2>4 DEF SnapshotsKept
<1> QED  BY <1>1, <1>4, StillQuiet, QuietKept, ClockSameGrows, LateSameKept, WorkSameKept

\* The entries of a log that a sync takes have settled.
LEMMA TakenKept ==
  ASSUME DataInv, NEW x \in Syncer, NEW S, work' = [work EXCEPT ![x] = S],
         \/ \E q \in Replica : S \subseteq Range(log[q])
         \/ S \subseteq work[x]
  PROVE  WorkKept
<1>1. S \subseteq Entry /\ \A e \in S : Settled(e)
  BY DEF DataInv, DataTypes, AllSettled, Settled
<1> QED  BY <1>1 DEF DataInv, DataTypes, AllSettled, WorkKept

LEMMA BeginApplyKept ==
  ASSUME TypeInv, TypeInv', DataInv, NEW x \in Syncer, NEW S, BeginApply(x, S),
         UNCHANGED dataVars,
         \/ \E q \in Replica : S \subseteq Range(log[q])
         \/ S \subseteq work[x]
  PROVE  DataInv'
<1>1. UNCHANGED <<clock, log, snapshots, written, lateEntries>>
  BY DEF dataVars
<1>2. WorkKept
  BY TakenKept DEF BeginApply
<1>3. Quiet /\ UNCHANGED seq
  BY SyncQuiet DEF BeginApply, BeginSync
<1> QED  BY <1>1, <1>2, <1>3, QuietKept, ClockSameGrows, SnapshotsSameKept, LateSameKept

LEMMA SyncKept ==
  ASSUME TypeInv, TypeInv', DataInv, NEW x \in Syncer, SyncData(x)
  PROVE  DataInv'
<1>0. Home[x] \in Replica
  BY ConstantFacts
<1>1. CASE Replay(x)
  <2>1. UNCHANGED dataVars
    BY <1>1 DEF Replay
  <2> QED  BY <1>0, <1>1, <2>1, ReplayTakes, BeginApplyKept
<1>2. CASE ApplyFetched(x)
  <2>1. UNCHANGED dataVars /\ BeginApply(x, work[x])
    BY <1>2 DEF ApplyFetched
  <2> QED  BY <2>1, BeginApplyKept
<1>3. CASE AskEntries(x) \/ EndFetch(x)
  <2>1. UNCHANGED <<lockVars, threadVars>> /\ UNCHANGED <<seq, dataVars, work>>
    BY <1>3 DEF AskEntries, EndFetch, vars, threadVars
  <2> QED  BY <2>1, StillQuiet, StillKept
<1>4. ASSUME NEW q \in Replica, ExportEntries(x, q)  PROVE DataInv'
  <2>1. /\ UNCHANGED <<lockVars, threadVars>> /\ UNCHANGED seq
        /\ UNCHANGED <<clock, log, snapshots, written, lateEntries>>
    BY <1>4 DEF ExportEntries, vars, threadVars, dataVars
  <2>2. Since(log[q], fetch[x].since, Len(log[q])) \subseteq Range(log[q])
    <3>1. log[q] \in Seq(Entry) /\ Len(log[q]) \in 0..Len(log[q])
      BY DEF DataInv, DataTypes
    <3> QED  BY <3>1, SinceSubset
  <2>3. WorkKept
    BY <1>4, <2>2, TakenKept DEF ExportEntries
  <2> QED  BY <2>1, <2>3, StillQuiet, QuietKept, ClockSameGrows, SnapshotsSameKept, LateSameKept
<1>5. CASE ApplyEntry(x)
  <2>1. /\ UNCHANGED <<lockVars, threadVars>> /\ UNCHANGED <<seq, pc>>
        /\ UNCHANGED <<snapshots, written, lateEntries>>
    BY <1>5 DEF ApplyEntry, vars, threadVars
  <2>2. PICK e \in Oldest(work[x]) :
          /\ clock' = [clock EXCEPT ![Home[x]] = Updated(@, e.ts)]
          /\ Stored(Home[x], e) /\ work' = [work EXCEPT ![x] = @ \ {e}]
    BY <1>5 DEF ApplyEntry
  <2>3. e \in written /\ Settled(e) /\ e.ts \in Nat
    BY EntryTypes DEF Oldest, DataInv, DataTypes, AllSettled, Settled
  <2>4. ClocksGrow
    BY <1>0, <2>2, <2>3, ClockMoves DEF DataInv
  <2>5. WorkKept
    BY <2>2, TakenKept
  <2>6. RequestsGrow
    BY <2>1, StillQuiet DEF Quiet
  <2>7. SnapshotsKept /\ LateKept
    BY <2>1, SnapshotsSameKept, LateSameKept
  <2>8. \A y \in Writer :
          /\ pc'[y] \in BeforeStamp => pc[y] \in BeforeStamp
          /\ pc'[y] \in Stamped => pc[y] \in Stamped
          /\ pc'[y] = "replicate" =>
               pc[y] = "replicate" \/ (EntryOf(y) = e /\ pc[y] \in Stamped)
    <3>1. pc' = pc
      BY <2>1
    <3> QED  BY <3>1
  <2>9. UNCHANGED <<written, seq>> /\ Stored(Home[x], e)
    BY <2>1, <2>2
  <2> QED  BY <1>0, <2>3, <2>4, <2>5, <2>6, <2>7, <2>8, <2>9, StoredKept
<1>6. CASE EndApply(x)
  <2>1. UNCHANGED <<seq, dataVars, work>> /\ EndSync(x)
    BY <1>6 DEF EndApply, EndSync
  <2> QED  BY <2>1, SyncQuiet, StillKept
<1> QED  BY <1>1, <1>2, <1>3, <1>4, <1>5, <1>6 DEF SyncData

LEMMA LockOnlyKept ==
  ASSUME TypeInv, TypeInv', DataInv, UNCHANGED <<dataVars, syncVars>>,
         \/ \E x \in Thread : Pass(x)
         \/ \E x \in Thread, h \in Handler : Serve(x, h)
         \/ Read
  PROVE  DataInv'
<1>1. UNCHANGED <<dataVars, work>>
  BY DEF syncVars
<1>2. ASSUME NEW x \in Thread, Pass(x)  PROVE Quiet /\ UNCHANGED seq
  BY <1>2, PassQuiet DEF Pass, PassCheck, NextNobody, NextRecipient, Export,
     ExportWithoutToken, MarkSent, Send, SendNothing, ClearPending, GiveUpSend, Step, EndPass
<1>3. ASSUME NEW x \in Thread, NEW h \in Handler, Serve(x, h)  PROVE Quiet /\ UNCHANGED seq
  BY <1>3, ServeQuiet DEF Serve, ServeRequest, ServeTransfer
<1>4. CASE Read
  <2>1. UNCHANGED <<lockVars, threadVars>> /\ UNCHANGED seq
    BY <1>4 DEF Read, AcquireRead, ReleaseRead, threadVars
  <2> QED  BY <1>1, <2>1, StillQuiet, StillKept
<1> QED  BY <1>1, <1>2, <1>3, <1>4, StillKept

LEMMA DataStep == TypeInv /\ TypeInv' /\ DataInv /\ [CacheNext]_cacheVars => DataInv'
<1> SUFFICES ASSUME TypeInv, TypeInv', DataInv, [CacheNext]_cacheVars  PROVE DataInv'
  OBVIOUS
<1>1. ASSUME NEW x \in Writer, WriteData(x)  PROVE DataInv'
  BY <1>1, StampKept, StartKept, StoreLocallyKept, ReplicateKept, OtherWriteKept DEF WriteData
<1>2. CASE CacheNext
  BY <1>1, <1>2, FailKept, LateReplicateKept, LateCallKept, SnapshotKept, SyncKept, LockOnlyKept
  DEF CacheNext
<1>3. CASE UNCHANGED cacheVars
  <2>1. UNCHANGED <<lockVars, threadVars>> /\ UNCHANGED <<seq, dataVars, work>>
    BY <1>3 DEF cacheVars, vars, threadVars, syncVars
  <2> QED  BY <2>1, StillQuiet, StillKept
<1> QED  BY <1>2, <1>3

LEMMA DataInit == CacheInit => DataInv
<1> SUFFICES ASSUME CacheInit  PROVE DataInv
  OBVIOUS
<1>1. \A r \in Replica : Range(log[r]) = {} /\ Len(log[r]) = 0
  BY DEF CacheInit, Range
<1>2. DataTypes
  BY <1>1 DEF CacheInit, DataTypes
<1>3. \A x \in Writer : pc[x] = "idle"
  BY ConstantFacts DEF CacheInit, Init
<1>4. Stamps /\ Fresh
  BY <1>3 DEF CacheInit, Stamps, Fresh, BeforeStamp, Stamped
<1>5. AllSettled
  BY <1>1, <1>3 DEF CacheInit, AllSettled
<1> QED  BY <1>2, <1>4, <1>5 DEF DataInv

-----------------------------------------------------------------------------
(* The theorems.                                                            *)

\* Entries, snapshots, replays and syncs leave the lock as it is: whatever the
\* replicas store (StateSyncService, _append_if_new, apply_replicated_write),
\* the coordinators go through a behaviour of the lock.
THEOREM CacheFollowsLock == CacheSpec => SerialSpec
<1>1. DataInv /\ CacheNext => [SerialNext]_vars
  BY DataLeavesLock
<1>2. DataInv /\ [CacheNext]_cacheVars => [SerialNext]_vars
  BY <1>1 DEF cacheVars
<1>3. CacheInit => Init
  BY DEF CacheInit
<1>4. Init => TypeInv
  BY TypeInit
<1>5. TypeInv /\ [SerialNext]_vars => TypeInv'
  BY TypeStep, SerialIsNext
<1>6. TypeInv /\ DataInv /\ [CacheNext]_cacheVars => TypeInv' /\ DataInv'
  BY <1>2, <1>5, DataStep
<1>7. CacheInit => DataInv
  BY DataInit
<1> QED  BY <1>2, <1>3, <1>4, <1>6, <1>7, PTL DEF CacheSpec, SerialSpec

\* The replica a write was made at has its entry before any other (write_cache
\* applies the entry locally and only then calls replicate_write), and no replay,
\* late call or sync brings an entry to a replica that its origin does not have.
THEOREM OriginsLead == CacheSpec => []OriginHasEntry
<1>1. CacheInit => TypeInv /\ DataInv
  BY TypeInit, DataInit DEF CacheInit
<1>2. TypeInv /\ DataInv /\ [CacheNext]_cacheVars => TypeInv' /\ DataInv'
  <2>1. DataInv /\ [CacheNext]_cacheVars => [SerialNext]_vars
    BY DataLeavesLock DEF cacheVars
  <2> QED  BY <2>1, TypeStep, SerialIsNext, DataStep
<1>3. DataInv => OriginHasEntry
  BY OriginFromInv
<1> QED  BY <1>1, <1>2, <1>3, PTL DEF CacheSpec

\* The write guard of two replicas is never held at once while entries are stored
\* and synced (begin_local_write waits for the token).
THEOREM CacheMutexHolds == CacheSpec => []MutualExclusion
BY CacheFollowsLock, MutexHolds, PTL

\* The cache's writes are critical sections of the abstract mutex.
THEOREM CacheRefinesMutex == CacheSpec => ImplementsMutex
BY CacheFollowsLock, CoordinationRefinesMutex, PTL

-----------------------------------------------------------------------------
(* Answers: the invariant.                                                  *)

UnderWay == BeforeStamp \cup Stamped

\* An id that was answered is of an earlier request than any still to come.
AnswerTypes ==
  /\ answers \in SUBSET Answer
  /\ \A a \in answers : a.id[2] <= requestNumbers[a.id[1]][a.id[1]]

\* A write under way has an id of its own, and has not been answered.
Unanswered ==
  /\ \A x \in Writer : pc[x] \in UnderWay =>
       /\ seq[x] <= requestNumbers[Home[x]][Home[x]]
       /\ \A a \in answers : a.id # Id(x)
  /\ \A x, y \in Writer :
       x # y /\ Home[x] = Home[y] /\ pc[x] \in UnderWay /\ pc[y] \in UnderWay => seq[x] # seq[y]

\* How far the entry of a write has come.
Reached ==
  /\ \A x \in Writer : pc[x] \in {"start", "apply"} =>
       \A e \in written : e.id = Id(x) => ~Settled(e)
  /\ \A x \in Writer : pc[x] = "replicate" =>
       \A e \in written : e.id = Id(x) =>
         \A r \in Replica : r = Home[x] \/ r < peer[x] => e \in Range(log[r])

Truth ==
  \A a \in answers : \A e \in written : e.id = a.id =>
    /\ a.status = "ok" => \A r \in Replica : e \in Range(log[r])
    /\ a.status = "unavailable" => ~Settled(e)

AnswerInv == AnswerTypes /\ Unanswered /\ Reached /\ Truth

LEMMA AnswersFromInv == DataInv /\ AnswerInv => AnswersTrue
<1> SUFFICES ASSUME DataInv, AnswerInv  PROVE AnswersTrue
  OBVIOUS
<1>1. ASSUME NEW e \in With("ok"), NEW r \in Replica  PROVE e \in Range(log[r])
  BY DEF With, AnswerInv, Truth
<1>2. ASSUME NEW e \in With("unavailable"), e \in Logged  PROVE FALSE
  <2>1. ~Settled(e)
    BY DEF With, AnswerInv, Truth
  <2>2. Settled(e)
    BY <1>2 DEF Logged, DataInv, AllSettled
  <2> QED  BY <2>1, <2>2
<1> QED  BY <1>1, <1>2 DEF AnswersTrue

-----------------------------------------------------------------------------
(* How a step keeps it.                                                     *)

\* The replicas before the next peer are the writer's own, and those before this one.
LEMMA NextPeerIs ==
  ASSUME NEW h \in Replica, NEW q \in 0..N, NEW r \in Replica,
         NextPeer(h, q) = 0 \/ r < NextPeer(h, q)
  PROVE  r = h \/ r <= q
<1>1. N \in Nat /\ h \in 1..N /\ r \in 1..N
  BY ConstantFacts DEF Replica
<1>2. CASE q + 1 = h
  BY <1>1, <1>2 DEF NextPeer
<1>3. CASE q + 1 # h
  BY <1>1, <1>3 DEF NextPeer
<1> QED  BY <1>2, <1>3

LEMMA NumbersGrow ==
  ASSUME TypeInv, TypeInv', RequestsGrow, NEW r \in Replica, NEW n \in Nat,
         n <= requestNumbers[r][r]
  PROVE  n <= requestNumbers'[r][r]
<1>1. requestNumbers'[r][r] \in Nat /\ requestNumbers[r][r] \in Nat
  BY DEF TypeInv, LockTypeOK, Grants
<1>2. requestNumbers'[r][r] >= requestNumbers[r][r]
  BY DEF RequestsGrow
<1> QED  BY <1>1, <1>2

LEMMA AnswerTypesKept ==
  ASSUME TypeInv, TypeInv', AnswerInv, RequestsGrow, NEW A \in SUBSET Answer,
         answers' = answers \cup A,
         \A a \in A : a.id[2] <= requestNumbers[a.id[1]][a.id[1]]
  PROVE  AnswerTypes'
<1>1. \A a \in answers' : a \in Answer /\ a.id[2] <= requestNumbers[a.id[1]][a.id[1]]
  BY DEF AnswerInv, AnswerTypes
<1>2. \A a \in answers' : a.id[1] \in Replica /\ a.id[2] \in Nat
  BY <1>1 DEF Answer, WriteId
<1> QED  BY <1>1, <1>2, NumbersGrow DEF AnswerTypes

\* The answers that are added are not those of the writes that go on.
LEMMA UnansweredKept ==
  ASSUME TypeInv, TypeInv', AnswerInv, RequestsGrow, UNCHANGED seq,
         \A y \in Writer : pc'[y] \in UnderWay =>
           pc[y] \in UnderWay /\ \A a \in answers' : a \in answers \/ a.id # Id(y)
  PROVE  Unanswered'
<1>1. \A y \in Writer : Id(y)' = Id(y)
  BY DEF Id
<1>2. ASSUME NEW y \in Writer, pc'[y] \in UnderWay
      PROVE  seq[y] <= requestNumbers'[Home[y]][Home[y]]
  <2>1. Home[y] \in Replica /\ seq[y] \in Nat
    BY ConstantFacts DEF TypeInv, ThreadInv, ThreadTypeOK
  <2>2. seq[y] <= requestNumbers[Home[y]][Home[y]]
    BY <1>2 DEF AnswerInv, Unanswered
  <2> QED  BY <2>1, <2>2, NumbersGrow
<1>3. \A y \in Writer : pc'[y] \in UnderWay => \A a \in answers' : a.id # Id(y)'
  BY <1>1 DEF AnswerInv, Unanswered
<1>4. \A x, y \in Writer :
        x # y /\ Home[x] = Home[y] /\ pc'[x] \in UnderWay /\ pc'[y] \in UnderWay => seq'[x] # seq'[y]
  BY DEF AnswerInv, Unanswered
<1> QED  BY <1>2, <1>3, <1>4 DEF Unanswered

LEMMA LogsFacts ==
  ASSUME DataInv, LogsGrow, NEW e \in written, \A r \in Replica : e \in Range(log[r])
  PROVE  \A r \in Replica : e \in Range(log'[r])
BY DEF LogsGrow

\* No entry settles in the step.
NoneSettles == \A e \in written : Settled(e)' => Settled(e)

LEMMA KeptLive ==
  ASSUME NEW y \in Writer, Keeps(y)
  PROVE  /\ pc'[y] \in UnderWay => pc[y] \in UnderWay
         /\ pc'[y] \in {"start", "apply"} => pc[y] = pc'[y]
         /\ pc'[y] = "replicate" => pc[y] = "replicate" /\ peer'[y] = peer[y]
BY DEF Keeps, UnderWay, BeforeStamp, Stamped

\* What a step has to show of each write under way
ReachedStill(y) ==
  /\ pc'[y] \in {"start", "apply"} => pc[y] \in {"start", "apply"}
  /\ pc'[y] = "replicate" => pc[y] = "replicate" /\ peer'[y] = peer[y]

LEMMA ReachedStep ==
  ASSUME DataInv, AnswerInv, LogsGrow, UNCHANGED <<written, seq>>, NEW y \in Writer,
         ReachedStill(y), \A e \in written : e.id = Id(y) /\ Settled(e)' => Settled(e),
         NEW e \in written, e.id = Id(y)
  PROVE  /\ pc'[y] \in {"start", "apply"} => ~Settled(e)'
         /\ pc'[y] = "replicate" =>
              \A r \in Replica : r = Home[y] \/ r < peer'[y] => e \in Range(log'[r])
<1>1. CASE pc'[y] \in {"start", "apply"}
  BY <1>1 DEF AnswerInv, Reached, ReachedStill
<1>2. CASE pc'[y] = "replicate"
  BY <1>2 DEF AnswerInv, Reached, ReachedStill, LogsGrow
<1> QED  BY <1>1, <1>2

LEMMA ReachedKept ==
  ASSUME DataInv, AnswerInv, LogsGrow, UNCHANGED <<written, seq>>, NoneSettles,
         \A y \in Writer : ReachedStill(y)
  PROVE  Reached'
<1>1. \A y \in Writer : Id(y)' = Id(y)
  BY DEF Id
<1>2. ASSUME NEW y \in Writer, NEW e \in written, e.id = Id(y)
      PROVE  /\ pc'[y] \in {"start", "apply"} => ~Settled(e)'
             /\ pc'[y] = "replicate" =>
                  \A r \in Replica : r = Home[y] \/ r < peer'[y] => e \in Range(log'[r])
  BY <1>2, ReachedStep DEF NoneSettles
<1> QED  BY <1>1, <1>2 DEF Reached

LEMMA TruthKept ==
  ASSUME DataInv, AnswerInv, LogsGrow, UNCHANGED <<written, answers>>, NoneSettles
  PROVE  Truth'
BY DEF AnswerInv, Truth, NoneSettles, LogsGrow

\* A step that gives no answer and in which no entry reaches a log first
LEMMA AnswersKept ==
  ASSUME TypeInv, TypeInv', DataInv, AnswerInv, RequestsGrow, LogsGrow, NoneSettles,
         UNCHANGED <<written, seq, answers>>,
         \A y \in Writer : (pc'[y] \in UnderWay => pc[y] \in UnderWay) /\ ReachedStill(y)
  PROVE  AnswerInv'
<1>1. AnswerTypes'
  <2>1. answers' = answers \cup {} /\ {} \in SUBSET Answer
    OBVIOUS
  <2> QED  BY <2>1, AnswerTypesKept
<1>2. Unanswered'
  BY UnansweredKept
<1> QED  BY <1>1, <1>2, ReachedKept, TruthKept DEF AnswerInv

LEMMA LogSameSettles == DataInv /\ UNCHANGED <<log, written>> => NoneSettles /\ LogsGrow
BY LogSameGrows DEF NoneSettles, Settled

LEMMA QuietAnswers ==
  ASSUME TypeInv, TypeInv', DataInv, AnswerInv, Quiet, UNCHANGED <<log, written, seq, answers>>
  PROVE  AnswerInv'
<1>1. \A y \in Writer : (pc'[y] \in UnderWay => pc[y] \in UnderWay) /\ ReachedStill(y)
  BY KeptLive DEF Quiet, ReachedStill
<1>2. NoneSettles /\ LogsGrow
  BY LogSameSettles
<1> QED  BY <1>1, <1>2, AnswersKept DEF Quiet

\* An entry is stored that its origin has.
LEMMA StoredSettles ==
  ASSUME DataInv, NEW r \in Replica, NEW e \in written, Stored(r, e), Settled(e)
  PROVE  NoneSettles /\ LogsGrow
<1>1. /\ LogsGrow /\ Range(log'[r]) = Range(log[r]) \cup {e}
      /\ \A q \in Replica \ {r} : log'[q] = log[q]
  BY StoredIs
<1>2. ASSUME NEW f \in written, Settled(f)'  PROVE Settled(f)
  <2>1. f \in Range(log'[f.id[1]]) /\ f.id[1] \in Replica
    BY <1>2, EntryTypes DEF Settled, DataInv, DataTypes
  <2>2. f \in Range(log[f.id[1]]) \/ f = e
    BY <1>1, <2>1
  <2> QED  BY <2>2 DEF Settled
<1> QED  BY <1>1, <1>2 DEF NoneSettles

-----------------------------------------------------------------------------
(* The steps of a write.                                                    *)

LEMMA LiveIds ==
  ASSUME TypeInv, AnswerInv, NEW x \in Writer, NEW y \in Writer, x # y,
         pc[x] \in UnderWay, pc[y] \in UnderWay
  PROVE  Id(x) # Id(y)
BY IdType DEF AnswerInv, Unanswered

LEMMA StampAnswers ==
  ASSUME TypeInv, TypeInv', DataInv, DataInv', AnswerInv, NEW x \in Writer, NEW k \in Key,
         StampWrite(x, k)
  PROVE  AnswerInv'
<1>0. PICK e : e = [key |-> k, id |-> Id(x), ts |-> clock[Home[x]] + 1]
  OBVIOUS
<1>1. /\ RequestsGrow /\ UNCHANGED seq /\ \A y \in Writer \ {x} : Keeps(y)
      /\ pc'[x] \notin BeforeStamp /\ pc[x] = "begin" /\ pc'[x] # "replicate"
  BY StampedMoves DEF StampWrite
<1>2. written' = written \cup {e} /\ UNCHANGED <<log, answers>>
  BY <1>0 DEF StampWrite
<1>3. e.id = Id(x)
  BY <1>0
<1>4. \A f \in written : f.id # Id(x)
  BY <1>1 DEF DataInv, Fresh, BeforeStamp
<1>5. \A a \in answers : a.id # Id(x)
  BY <1>1 DEF AnswerInv, Unanswered, UnderWay, BeforeStamp
<1>6. ~Settled(e)'
  <2>1. \A r \in Replica : e \notin Range(log[r])
    BY <1>3, <1>4 DEF DataInv, AllSettled, Settled
  <2>2. e.id[1] \in Replica
    BY <1>3, IdType
  <2> QED  BY <1>2, <2>1, <2>2 DEF Settled
<1>7. \A f \in written : Settled(f)' => Settled(f)
  BY <1>2 DEF Settled
<1>8. \A y \in Writer : Id(y)' = Id(y)
  BY <1>1 DEF Id
<1>9. \A y \in Writer : pc'[y] \in UnderWay => pc[y] \in UnderWay
  BY <1>1, KeptLive DEF UnderWay, BeforeStamp
<1>10. AnswerTypes'
  <2>1. answers' = answers \cup {} /\ {} \in SUBSET Answer
    BY <1>2
  <2> QED  BY <1>1, <2>1, AnswerTypesKept
<1>11. Unanswered'
  BY <1>1, <1>2, <1>9, UnansweredKept
<1>12. Reached'
  <2>1. ASSUME NEW y \in Writer, pc'[y] \in {"start", "apply"}, NEW f \in written', f.id = Id(y)
        PROVE  ~Settled(f)'
    <3>1. CASE f = e
      BY <1>6, <3>1
    <3>2. CASE f \in written
      <4>1. y # x
        BY <1>4, <2>1, <3>2
      <4>2. pc[y] \in {"start", "apply"}
        BY <1>1, <2>1, <4>1, KeptLive
      <4> QED  BY <1>7, <2>1, <3>2, <4>2 DEF AnswerInv, Reached
    <3> QED  BY <1>2, <3>1, <3>2
  <2>2. ASSUME NEW y \in Writer, pc'[y] = "replicate", NEW f \in written', f.id = Id(y),
               NEW r \in Replica, r = Home[y] \/ r < peer'[y]
        PROVE  f \in Range(log'[r])
    <3>1. y # x
      BY <1>1, <2>2
    <3>2. pc[y] = "replicate" /\ peer'[y] = peer[y]
      BY <1>1, <2>2, <3>1, KeptLive
    <3>3. pc[x] \in UnderWay /\ pc[y] \in UnderWay
      BY <1>1, <3>2 DEF UnderWay, BeforeStamp, Stamped
    <3>4. f # e
      BY <1>3, <2>2, <3>1, <3>3, LiveIds
    <3> QED  BY <1>2, <2>2, <3>2, <3>4 DEF AnswerInv, Reached
  <2> QED  BY <1>8, <2>1, <2>2 DEF Reached
<1>13. Truth'
  BY <1>2, <1>3, <1>5, <1>7 DEF AnswerInv, Truth
<1> QED  BY <1>10, <1>11, <1>12, <1>13 DEF AnswerInv

LEMMA StartAnswers ==
  ASSUME TypeInv, TypeInv', DataInv, AnswerInv, NEW x \in Writer, StartAt(x)
  PROVE  AnswerInv'
<1>1. pc[x] = "start" /\ ~BeginWrite(x)
  BY DEF StartAt, ServeStart, BeginWrite, MayBegin
<1>2. /\ RequestsGrow /\ UNCHANGED seq /\ \A y \in Writer \ {x} : Keeps(y)
      /\ pc'[x] \notin BeforeStamp /\ pc'[x] # "replicate"
  BY <1>1, StampedMoves DEF StartAt
<1>3. UNCHANGED <<log, written, answers>>
  BY DEF StartAt
<1>4. \A y \in Writer : (pc'[y] \in UnderWay => pc[y] \in UnderWay) /\ ReachedStill(y)
  BY <1>1, <1>2, KeptLive DEF ReachedStill, UnderWay, Stamped
<1> QED  BY <1>2, <1>3, <1>4, LogSameSettles, AnswersKept

\* The writer's own replica, or a peer, stores the entry of x; when it was the last
\* one, the answer is "ok".
LEMMA StoreAnswers ==
  ASSUME TypeInv, TypeInv', DataInv, AnswerInv, NEW x \in Writer, NEW r \in Replica,
         NEW q \in 0..N, (q = 0 /\ r = Home[x]) \/ (q = r /\ pc[x] = "replicate"),
         pc[x] \in {"apply", "replicate"}, Stored(r, EntryOf(x)), RequestsGrow,
         UNCHANGED <<seq, written>>, \A y \in Writer \ {x} : Keeps(y),
         pc'[x] \notin BeforeStamp \cup {"start", "apply"},
         pc[x] = "apply" => r = Home[x],
         pc'[x] = "replicate" => peer'[x] = NextPeer(Home[x], q) /\ NextPeer(Home[x], q) # 0,
         q # 0 => q = peer[x],
         IF NextPeer(Home[x], q) = 0 THEN Answered(x, "ok") /\ pc'[x] \notin UnderWay
                                     ELSE UNCHANGED answers
  PROVE  AnswerInv'
<1> DEFINE e == EntryOf(x)
<1>1. /\ e \in written /\ e.id = Id(x) /\ pc[x] \in UnderWay
      /\ \A f \in written : f.id = Id(x) => f = e
  BY EntryOfIs DEF UnderWay, Stamped
<1>2. Home[x] \in Replica /\ Id(x) \in WriteId /\ Id(x)[1] = Home[x] /\ Id(x)[2] = seq[x]
  BY IdType
<1>3. /\ LogsGrow /\ Range(log'[r]) = Range(log[r]) \cup {e}
      /\ \A p \in Replica \ {r} : log'[p] = log[p]
  BY <1>1, StoredIs
<1>4. ASSUME NEW p \in Replica, p = Home[x] \/ p <= q  PROVE e \in Range(log'[p])
  <2>1. CASE p = r
    BY <1>3, <2>1
  <2>2. CASE p # r
    <3>1. q = r /\ pc[x] = "replicate" /\ q = peer[x] /\ q # 0
      BY <1>4, <2>2, ConstantFacts DEF Replica
    <3>2. p = Home[x] \/ p < peer[x]
      BY <1>4, <2>2, <3>1 DEF Replica
    <3> QED  BY <1>1, <1>3, <2>2, <3>1, <3>2 DEF AnswerInv, Reached
  <2> QED  BY <2>1, <2>2
<1>5. \A f \in written \ {e} : Settled(f)' => Settled(f)
  <2> SUFFICES ASSUME NEW f \in written \ {e}, Settled(f)'  PROVE Settled(f)
    OBVIOUS
  <2>1. f \in Range(log'[f.id[1]]) /\ f.id[1] \in Replica
    BY EntryTypes DEF Settled, DataInv, DataTypes
  <2> QED  BY <1>3, <2>1 DEF Settled
<1>6. \A a \in answers : a.id # Id(x)
  BY <1>1 DEF AnswerInv, Unanswered
<1> HIDE DEF e
<1>7. answers' = answers \/ answers' = answers \cup {[id |-> Id(x), status |-> "ok"]}
  BY DEF Answered
<1>8. AnswerTypes'
  <2>1. seq[x] <= requestNumbers[Home[x]][Home[x]]
    BY <1>1 DEF AnswerInv, Unanswered
  <2>2. CASE answers' = answers
    <3>1. answers' = answers \cup {} /\ {} \in SUBSET Answer
      BY <2>2
    <3> QED  BY <3>1, AnswerTypesKept
  <2>3. CASE answers' = answers \cup {[id |-> Id(x), status |-> "ok"]}
    <3>1. {[id |-> Id(x), status |-> "ok"]} \in SUBSET Answer
      BY <1>2 DEF Answer
    <3>2. \A a \in {[id |-> Id(x), status |-> "ok"]} : a.id[2] <= requestNumbers[a.id[1]][a.id[1]]
      BY <1>2, <2>1
    <3> QED  BY <2>3, <3>1, <3>2, AnswerTypesKept
  <2> QED  BY <1>7, <2>2, <2>3
<1>9. Unanswered'
  <2>1. ASSUME NEW y \in Writer, pc'[y] \in UnderWay
        PROVE  pc[y] \in UnderWay /\ \A a \in answers' : a \in answers \/ a.id # Id(y)
    <3>1. pc[y] \in UnderWay
      BY <1>1, <2>1, KeptLive
    <3>2. CASE y = x
      BY <1>1, <2>1, <3>2
    <3>3. CASE y # x
      BY <1>1, <1>7, <3>1, <3>3, LiveIds
    <3> QED  BY <3>1, <3>2, <3>3
  <2> QED  BY <2>1, UnansweredKept
<1>10. Reached'
  <2>1. \A y \in Writer : Id(y)' = Id(y)
    BY DEF Id
  <2>2. ASSUME NEW y \in Writer, NEW f \in written, f.id = Id(y)
        PROVE  /\ pc'[y] \in {"start", "apply"} => ~Settled(f)'
               /\ pc'[y] = "replicate" =>
                    \A p \in Replica : p = Home[y] \/ p < peer'[y] => f \in Range(log'[p])
    <3>1. CASE y = x
      <4>1. f = e
        BY <1>1, <2>2, <3>1
      <4>2. ASSUME pc'[x] = "replicate", NEW p \in Replica, p = Home[x] \/ p < peer'[x]
            PROVE  p = Home[x] \/ p <= q
        BY <1>2, <4>2, NextPeerIs
      <4> QED  BY <1>4, <3>1, <4>1, <4>2
    <3>2. CASE y # x
      <4>1. Keeps(y)
        BY <3>2
      <4>2. CASE pc[y] \in UnderWay
        <5>1. f # e
          BY <1>1, <2>2, <3>2, <4>2, LiveIds
        <5>2. ReachedStill(y)
          BY <4>1, KeptLive DEF ReachedStill
        <5>3. \A g \in written : g.id = Id(y) /\ Settled(g)' => Settled(g)
          BY <1>1, <1>5, <3>2, <4>2, LiveIds
        <5> QED  BY <1>3, <2>2, <5>2, <5>3, ReachedStep
      <4>3. CASE pc[y] \notin UnderWay
        BY <4>1, <4>3, KeptLive DEF UnderWay, Stamped
      <4> QED  BY <4>2, <4>3
    <3> QED  BY <3>1, <3>2
  <2> QED  BY <2>1, <2>2 DEF Reached
<1>11. Truth'
  <2> SUFFICES ASSUME NEW a \in answers', NEW f \in written, f.id = a.id
               PROVE  /\ a.status = "ok" => \A p \in Replica : f \in Range(log'[p])
                      /\ a.status = "unavailable" => ~Settled(f)'
    BY DEF Truth
  <2>1. CASE a \in answers
    BY <1>1, <1>3, <1>5, <1>6, <2>1, LogsFacts DEF AnswerInv, Truth
  <2>2. CASE a \notin answers
    <3>1. NextPeer(Home[x], q) = 0 /\ a = [id |-> Id(x), status |-> "ok"]
      BY <2>2 DEF Answered
    <3>2. f = e /\ a.status = "ok"
      BY <1>1, <3>1
    <3>3. \A p \in Replica : p = Home[x] \/ p <= q
      BY <1>2, <3>1, NextPeerIs
    <3> QED  BY <1>4, <3>2, <3>3
  <2> QED  BY <2>1, <2>2
<1> QED  BY <1>8, <1>9, <1>10, <1>11 DEF AnswerInv

LEMMA StoreLocallyAnswers ==
  ASSUME TypeInv, TypeInv', DataInv, AnswerInv, NEW x \in Writer, StoreLocally(x)
  PROVE  AnswerInv'
<1>1. pc[x] = "apply" /\ Home[x] \in Replica /\ x \in Thread
  BY ConstantFacts DEF StoreLocally, ApplyLocally
<1>2. /\ RequestsGrow /\ UNCHANGED seq /\ \A y \in Writer \ {x} : Keeps(y)
      /\ pc'[x] \notin BeforeStamp
  BY StampedMoves DEF StoreLocally
<1>3. UNCHANGED written /\ Stored(Home[x], EntryOf(x))
  BY DEF StoreLocally
<1>4. /\ pc'[x] = Stage(FirstPeer(Home[x]), "replicate", "finish")
      /\ peer'[x] = FirstPeer(Home[x])
  BY <1>1 DEF StoreLocally, ApplyLocally, Advance, Goto, TypeInv, ThreadInv, ThreadTypeOK
<1>5. /\ pc'[x] \notin BeforeStamp \cup {"start", "apply"}
      /\ pc'[x] = "replicate" => FirstPeer(Home[x]) # 0
      /\ FirstPeer(Home[x]) = 0 => pc'[x] \notin UnderWay
  BY <1>4 DEF Stage, BeforeStamp, Stamped, UnderWay
<1>6. IF FirstPeer(Home[x]) = 0 THEN Answered(x, "ok") ELSE UNCHANGED answers
  BY DEF StoreLocally
<1>7. 0 \in 0..N
  BY ConstantFacts
<1> QED  BY <1>1, <1>2, <1>3, <1>4, <1>5, <1>6, <1>7, StoreAnswers DEF FirstPeer

LEMMA ReplicateAnswers ==
  ASSUME TypeInv, TypeInv', DataInv, AnswerInv, NEW x \in Writer, ReplicateTo(x)
  PROVE  AnswerInv'
<1> DEFINE q == NextPeer(Home[x], peer[x])
<1>1. pc[x] = "replicate" /\ x \in Thread
  BY ConstantFacts DEF ReplicateTo, ServeReplicate
<1>2. peer[x] \in Replica /\ peer[x] \in 0..N /\ peer[x] # 0
  BY <1>1, ConstantFacts DEF TypeInv, ThreadInv, ThreadTypeOK, PeersNamed
<1>3. /\ RequestsGrow /\ UNCHANGED seq /\ \A y \in Writer \ {x} : Keeps(y)
      /\ pc'[x] \notin BeforeStamp
  BY StampedMoves DEF ReplicateTo
<1>4. UNCHANGED written /\ Stored(peer[x], EntryOf(x))
  BY DEF ReplicateTo
<1>5. LET p == IF q = 0 THEN LastPeer(Home[x]) ELSE q IN
      /\ pc'[x] = Stage(p, IF q = 0 THEN "release" ELSE "replicate", "finish")
      /\ peer'[x] = p
  BY <1>1 DEF ReplicateTo, ServeReplicate, Advance, Goto, TypeInv, ThreadInv, ThreadTypeOK
<1>6. /\ pc'[x] \notin BeforeStamp \cup {"start", "apply"}
      /\ pc'[x] = "replicate" => peer'[x] = q /\ q # 0
      /\ q = 0 => pc'[x] \notin UnderWay
  BY <1>5 DEF Stage, BeforeStamp, Stamped, UnderWay
<1>7. IF q = 0 THEN Answered(x, "ok") ELSE UNCHANGED answers
  BY DEF ReplicateTo
<1> QED  BY <1>1, <1>2, <1>3, <1>4, <1>6, <1>7, StoreAnswers

LEMMA OpenAnswers ==
  ASSUME TypeInv, TypeInv', DataInv, AnswerInv, NEW x \in Writer, OpenWrite(x),
         UNCHANGED <<log, written, answers>>
  PROVE  AnswerInv'
<1> DEFINE r == Home[x]
<1>1. /\ RequestsGrow /\ \A y \in Writer \ {x} : Keeps(y)
      /\ pc'[x] = "opened" /\ seq'[x] = requestNumbers[r][r] + 1
      /\ requestNumbers'[r][r] = seq'[x]
  BY OpenMoves
<1>2. r \in Replica /\ requestNumbers[r][r] \in Nat
  <2>1. r \in Replica
    BY ConstantFacts
  <2> QED  BY <2>1 DEF TypeInv, LockTypeOK, Grants
<1>3. \A a \in answers : a.id[2] \in Nat /\ (a.id[1] = r => a.id[2] <= requestNumbers[r][r])
  BY DEF AnswerInv, AnswerTypes, Answer, WriteId
<1>4. AnswerTypes'
  <2>1. answers' = answers \cup {} /\ {} \in SUBSET Answer
    OBVIOUS
  <2> QED  BY <1>1, <2>1, AnswerTypesKept
<1>5. NoneSettles /\ LogsGrow
  BY LogSameSettles
<1>6. ASSUME NEW y \in Writer \ {x}, pc'[y] \in UnderWay
      PROVE  /\ seq'[y] = seq[y] /\ pc[y] \in UnderWay /\ Id(y)' = Id(y)
             /\ seq[y] <= requestNumbers'[Home[y]][Home[y]]
             /\ Home[y] = r => seq[y] # seq'[x]
  <2>1. seq'[y] = seq[y] /\ pc[y] \in UnderWay
    BY <1>1, <1>6, KeptLive DEF Keeps
  <2>2. Home[y] \in Replica /\ seq[y] \in Nat
    BY ConstantFacts DEF TypeInv, ThreadInv, ThreadTypeOK
  <2>3. seq[y] <= requestNumbers[Home[y]][Home[y]]
    BY <2>1 DEF AnswerInv, Unanswered
  <2>4. seq[y] <= requestNumbers'[Home[y]][Home[y]]
    BY <1>1, <2>2, <2>3, NumbersGrow
  <2> QED  BY <1>1, <1>2, <2>1, <2>2, <2>3, <2>4 DEF Id
<1>7. Unanswered'
  <2>1. ASSUME NEW y \in Writer, pc'[y] \in UnderWay
        PROVE  /\ seq'[y] <= requestNumbers'[Home[y]][Home[y]]
               /\ \A a \in answers' : a.id # Id(y)'
    <3>1. CASE y = x
      <4>1. Id(x)' = <<r, seq'[x]>>
        BY DEF Id
      <4> QED  BY <1>1, <1>2, <1>3, <3>1, <4>1
    <3>2. CASE y # x
      BY <1>6, <2>1, <3>2 DEF AnswerInv, Unanswered
    <3> QED  BY <3>1, <3>2
  <2>2. \A y, z \in Writer :
          y # z /\ Home[y] = Home[z] /\ pc'[y] \in UnderWay /\ pc'[z] \in UnderWay
            => seq'[y] # seq'[z]
    BY <1>6 DEF AnswerInv, Unanswered
  <2> QED  BY <2>1, <2>2 DEF Unanswered
<1>8. Reached'
  <2>1. ASSUME NEW y \in Writer, pc'[y] \in {"start", "apply", "replicate"},
               NEW f \in written, f.id = Id(y)'
        PROVE  /\ pc'[y] \in {"start", "apply"} => ~Settled(f)'
               /\ pc'[y] = "replicate" =>
                    \A p \in Replica : p = Home[y] \/ p < peer'[y] => f \in Range(log'[p])
    <3>1. y # x
      BY <1>1, <2>1
    <3>2. Keeps(y) /\ seq'[y] = seq[y] /\ Id(y)' = Id(y)
      BY <1>1, <3>1 DEF Keeps, Id
    <3> QED  BY <1>5, <2>1, <3>2, KeptLive DEF AnswerInv, Reached, NoneSettles
  <2> QED  BY <2>1 DEF Reached
<1>9. Truth'
  BY <1>5, TruthKept
<1> QED  BY <1>4, <1>7, <1>8, <1>9 DEF AnswerInv

LEMMA OtherWriteAnswers ==
  ASSUME TypeInv, TypeInv', DataInv, AnswerInv, NEW x \in Writer, OtherWrite(x)
  PROVE  AnswerInv'
<1>1. UNCHANGED <<log, written, answers>>
  BY DEF OtherWrite, dataVars
<1>2. CASE OpenWrite(x)
  BY <1>1, <1>2, OpenAnswers
<1>3. CASE \/ DecideBroadcast(x) \/ ServeFinish(x)
           \/ FinishWrite(x) \/ FinishWithoutToken(x) \/ AbortWrite(x)
  <2>1. UNCHANGED seq
    BY <1>3 DEF DecideBroadcast, ServeFinish, Advance, FinishWrite, FinishWithoutToken,
       AbortWrite, Step
  <2> QED  BY <1>1, <1>3, <2>1, OtherWriteQuiet, QuietAnswers
<1>4. ~ (BeginWrite(x) \/ ServeStart(x) \/ ApplyLocally(x) \/ ServeReplicate(x))
  BY DEF OtherWrite, BeginWrite, MayBegin, ServeStart, ApplyLocally, ServeReplicate
<1> QED  BY <1>2, <1>3, <1>4 DEF OtherWrite, Write

\* A write that fails is no longer under way.
LEMMA FailEnds ==
  ASSUME TypeInv, NEW x \in Writer, Fail(x), pc[x] \in {"ask", "asked", "start", "apply", "replicate"}
  PROVE  pc'[x] \notin UnderWay
<1>1. pc \in [Thread -> Label] /\ x \in Thread
  BY ConstantFacts DEF TypeInv, ThreadInv, ThreadTypeOK
<1>2. ~FinishFails(x) /\ ~TransferFails(x)
  BY DEF FinishFails, TransferFails
<1> QED  BY <1>1, <1>2 DEF Fail, RequestFails, StartFails, ApplyFails, Advance, Goto, Stage, UnderWay,
        BeforeStamp, Stamped

LEMMA FailAnswers ==
  ASSUME TypeInv, TypeInv', DataInv, AnswerInv, NEW x \in Thread, FailData(x)
  PROVE  AnswerInv'
<1>1. Fail(x)
  BY DEF FailData, FailEarly, FailToReplicate, FailElsewhere
<1>2. Quiet /\ UNCHANGED seq
  BY <1>1, FailQuiet, FailUnchanged
<1>3. UNCHANGED <<log, written>>
  BY DEF FailData, FailEarly, FailToReplicate, FailElsewhere, dataVars
<1>4. CASE FailElsewhere(x)
  BY <1>2, <1>3, <1>4, QuietAnswers DEF FailElsewhere, dataVars
<1>5. ASSUME NEW s \in {"degraded", "unavailable"}, x \in Writer, Answered(x, s),
             pc[x] \in {"ask", "asked", "start", "apply", "replicate"},
             s = "unavailable" => pc[x] # "replicate"
      PROVE  AnswerInv'
  <2>1. pc[x] \in UnderWay /\ pc'[x] \notin UnderWay
    BY <1>1, <1>5, FailEnds DEF UnderWay, BeforeStamp, Stamped
  <2>2. NoneSettles /\ LogsGrow
    BY <1>3, LogSameSettles
  <2>3. \A y \in Writer : (pc'[y] \in UnderWay => pc[y] \in UnderWay) /\ ReachedStill(y)
    BY <1>2, KeptLive DEF Quiet, ReachedStill
  <2>4. answers' = answers \cup {[id |-> Id(x), status |-> s]}
    BY <1>5 DEF Answered
  <2>5. AnswerTypes'
    <3>1. {[id |-> Id(x), status |-> s]} \in SUBSET Answer
      BY <1>5, IdType DEF Answer
    <3>2. Id(x)[1] = Home[x] /\ Id(x)[2] = seq[x] /\ seq[x] <= requestNumbers[Home[x]][Home[x]]
      BY <1>5, <2>1, IdType DEF AnswerInv, Unanswered
    <3>3. \A a \in {[id |-> Id(x), status |-> s]} : a.id[2] <= requestNumbers[a.id[1]][a.id[1]]
      BY <3>2
    <3> QED  BY <1>2, <2>4, <3>1, <3>3, AnswerTypesKept DEF Quiet
  <2>6. Unanswered'
    <3>1. ASSUME NEW y \in Writer, pc'[y] \in UnderWay
          PROVE  pc[y] \in UnderWay /\ \A a \in answers' : a \in answers \/ a.id # Id(y)
      <4>1. y # x /\ pc[y] \in UnderWay
        BY <2>1, <2>3, <3>1
      <4>2. Id(x) # Id(y)
        BY <1>5, <2>1, <4>1, LiveIds
      <4> QED  BY <2>4, <4>1, <4>2
    <3> QED  BY <1>2, <3>1, UnansweredKept DEF Quiet
  <2>7. Reached'
    BY <1>2, <1>3, <2>2, <2>3, ReachedKept
  <2>8. Truth'
    <3> SUFFICES ASSUME NEW a \in answers', NEW f \in written, f.id = a.id
                 PROVE  /\ a.status = "ok" => \A p \in Replica : f \in Range(log'[p])
                        /\ a.status = "unavailable" => ~Settled(f)'
      BY <1>3 DEF Truth
    <3>1. CASE a \in answers
      BY <1>3, <2>2, <3>1 DEF AnswerInv, Truth, NoneSettles
    <3>2. CASE a = [id |-> Id(x), status |-> s]
      <4>1. a.status = s /\ f.id = Id(x)
        BY <3>2
      <4>2. CASE s = "unavailable"
        <5>1. CASE pc[x] \in {"ask", "asked"}
          BY <1>5, <4>1, <5>1 DEF DataInv, Fresh, BeforeStamp
        <5>2. CASE pc[x] \in {"start", "apply"}
          BY <1>5, <2>2, <4>1, <5>2 DEF AnswerInv, Reached, NoneSettles
        <5> QED  BY <1>5, <4>1, <4>2, <5>1, <5>2
      <4> QED  BY <1>5, <4>1, <4>2
    <3> QED  BY <2>4, <3>1, <3>2
  <2> QED  BY <2>5, <2>6, <2>7, <2>8 DEF AnswerInv
<1>6. CASE FailEarly(x)
  BY <1>5, <1>6 DEF FailEarly
<1>7. CASE FailToReplicate(x)
  BY <1>5, <1>7 DEF FailToReplicate
<1> QED  BY <1>4, <1>6, <1>7 DEF FailData

-----------------------------------------------------------------------------
(* The other steps.                                                         *)

LEMMA LateReplicateAnswers ==
  ASSUME TypeInv, TypeInv', DataInv, AnswerInv, NEW m \in lateEntries, LateReplicate(m)
  PROVE  AnswerInv'
<1>1. m.to \in Replica /\ m.entry \in written /\ Settled(m.entry) /\ Stored(m.to, m.entry)
  BY DEF DataInv, DataTypes, AllSettled, Settled, LateReplicate
<1>2. UNCHANGED <<lockVars, threadVars>> /\ UNCHANGED <<written, answers>> /\ UNCHANGED seq
  BY DEF LateReplicate, vars, threadVars
<1>3. Quiet
  BY <1>2, StillQuiet
<1>4. \A y \in Writer : (pc'[y] \in UnderWay => pc[y] \in UnderWay) /\ ReachedStill(y)
  BY <1>3, KeptLive DEF Quiet, ReachedStill
<1> QED  BY <1>1, <1>2, <1>3, <1>4, StoredSettles, AnswersKept DEF Quiet

LEMMA SyncMoves ==
  ASSUME TypeInv, NEW x \in Syncer, SyncData(x)
  PROVE  Quiet /\ UNCHANGED seq
<1>1. CASE Replay(x) \/ ApplyFetched(x)
  <2>1. PICK source : BeginSync(x, source)
    BY <1>1 DEF Replay, ApplyFetched, BeginApply
  <2> QED  BY <2>1, SyncQuiet DEF BeginSync
<1>2. CASE EndApply(x)
  BY <1>2, SyncQuiet DEF EndApply, EndSync
<1>3. CASE \/ AskEntries(x) \/ EndFetch(x) \/ ApplyEntry(x)
           \/ \E q \in Replica : ExportEntries(x, q)
  <2>1. UNCHANGED <<lockVars, threadVars>> /\ UNCHANGED seq
    BY <1>3 DEF AskEntries, EndFetch, ApplyEntry, ExportEntries, vars, threadVars
  <2> QED  BY <2>1, StillQuiet
<1> QED  BY <1>1, <1>2, <1>3 DEF SyncData

LEMMA SyncAnswers ==
  ASSUME TypeInv, TypeInv', DataInv, AnswerInv, NEW x \in Syncer, SyncData(x)
  PROVE  AnswerInv'
<1>1. UNCHANGED <<written, answers>>
  BY DEF SyncData, Replay, AskEntries, EndFetch, ApplyFetched, ApplyEntry, EndApply,
     ExportEntries, dataVars
<1>2. Quiet /\ UNCHANGED seq
  BY SyncMoves
<1>3. CASE ApplyEntry(x)
  <2>1. PICK e \in Oldest(work[x]) : Stored(Home[x], e)
    BY <1>3 DEF ApplyEntry
  <2>2. e \in written /\ Settled(e) /\ Home[x] \in Replica
    BY ConstantFacts DEF Oldest, DataInv, AllSettled, Settled
  <2>3. \A y \in Writer : (pc'[y] \in UnderWay => pc[y] \in UnderWay) /\ ReachedStill(y)
    BY <1>2, KeptLive DEF Quiet, ReachedStill
  <2> QED  BY <1>1, <1>2, <2>1, <2>2, <2>3, StoredSettles, AnswersKept DEF Quiet
<1>4. CASE ~ApplyEntry(x)
  <2>1. UNCHANGED log
    BY <1>4 DEF SyncData, Replay, AskEntries, EndFetch, ApplyFetched, EndApply,
       ExportEntries, dataVars
  <2> QED  BY <1>1, <1>2, <2>1, QuietAnswers
<1> QED  BY <1>3, <1>4

LEMMA OtherAnswers ==
  ASSUME TypeInv, TypeInv', DataInv, AnswerInv,
         \/ OtherLate
         \/ \E c \in lateCalls : LateStartAt(c)
         \/ \E r \in Replica : Snapshot(r)
         \/ /\ \/ \E x \in Thread : Pass(x)
               \/ \E x \in Thread, h \in Handler : Serve(x, h)
               \/ Read
            /\ UNCHANGED <<dataVars, syncVars>>
  PROVE  AnswerInv'
<1>1. UNCHANGED <<log, written, answers>>
  BY DEF OtherLate, LateStartAt, Snapshot, dataVars
<1>2. ASSUME NEW x \in Thread, Pass(x)  PROVE Quiet /\ UNCHANGED seq
  BY <1>2, PassQuiet DEF Pass, PassCheck, NextNobody, NextRecipient, Export,
     ExportWithoutToken, MarkSent, Send, SendNothing, ClearPending, GiveUpSend, Step, EndPass
<1>3. ASSUME NEW x \in Thread, NEW h \in Handler, Serve(x, h)  PROVE Quiet /\ UNCHANGED seq
  BY <1>3, ServeQuiet DEF Serve, ServeRequest, ServeTransfer
<1>4. CASE Read \/ \E r \in Replica : Snapshot(r)
  <2>1. UNCHANGED <<lockVars, threadVars>> /\ UNCHANGED seq
    BY <1>4 DEF Read, AcquireRead, ReleaseRead, Snapshot, vars, threadVars
  <2> QED  BY <1>1, <2>1, StillQuiet, QuietAnswers
<1>5. CASE OtherLate \/ \E c \in lateCalls : LateStartAt(c)
  <2>1. Late
    BY <1>5 DEF OtherLate, LateStartAt, Late
  <2>2. Quiet /\ UNCHANGED seq
    BY <2>1, LateQuiet DEF Late, LateStart, LateFinish, LateRequest, LateTransfer, threadVars
  <2> QED  BY <1>1, <2>2, QuietAnswers
<1> QED  BY <1>1, <1>2, <1>3, <1>4, <1>5, QuietAnswers

LEMMA AnswerStep ==
  TypeInv /\ TypeInv' /\ DataInv /\ DataInv' /\ AnswerInv /\ [CacheNext]_cacheVars => AnswerInv'
<1> SUFFICES ASSUME TypeInv, TypeInv', DataInv, DataInv', AnswerInv, [CacheNext]_cacheVars
             PROVE  AnswerInv'
  OBVIOUS
<1>1. ASSUME NEW x \in Writer, WriteData(x)  PROVE AnswerInv'
  BY <1>1, StampAnswers, StartAnswers, StoreLocallyAnswers, ReplicateAnswers, OtherWriteAnswers
  DEF WriteData
<1>2. CASE CacheNext
  BY <1>1, <1>2, FailAnswers, LateReplicateAnswers, SyncAnswers, OtherAnswers DEF CacheNext
<1>3. CASE UNCHANGED cacheVars
  <2>1. UNCHANGED <<lockVars, threadVars>> /\ UNCHANGED <<log, written, answers>> /\ UNCHANGED seq
    BY <1>3 DEF cacheVars, vars, threadVars, dataVars
  <2> QED  BY <2>1, StillQuiet, QuietAnswers
<1> QED  BY <1>2, <1>3

LEMMA AnswerInit == CacheInit => AnswerInv
<1> SUFFICES ASSUME CacheInit  PROVE AnswerInv
  OBVIOUS
<1>1. answers = {} /\ written = {} /\ \A x \in Writer : pc[x] = "idle"
  BY ConstantFacts DEF CacheInit, Init
<1> QED  BY <1>1 DEF AnswerInv, AnswerTypes, Unanswered, Reached, Truth, UnderWay, BeforeStamp,
        Stamped

\* The status of a write (write_cache's CacheWriteResponse) is true whatever failed
\* or arrived late: "ok" means that every replica has the entry in its log, and an
\* entry answered "unavailable" is in none and gets into none.
THEOREM AnswersHold == CacheSpec => []AnswersTrue
<1>1. CacheInit => TypeInv /\ DataInv /\ AnswerInv
  BY TypeInit, DataInit, AnswerInit DEF CacheInit
<1>2. TypeInv /\ DataInv /\ AnswerInv /\ [CacheNext]_cacheVars => TypeInv' /\ DataInv' /\ AnswerInv'
  <2>1. DataInv /\ [CacheNext]_cacheVars => [SerialNext]_vars
    BY DataLeavesLock DEF cacheVars
  <2> QED  BY <2>1, TypeStep, SerialIsNext, DataStep, AnswerStep
<1>3. DataInv /\ AnswerInv => AnswersTrue
  BY AnswersFromInv
<1> QED  BY <1>1, <1>2, <1>3, PTL DEF CacheSpec

-----------------------------------------------------------------------------
(* Timestamps: the invariant.                                               *)

\* The write of e is between its timestamp and its local store.
Before(e) == \E x \in Writer : pc[x] \in {"start", "apply"} /\ e.id = Id(x)

\* Every clock has reached an entry that is stored or about to be ...
Passed ==
  \A e \in written :
    Settled(e) \/ (\E x \in Writer : pc[x] = "apply" /\ e.id = Id(x)) =>
      \A r \in Replica : clock[r] >= e.ts

\* ... since each start call takes one clock there.
Passing ==
  \A x \in Writer : pc[x] = "start" =>
    \A e \in written : e.id = Id(x) =>
      \A r \in Replica : r = Home[x] \/ r < peer[x] => clock[r] >= e.ts

Distinct ==
  \A e, f \in written :
    (Settled(e) \/ Before(e)) /\ (Settled(f) \/ Before(f)) /\ e.ts = f.ts => e = f

TimeInv == Passed /\ Passing /\ Distinct

LEMMA UniqueFromInv == DataInv /\ TimeInv => TimestampsUnique
BY DEF DataInv, AllSettled, Settled, TimeInv, Distinct, TimestampsUnique, Logged

-----------------------------------------------------------------------------
(* How a step keeps it.                                                     *)

\* No clock goes back.
LEMMA ClockReaches ==
  ASSUME DataInv, ClocksGrow, NEW r \in Replica, NEW n \in Nat, clock[r] >= n
  PROVE  clock'[r] >= n
<1>1. clock[r] \in Nat /\ clock'[r] \in Nat /\ clock'[r] >= clock[r]
  BY DEF ClocksGrow, DataInv, DataTypes
<1> QED  BY <1>1

LEMMA WrittenTypes == DataInv => \A e \in written : e \in Entry /\ e.ts \in Nat /\ e.id[1] \in Replica
BY EntryTypes DEF DataInv, DataTypes

\* After LamportClock.update the clock has passed what was received.
LEMMA UpdatedReaches ==
  ASSUME DataInv, NEW r \in Replica, NEW e \in written,
         clock' = [clock EXCEPT ![r] = Updated(@, e.ts)]
  PROVE  ClocksGrow /\ clock'[r] >= e.ts
<1>1. e.ts \in Nat /\ clock[r] \in Nat /\ clock'[r] = Updated(clock[r], e.ts)
  BY WrittenTypes DEF DataInv, DataTypes
<1>2. ClocksGrow
  BY <1>1, ClockMoves DEF DataInv
<1>3. clock'[r] >= e.ts
  BY <1>1 DEF Updated, Later
<1> QED  BY <1>2, <1>3

TimesStill(y) ==
  /\ pc'[y] \in {"start", "apply"} => pc[y] = pc'[y]
  /\ pc'[y] = "start" => peer'[y] = peer[y]

LEMMA TimesKept ==
  ASSUME DataInv, TimeInv, ClocksGrow, UNCHANGED <<written, seq>>, NoneSettles,
         \A y \in Writer : TimesStill(y)
  PROVE  TimeInv'
<1>1. \A y \in Writer : Id(y)' = Id(y)
  BY DEF Id
<1>2. ASSUME NEW e \in written, Settled(e)' \/ \E x \in Writer : pc'[x] = "apply" /\ e.id = Id(x),
             NEW r \in Replica
      PROVE  clock'[r] >= e.ts
  <2>1. clock[r] >= e.ts
    BY <1>2 DEF NoneSettles, TimeInv, Passed, TimesStill
  <2> QED  BY <2>1, ClockReaches, WrittenTypes
<1>3. ASSUME NEW x \in Writer, pc'[x] = "start", NEW e \in written, e.id = Id(x),
             NEW r \in Replica, r = Home[x] \/ r < peer'[x]
      PROVE  clock'[r] >= e.ts
  <2>1. clock[r] >= e.ts
    BY <1>3 DEF TimeInv, Passing, TimesStill
  <2> QED  BY <2>1, ClockReaches, WrittenTypes
<1>4. ASSUME NEW e \in written, (Settled(e) \/ Before(e))'  PROVE Settled(e) \/ Before(e)
  BY <1>1, <1>4 DEF NoneSettles, Before, TimesStill
<1> QED  BY <1>1, <1>2, <1>3, <1>4 DEF TimeInv, Passed, Passing, Distinct

LEMMA QuietTimes ==
  ASSUME DataInv, TimeInv, Quiet, ClocksGrow, UNCHANGED <<written, seq>>, NoneSettles
  PROVE  TimeInv'
<1>1. \A y \in Writer : TimesStill(y)
  BY DEF Quiet, Keeps, TimesStill, Stamped
<1> QED  BY <1>1, TimesKept

\* The new timestamp is later than those of all entries that are stored; no other
\* write is between its own and its store.
LEMMA StampTimes ==
  ASSUME TypeInv, TypeInv', DataInv, DataInv', TimeInv, OneWriter',
         NEW x \in Writer, NEW k \in Key, StampWrite(x, k)
  PROVE  TimeInv'
<1>0. PICK e : e = [key |-> k, id |-> Id(x), ts |-> clock[Home[x]] + 1]
  OBVIOUS
<1>1. /\ UNCHANGED seq /\ \A y \in Writer \ {x} : Keeps(y)
      /\ pc[x] = "begin"
  BY StampedMoves DEF StampWrite
<1>2. /\ written' = written \cup {e} /\ UNCHANGED log
      /\ clock' = [clock EXCEPT ![Home[x]] = @ + 1]
  BY <1>0 DEF StampWrite
<1>3. Home[x] \in Replica /\ clock[Home[x]] \in Nat /\ e.id = Id(x) /\ e.id[1] = Home[x]
  BY <1>0, IdType DEF DataInv, DataTypes
<1>4. ClocksGrow /\ clock'[Home[x]] = e.ts /\ e.ts = clock[Home[x]] + 1
  BY <1>0, <1>2, <1>3 DEF ClocksGrow, DataInv, DataTypes
<1>5. /\ pc'[x] = Stage(FirstPeer(Home[x]), "start", "apply") /\ peer'[x] = FirstPeer(Home[x])
      /\ x \in Thread
  BY ConstantFacts DEF StampWrite, BeginWrite, Goto, TypeInv, ThreadInv, ThreadTypeOK
<1>6. pc'[x] \in {"start", "apply"}
  BY <1>5 DEF Stage
<1>7. \A y \in Writer \ {x} : pc'[y] \notin {"start", "apply"}
  BY <1>6 DEF OneWriter, InCriticalSection
<1>8. \A f \in written : Settled(f)' => Settled(f)
  BY <1>2 DEF Settled
<1>9. \A f \in written : f.id # Id(x)
  BY <1>1 DEF DataInv, Fresh, BeforeStamp
<1>10. \A y \in Writer : Id(y)' = Id(y)
  BY <1>1 DEF Id
<1>11. ~Settled(e)'
  <2>1. \A r \in Replica : e \notin Range(log[r])
    BY <1>3, <1>9 DEF DataInv, AllSettled, Settled
  <2> QED  BY <1>2, <1>3, <2>1 DEF Settled
<1>12. ASSUME NEW r \in Replica, r = Home[x] \/ r < peer'[x] \/ pc'[x] = "apply"
       PROVE  clock'[r] >= e.ts
  <2>1. FirstPeer(Home[x]) = 0 \/ r < FirstPeer(Home[x]) \/ r = Home[x]
    BY <1>5, <1>12 DEF Stage
  <2>2. 0 \in 0..N /\ r # 0 /\ r \in Nat
    BY ConstantFacts
  <2>3. r = Home[x]
    <3>1. r = Home[x] \/ r <= 0
      BY <1>3, <2>1, <2>2, NextPeerIs DEF FirstPeer
    <3> QED  BY <2>2, <3>1
  <2>4. clock'[Home[x]] = e.ts /\ e.ts \in Nat
    BY <1>3, <1>4
  <2> QED  BY <2>3, <2>4
<1>13. Passed'
  <2> SUFFICES ASSUME NEW f \in written',
                      Settled(f)' \/ \E y \in Writer : pc'[y] = "apply" /\ f.id = Id(y),
                      NEW r \in Replica
               PROVE  clock'[r] >= f.ts
    BY <1>10 DEF Passed
  <2>1. CASE f = e
    <3>1. pc'[x] = "apply"
      BY <1>6, <1>7, <1>11, <2>1
    <3> QED  BY <1>12, <2>1, <3>1
  <2>2. CASE f \in written
    <3>1. Settled(f)
      BY <1>7, <1>8, <1>9, <2>2
    <3>2. clock[r] >= f.ts
      BY <2>2, <3>1 DEF TimeInv, Passed
    <3> QED  BY <1>4, <2>2, <3>2, ClockReaches, WrittenTypes
  <2> QED  BY <1>2, <2>1, <2>2
<1>14. Passing'
  <2> SUFFICES ASSUME NEW y \in Writer, pc'[y] = "start", NEW f \in written', f.id = Id(y),
                      NEW r \in Replica, r = Home[y] \/ r < peer'[y]
               PROVE  clock'[r] >= f.ts
    BY <1>10 DEF Passing
  <2>1. y = x
    BY <1>7
  <2>2. f = e
    BY <1>2, <1>9, <2>1
  <2> QED  BY <1>12, <2>1, <2>2
<1>15. Distinct'
  <2>1. ASSUME NEW f \in written, (Settled(f) \/ Before(f))'  PROVE Settled(f) /\ f.ts < e.ts
    <3>1. Settled(f)
      BY <1>7, <1>8, <1>9, <1>10, <2>1 DEF Before
    <3>2. clock[Home[x]] >= f.ts
      BY <1>3, <3>1 DEF TimeInv, Passed
    <3> QED  BY <1>3, <1>4, <3>1, <3>2, WrittenTypes
  <2>2. e.ts \in Nat /\ \A f \in written : f.ts \in Nat
    BY <1>3, <1>4, WrittenTypes
  <2> QED  BY <1>2, <2>1, <2>2 DEF TimeInv, Distinct
<1> QED  BY <1>13, <1>14, <1>15 DEF TimeInv

LEMMA StartTimes ==
  ASSUME TypeInv, TypeInv', DataInv, TimeInv, NEW x \in Writer, StartAt(x)
  PROVE  TimeInv'
<1>1. pc[x] = "start" /\ ~BeginWrite(x) /\ x \in Thread
  BY ConstantFacts DEF StartAt, ServeStart, BeginWrite, MayBegin
<1>2. UNCHANGED seq /\ \A y \in Writer \ {x} : Keeps(y)
  BY <1>1, StampedMoves DEF StartAt
<1>3. /\ UNCHANGED <<log, written>>
      /\ clock' = [clock EXCEPT ![peer[x]] = Updated(@, EntryOf(x).ts) + 1]
  BY DEF StartAt
<1>4. /\ EntryOf(x) \in written /\ EntryOf(x).ts \in Nat
      /\ \A f \in written : f.id = Id(x) => f = EntryOf(x)
  BY <1>1, EntryOfIs, WrittenTypes DEF Stamped
<1>5. peer[x] \in Replica /\ Home[x] \in Replica
  BY <1>1, ConstantFacts DEF TypeInv, ThreadInv, PeersNamed
<1>6. ClocksGrow
  BY <1>3, <1>4, <1>5, ClockMoves DEF DataInv
<1>7. clock'[peer[x]] >= EntryOf(x).ts
  <2>1. clock[peer[x]] \in Nat /\ clock'[peer[x]] = Updated(clock[peer[x]], EntryOf(x).ts) + 1
    BY <1>3, <1>5 DEF DataInv, DataTypes
  <2> QED  BY <1>4, <2>1 DEF Updated, Later
<1>8. ASSUME NEW r \in Replica, r = Home[x] \/ r <= peer[x]  PROVE clock'[r] >= EntryOf(x).ts
  <2>1. CASE r = peer[x]
    BY <1>7, <2>1
  <2>2. CASE r # peer[x]
    <3>1. r = Home[x] \/ r < peer[x]
      BY <1>5, <1>8, <2>2 DEF Replica
    <3>2. EntryOf(x).id = Id(x)
      BY <1>1, EntryOfIs DEF Stamped
    <3>3. clock[r] >= EntryOf(x).ts
      BY <1>1, <1>4, <3>1, <3>2 DEF TimeInv, Passing
    <3> QED  BY <1>4, <1>6, <3>3, ClockReaches
  <2> QED  BY <2>1, <2>2
<1>9. LET q == NextPeer(Home[x], peer[x]) IN
      /\ pc'[x] = IF q = 0 THEN "apply" ELSE "start"
      /\ peer'[x] = q
  BY <1>1 DEF StartAt, ServeStart, Advance, Goto, Stage, TypeInv, ThreadInv, ThreadTypeOK
<1>10. ASSUME NEW r \in Replica, pc'[x] = "apply" \/ r = Home[x] \/ r < peer'[x]
       PROVE  clock'[r] >= EntryOf(x).ts
  <2>1. peer[x] \in 0..N
    BY <1>1 DEF TypeInv, ThreadInv, ThreadTypeOK
  <2>2. r = Home[x] \/ r <= peer[x]
    BY <1>5, <1>9, <1>10, <2>1, NextPeerIs
  <2> QED  BY <1>8, <2>2
<1>11. \A y \in Writer : Id(y)' = Id(y)
  BY <1>2 DEF Id
<1>12. NoneSettles
  BY <1>3 DEF NoneSettles, Settled
<1>13. \A y \in Writer \ {x} : TimesStill(y)
  BY <1>2 DEF Keeps, TimesStill, Stamped
<1>14. Passed'
  <2> SUFFICES ASSUME NEW f \in written,
                      Settled(f)' \/ \E y \in Writer : pc'[y] = "apply" /\ f.id = Id(y),
                      NEW r \in Replica
               PROVE  clock'[r] >= f.ts
    BY <1>3, <1>11 DEF Passed
  <2>1. CASE f = EntryOf(x) /\ pc'[x] = "apply"
    BY <1>10, <2>1
  <2>2. CASE Settled(f) \/ \E y \in Writer : pc[y] = "apply" /\ f.id = Id(y)
    <3>1. clock[r] >= f.ts
      BY <2>2 DEF TimeInv, Passed
    <3> QED  BY <1>6, <3>1, ClockReaches, WrittenTypes
  <2> QED  BY <1>4, <1>12, <1>13, <2>1, <2>2 DEF NoneSettles, TimesStill
<1>15. Passing'
  <2> SUFFICES ASSUME NEW y \in Writer, pc'[y] = "start", NEW f \in written, f.id = Id(y),
                      NEW r \in Replica, r = Home[y] \/ r < peer'[y]
               PROVE  clock'[r] >= f.ts
    BY <1>3, <1>11 DEF Passing
  <2>1. CASE y = x
    BY <1>4, <1>10, <2>1
  <2>2. CASE y # x
    <3>1. clock[r] >= f.ts
      BY <1>13, <2>2 DEF TimeInv, Passing, TimesStill
    <3> QED  BY <1>6, <3>1, ClockReaches, WrittenTypes
  <2> QED  BY <2>1, <2>2
<1>16. ASSUME NEW f \in written, (Settled(f) \/ Before(f))'  PROVE Settled(f) \/ Before(f)
  BY <1>1, <1>11, <1>12, <1>13, <1>16 DEF NoneSettles, Before, TimesStill
<1>17. Distinct'
  BY <1>3, <1>16 DEF TimeInv, Distinct
<1> QED  BY <1>14, <1>15, <1>17 DEF TimeInv

LEMMA StoreTimes ==
  ASSUME TypeInv, TypeInv', DataInv, TimeInv, NEW x \in Writer, StoreLocally(x)
  PROVE  TimeInv'
<1>1. pc[x] = "apply" /\ Home[x] \in Replica /\ x \in Thread
  BY ConstantFacts DEF StoreLocally, ApplyLocally
<1>2. UNCHANGED seq /\ \A y \in Writer \ {x} : Keeps(y)
  BY StampedMoves DEF StoreLocally
<1>3. UNCHANGED <<clock, written>> /\ Stored(Home[x], EntryOf(x))
  BY DEF StoreLocally
<1>4. /\ EntryOf(x) \in written /\ EntryOf(x).id = Id(x)
  BY <1>1, EntryOfIs DEF Stamped
<1>5. /\ Range(log'[Home[x]]) = Range(log[Home[x]]) \cup {EntryOf(x)}
      /\ \A q \in Replica \ {Home[x]} : log'[q] = log[q]
  BY <1>1, <1>3, <1>4, StoredIs
<1>6. \A f \in written : Settled(f)' => Settled(f) \/ f = EntryOf(x)
  <2> SUFFICES ASSUME NEW f \in written, Settled(f)', f # EntryOf(x)  PROVE Settled(f)
    OBVIOUS
  <2>1. f \in Range(log'[f.id[1]]) /\ f.id[1] \in Replica
    BY WrittenTypes DEF Settled
  <2> QED  BY <1>5, <2>1 DEF Settled
<1>7. pc'[x] \notin {"start", "apply"}
  BY <1>1 DEF StoreLocally, ApplyLocally, Advance, Goto, Stage, TypeInv, ThreadInv, ThreadTypeOK
<1>8. \A y \in Writer : TimesStill(y)
  BY <1>2, <1>7 DEF Keeps, TimesStill, Stamped
<1>9. \A y \in Writer : Id(y)' = Id(y)
  BY <1>2 DEF Id
<1>10. Passed'
  <2> SUFFICES ASSUME NEW f \in written,
                      Settled(f)' \/ \E y \in Writer : pc'[y] = "apply" /\ f.id = Id(y),
                      NEW r \in Replica
               PROVE  clock[r] >= f.ts
    BY <1>3, <1>9 DEF Passed
  <2>1. Settled(f) \/ \E y \in Writer : pc[y] = "apply" /\ f.id = Id(y)
    BY <1>1, <1>4, <1>6, <1>8 DEF TimesStill
  <2> QED  BY <2>1 DEF TimeInv, Passed
<1>11. Passing'
  <2> SUFFICES ASSUME NEW y \in Writer, pc'[y] = "start", NEW f \in written, f.id = Id(y),
                      NEW r \in Replica, r = Home[y] \/ r < peer'[y]
               PROVE  clock[r] >= f.ts
    BY <1>3, <1>9 DEF Passing
  <2> QED  BY <1>8 DEF TimeInv, Passing, TimesStill
<1>12. Distinct'
  <2>1. ASSUME NEW f \in written, (Settled(f) \/ Before(f))'  PROVE Settled(f) \/ Before(f)
    BY <1>1, <1>4, <1>6, <1>8, <1>9, <2>1 DEF Before, TimesStill
  <2> QED  BY <1>3, <2>1 DEF TimeInv, Distinct
<1> QED  BY <1>10, <1>11, <1>12 DEF TimeInv

-----------------------------------------------------------------------------
\* The other steps: no clock goes back, and an entry that is stored has settled.
LEMMA OtherTimes ==
  ASSUME TypeInv, TypeInv', DataInv, TimeInv, NEW x \in Writer, ReplicateTo(x) \/ OtherWrite(x)
  PROVE  TimeInv'
<1>1. CASE ReplicateTo(x)
  <2>1. pc[x] = "replicate" /\ x \in Thread
    BY <1>1, ConstantFacts DEF ReplicateTo, ServeReplicate
  <2>2. UNCHANGED seq /\ \A y \in Writer \ {x} : Keeps(y)
    BY <1>1, StampedMoves DEF ReplicateTo
  <2>3. /\ UNCHANGED written /\ Stored(peer[x], EntryOf(x))
        /\ clock' = [clock EXCEPT ![peer[x]] = Updated(@, EntryOf(x).ts)]
    BY <1>1 DEF ReplicateTo
  <2>4. EntryOf(x) \in written /\ Settled(EntryOf(x)) /\ EntryOf(x).ts \in Nat
    BY <2>1, EntryOfIs, WrittenTypes DEF Stamped, DataInv, AllSettled
  <2>5. peer[x] \in Replica
    BY <2>1 DEF TypeInv, ThreadInv, PeersNamed
  <2>6. ClocksGrow
    BY <2>3, <2>4, <2>5, ClockMoves DEF DataInv
  <2>7. pc'[x] \notin {"start", "apply"}
    BY <1>1, <2>1 DEF ReplicateTo, ServeReplicate, Advance, Goto, Stage, TypeInv, ThreadInv,
       ThreadTypeOK
  <2>8. \A y \in Writer : TimesStill(y)
    BY <2>2, <2>7 DEF Keeps, TimesStill, Stamped
  <2> QED  BY <2>2, <2>3, <2>4, <2>5, <2>6, <2>8, StoredSettles, TimesKept
<1>2. CASE OtherWrite(x)
  <2>1. UNCHANGED <<clock, log, written>>
    BY <1>2 DEF OtherWrite, dataVars
  <2>2. ClocksGrow /\ NoneSettles
    BY <2>1, ClockSameGrows, LogSameSettles
  <2>3. CASE OpenWrite(x)
    <3>1. /\ \A y \in Writer \ {x} : Keeps(y)
          /\ pc'[x] = "opened"
      BY <2>3, OpenMoves
    <3>2. \A y \in Writer : /\ TimesStill(y)
                            /\ pc'[y] \in {"start", "apply"} => Id(y)' = Id(y)
      BY <3>1 DEF Keeps, TimesStill, Stamped, Id
    <3>3. Passed'
      <4> SUFFICES ASSUME NEW f \in written,
                          Settled(f)' \/ \E y \in Writer : pc'[y] = "apply" /\ f.id = Id(y)',
                          NEW r \in Replica
                   PROVE  clock[r] >= f.ts
        BY <2>1 DEF Passed
      <4>1. Settled(f) \/ \E y \in Writer : pc[y] = "apply" /\ f.id = Id(y)
        BY <2>2, <3>2 DEF NoneSettles, TimesStill
      <4> QED  BY <4>1 DEF TimeInv, Passed
    <3>4. Passing'
      BY <2>1, <3>2 DEF TimeInv, Passing, TimesStill
    <3>5. ASSUME NEW e \in written, (Settled(e) \/ Before(e))'  PROVE Settled(e) \/ Before(e)
      BY <2>2, <3>2, <3>5 DEF NoneSettles, Before, TimesStill
    <3>6. Distinct'
      BY <2>1, <3>5 DEF TimeInv, Distinct
    <3> QED  BY <3>3, <3>4, <3>6 DEF TimeInv
  <2>4. CASE \/ DecideBroadcast(x) \/ ServeFinish(x)
             \/ FinishWrite(x) \/ FinishWithoutToken(x) \/ AbortWrite(x)
    <3>1. UNCHANGED seq
      BY <2>4 DEF DecideBroadcast, ServeFinish, Advance, FinishWrite, FinishWithoutToken,
         AbortWrite, Step
    <3> QED  BY <2>1, <2>2, <2>4, <3>1, OtherWriteQuiet, QuietTimes
  <2>5. ~ (BeginWrite(x) \/ ServeStart(x) \/ ApplyLocally(x) \/ ServeReplicate(x))
    BY <1>2 DEF OtherWrite, BeginWrite, MayBegin, ServeStart, ApplyLocally, ServeReplicate
  <2> QED  BY <1>2, <2>3, <2>4, <2>5 DEF OtherWrite, Write
<1> QED  BY <1>1, <1>2

LEMMA LateTimes ==
  ASSUME TypeInv, DataInv, TimeInv, NEW m \in lateEntries, LateReplicate(m)
  PROVE  TimeInv'
<1>1. /\ m.to \in Replica /\ m.entry \in written /\ Settled(m.entry) /\ m.entry.ts \in Nat
      /\ Stored(m.to, m.entry)
  BY WrittenTypes DEF DataInv, DataTypes, AllSettled, Settled, LateReplicate
<1>2. UNCHANGED <<lockVars, threadVars>> /\ UNCHANGED <<written, seq>>
  BY DEF LateReplicate, vars, threadVars
<1>3. ClocksGrow
  BY <1>1, ClockMoves DEF LateReplicate, DataInv
<1> QED  BY <1>1, <1>2, <1>3, StillQuiet, StoredSettles, QuietTimes

LEMMA LateCallTimes ==
  ASSUME TypeInv, DataInv, TimeInv, OtherLate \/ \E c \in lateCalls : LateStartAt(c)
  PROVE  TimeInv'
<1>1. Late
  BY DEF OtherLate, LateStartAt, Late
<1>2. Quiet /\ UNCHANGED seq
  BY <1>1, LateQuiet DEF Late, LateStart, LateFinish, LateRequest, LateTransfer, threadVars
<1>3. UNCHANGED <<log, written>>
  BY DEF OtherLate, LateStartAt, dataVars
<1>4. ClocksGrow
  <2>1. CASE OtherLate
    BY <2>1, ClockSameGrows DEF OtherLate, dataVars
  <2>2. ASSUME NEW c \in lateCalls, LateStartAt(c)  PROVE ClocksGrow
    <3>1. PICK e \in written : clock' = [clock EXCEPT ![c.to] = Updated(@, e.ts) + 1]
      BY <2>2 DEF LateStartAt
    <3>2. c.to \in Replica /\ e.ts \in Nat
      BY WrittenTypes DEF TypeInv, NetTypeOK, Call
    <3> QED  BY <3>1, <3>2, ClockMoves DEF DataInv
  <2> QED  BY <2>1, <2>2
<1> QED  BY <1>2, <1>3, <1>4, LogSameSettles, QuietTimes

LEMMA SyncTimes ==
  ASSUME TypeInv, DataInv, TimeInv, NEW x \in Syncer, SyncData(x)
  PROVE  TimeInv'
<1>1. UNCHANGED written
  BY DEF SyncData, Replay, AskEntries, EndFetch, ApplyFetched, ApplyEntry, EndApply,
     ExportEntries, dataVars
<1>2. Quiet /\ UNCHANGED seq
  BY SyncMoves
<1>3. CASE ApplyEntry(x)
  <2>1. PICK e \in Oldest(work[x]) :
          Stored(Home[x], e) /\ clock' = [clock EXCEPT ![Home[x]] = Updated(@, e.ts)]
    BY <1>3 DEF ApplyEntry
  <2>2. e \in written /\ Settled(e) /\ Home[x] \in Replica
    BY ConstantFacts DEF Oldest, DataInv, AllSettled, Settled
  <2>3. ClocksGrow
    BY <2>1, <2>2, ClockMoves, WrittenTypes DEF DataInv
  <2> QED  BY <1>1, <1>2, <2>1, <2>2, <2>3, StoredSettles, QuietTimes
<1>4. CASE ~ApplyEntry(x)
  <2>1. UNCHANGED <<log, clock>>
    BY <1>4 DEF SyncData, Replay, AskEntries, EndFetch, ApplyFetched, EndApply,
       ExportEntries, dataVars
  <2> QED  BY <1>1, <1>2, <2>1, LogSameSettles, ClockSameGrows, QuietTimes
<1> QED  BY <1>3, <1>4

LEMMA RestTimes ==
  ASSUME TypeInv, DataInv, TimeInv,
         \/ \E x \in Thread : FailData(x)
         \/ \E r \in Replica : Snapshot(r)
         \/ /\ \/ \E x \in Thread : Pass(x)
               \/ \E x \in Thread, h \in Handler : Serve(x, h)
               \/ Read
            /\ UNCHANGED <<dataVars, syncVars>>
  PROVE  TimeInv'
<1>1. UNCHANGED <<clock, log, written>>
  BY DEF FailData, FailEarly, FailToReplicate, FailElsewhere, Snapshot, dataVars
<1>2. NoneSettles /\ ClocksGrow
  BY <1>1, LogSameSettles, ClockSameGrows
<1>3. ASSUME NEW x \in Thread, FailData(x)  PROVE Quiet /\ UNCHANGED seq
  BY <1>3, FailQuiet, FailUnchanged DEF FailData, FailEarly, FailToReplicate, FailElsewhere
<1>4. ASSUME NEW x \in Thread, Pass(x)  PROVE Quiet /\ UNCHANGED seq
  BY <1>4, PassQuiet DEF Pass, PassCheck, NextNobody, NextRecipient, Export,
     ExportWithoutToken, MarkSent, Send, SendNothing, ClearPending, GiveUpSend, Step, EndPass
<1>5. ASSUME NEW x \in Thread, NEW h \in Handler, Serve(x, h)  PROVE Quiet /\ UNCHANGED seq
  BY <1>5, ServeQuiet DEF Serve, ServeRequest, ServeTransfer
<1>6. CASE Read \/ \E r \in Replica : Snapshot(r)
  <2>1. UNCHANGED <<lockVars, threadVars>> /\ UNCHANGED seq
    BY <1>6 DEF Read, AcquireRead, ReleaseRead, Snapshot, vars, threadVars
  <2> QED  BY <1>1, <1>2, <2>1, StillQuiet, QuietTimes
<1> QED  BY <1>1, <1>2, <1>3, <1>4, <1>5, <1>6, QuietTimes

LEMMA TimeStep ==
  /\ TypeInv /\ TypeInv' /\ DataInv /\ DataInv' /\ TimeInv /\ OneWriter'
  /\ [CacheNext]_cacheVars
  => TimeInv'
<1> SUFFICES ASSUME TypeInv, TypeInv', DataInv, DataInv', TimeInv, OneWriter',
                    [CacheNext]_cacheVars
             PROVE  TimeInv'
  OBVIOUS
<1>1. ASSUME NEW x \in Writer, WriteData(x)  PROVE TimeInv'
  BY <1>1, StampTimes, StartTimes, StoreTimes, OtherTimes DEF WriteData
<1>2. CASE CacheNext
  BY <1>1, <1>2, LateTimes, LateCallTimes, SyncTimes, RestTimes DEF CacheNext
<1>3. CASE UNCHANGED cacheVars
  <2>1. UNCHANGED <<lockVars, threadVars>> /\ UNCHANGED <<clock, log, written>> /\ UNCHANGED seq
    BY <1>3 DEF cacheVars, vars, threadVars, dataVars
  <2> QED  BY <2>1, StillQuiet, LogSameSettles, ClockSameGrows, QuietTimes
<1> QED  BY <1>2, <1>3

LEMMA TimeInit == CacheInit => TimeInv
<1> SUFFICES ASSUME CacheInit  PROVE TimeInv
  OBVIOUS
<1>1. written = {} /\ \A x \in Writer : pc[x] = "idle"
  BY ConstantFacts DEF CacheInit, Init
<1> QED  BY <1>1 DEF TimeInv, Passed, Passing, Distinct

\* The cache while abort_local_write clears no other write's flag: what the coordinator
\* of a replica makes of writes that overlap there (Coordination, AbortsApart).
UnabortedCacheSpec == CacheInit /\ [][CacheNext /\ AbortsApart]_cacheVars

LEMMA WritesApart == UnabortedCacheSpec => []OneWriter
<1>1. CacheInit => Init /\ TypeInv /\ DataInv
  BY TypeInit, DataInit DEF CacheInit
<1>2. DataInv /\ [CacheNext /\ AbortsApart]_cacheVars => [SerialNext /\ AbortsApart]_vars
  BY DataLeavesLock DEF cacheVars
<1>3. TypeInv /\ DataInv /\ [CacheNext /\ AbortsApart]_cacheVars => TypeInv' /\ DataInv'
  <2>1. DataInv /\ [CacheNext]_cacheVars => [SerialNext]_vars
    BY DataLeavesLock DEF cacheVars
  <2> QED  BY <2>1, TypeStep, SerialIsNext, DataStep
<1>4. UnabortedCacheSpec => UnabortedSpec
  BY <1>1, <1>2, <1>3, PTL DEF UnabortedCacheSpec, UnabortedSpec
<1> QED  BY <1>4, OneWriterAtATime, PTL

\* Two entries in the logs never have the same Lamport timestamp, whichever replicas
\* they were written at, however many writes each of them serves at once, and whatever
\* failed: a write moves every clock beyond its own (mark_remote_write_started) before
\* the next one can begin.  abort_local_write must not clear the flag of another write.
THEOREM TimestampsDiffer == UnabortedCacheSpec => []TimestampsUnique
<1>1. CacheInit => TypeInv /\ DataInv /\ TimeInv
  BY TypeInit, DataInit, TimeInit DEF CacheInit
<1>2. TypeInv /\ DataInv /\ [CacheNext /\ AbortsApart]_cacheVars => TypeInv' /\ DataInv'
  <2>1. DataInv /\ [CacheNext]_cacheVars => [SerialNext]_vars
    BY DataLeavesLock DEF cacheVars
  <2> QED  BY <2>1, TypeStep, SerialIsNext, DataStep
<1>3. TypeInv /\ TypeInv' /\ DataInv /\ DataInv' /\ TimeInv /\ OneWriter'
        /\ [CacheNext /\ AbortsApart]_cacheVars => TimeInv'
  BY TimeStep
<1>4. DataInv /\ TimeInv => TimestampsUnique
  BY UniqueFromInv
<1> QED  BY <1>1, <1>2, <1>3, <1>4, WritesApart, PTL DEF UnabortedCacheSpec

-----------------------------------------------------------------------------
(* Stores: the invariant.                                                   *)

StoreTypes == store \in [Replica -> [Key -> Entry \cup {NoEntry}]]

\* Every clock has reached what any replica has stored ...
StorePassed == \A r, q \in Replica, k \in Key : clock[q] >= store[r][k].ts

\* ... so that a write is later than all that has settled and all that is stored.
Leads ==
  \A x \in Writer : pc[x] \in Stamped =>
    \A e \in written : e.id = Id(x) =>
      /\ \A f \in written : Settled(f) /\ f # e => f.ts < e.ts
      /\ \A r \in Replica, k \in Key : store[r][k] = e \/ store[r][k].ts < e.ts

StoreInv == StoreTypes /\ StorePassed /\ Leads

\* A step stores e at r.
Puts(r, e) == store' = [store EXCEPT ![r][e.key] = e]

\* What a step may do to a store, unless it takes an entry from work or lateEntries
OnlyNewer ==
  \A r \in Replica, k \in Key :
    store'[r][k] # store[r][k] => store'[r][k].ts > store[r][k].ts

-----------------------------------------------------------------------------
(* How a step keeps it.                                                     *)

LEMMA StoredType ==
  ASSUME StoreTypes, NEW r \in Replica, NEW k \in Key
  PROVE  store[r][k].ts \in Nat
BY EntryTypes DEF StoreTypes, NoEntry

LEMMA PutsIs ==
  ASSUME DataInv, StoreTypes, NEW r \in Replica, NEW e \in written, Puts(r, e)
  PROVE  /\ StoreTypes' /\ e.ts \in Nat
         /\ \A q \in Replica, k \in Key :
              store'[q][k] = store[q][k] \/ (q = r /\ k = e.key /\ store'[q][k] = e)
<1>1. e \in Entry /\ e.key \in Key /\ e.ts \in Nat
  BY EntryTypes DEF DataInv, DataTypes, Entry
<1> QED  BY <1>1 DEF Puts, StoreTypes

\* A step that stores nothing
LEMMA StoresKept ==
  ASSUME DataInv, StoreInv, ClocksGrow, NoneSettles, UNCHANGED <<written, store>>,
         \A y \in Writer : pc'[y] \in Stamped => pc[y] \in Stamped /\ seq'[y] = seq[y]
  PROVE  StoreInv' /\ OnlyNewer
<1>1. \A y \in Writer : pc'[y] \in Stamped => Id(y)' = Id(y)
  BY DEF Id
<1>2. Leads'
  BY <1>1 DEF StoreInv, Leads, NoneSettles
<1>3. StorePassed'
  BY StoredType, ClockReaches DEF StoreInv, StorePassed
<1> QED  BY <1>2, <1>3 DEF StoreInv, StoreTypes, OnlyNewer

\* A step that stores an entry all clocks have reached, and no write under way has passed
LEMMA StorePut ==
  ASSUME DataInv, StoreInv, ClocksGrow, UNCHANGED written,
         NEW r \in Replica, NEW e \in written, Puts(r, e),
         \A q \in Replica : clock[q] >= e.ts,
         \A f \in written : Settled(f)' => Settled(f) \/ f = e,
         \A y \in Writer : pc'[y] \in Stamped =>
           /\ pc[y] \in Stamped /\ seq'[y] = seq[y]
           /\ \A g \in written : g.id = Id(y) => e = g \/ e.ts < g.ts
  PROVE  StoreInv'
<1>1. /\ StoreTypes' /\ e.ts \in Nat
      /\ \A q \in Replica, k \in Key : store'[q][k] = store[q][k] \/ store'[q][k] = e
  BY PutsIs DEF StoreInv
<1>2. ASSUME NEW q \in Replica, NEW p \in Replica, NEW k \in Key
      PROVE  clock'[p] >= store'[q][k].ts
  <2>1. clock'[p] >= e.ts
    BY <1>1, ClockReaches
  <2>2. clock'[p] >= store[q][k].ts
    BY StoredType, ClockReaches DEF StoreInv, StorePassed
  <2> QED  BY <1>1, <2>1, <2>2
<1>3. \A y \in Writer : pc'[y] \in Stamped => Id(y)' = Id(y)
  BY DEF Id
<1>4. ASSUME NEW y \in Writer, pc'[y] \in Stamped, NEW g \in written, g.id = Id(y)
      PROVE  /\ \A f \in written : Settled(f)' /\ f # g => f.ts < g.ts
             /\ \A q \in Replica, k \in Key : store'[q][k] = g \/ store'[q][k].ts < g.ts
  <2>1. e = g \/ e.ts < g.ts
    BY <1>4
  <2>2. /\ \A f \in written : Settled(f) /\ f # g => f.ts < g.ts
        /\ \A q \in Replica, k \in Key : store[q][k] = g \/ store[q][k].ts < g.ts
    BY <1>4 DEF StoreInv, Leads
  <2> QED  BY <1>1, <2>1, <2>2
<1>5. Leads'
  BY <1>3, <1>4 DEF Leads
<1> QED  BY <1>1, <1>2, <1>5 DEF StoreInv, StorePassed

\* The entry of a write under way takes the place of older ones only.
LEMMA NewestPut ==
  ASSUME DataInv, StoreInv, NEW x \in Writer, pc[x] \in Stamped, NEW r \in Replica,
         Puts(r, EntryOf(x))
  PROVE  OnlyNewer
<1>1. EntryOf(x) \in written /\ EntryOf(x).id = Id(x)
  BY EntryOfIs
<1>2. \A q \in Replica, k \in Key : store[q][k] = EntryOf(x) \/ store[q][k].ts < EntryOf(x).ts
  BY <1>1 DEF StoreInv, Leads
<1>3. /\ EntryOf(x).ts \in Nat
      /\ \A q \in Replica, k \in Key :
           store'[q][k] = store[q][k] \/ store'[q][k] = EntryOf(x)
  BY <1>1, PutsIs DEF StoreInv
<1> QED  BY <1>2, <1>3, StoredType DEF StoreInv, OnlyNewer

\* An entry that has settled: every clock has reached it, every write under way is later.
LEMMA SettledPut ==
  ASSUME DataInv, StoreInv, TimeInv, ClocksGrow, UNCHANGED <<written, seq>>,
         NEW r \in Replica, NEW e \in written, Settled(e), Stored(r, e),
         \A y \in Writer : pc'[y] \in Stamped => pc[y] \in Stamped
  PROVE  StoreInv'
<1>1. NoneSettles
  BY StoredSettles
<1>2. \A q \in Replica : clock[q] >= e.ts
  BY DEF TimeInv, Passed
<1>3. ASSUME NEW y \in Writer, pc[y] \in Stamped, NEW g \in written, g.id = Id(y)
      PROVE  e = g \/ e.ts < g.ts
  BY <1>3 DEF StoreInv, Leads
<1>4. Puts(r, e)
  BY DEF Stored, Puts
<1> QED  BY <1>1, <1>2, <1>3, <1>4, StorePut DEF NoneSettles

\* The new timestamp is later than all that is stored and all that has settled.
LEMMA StampStores ==
  ASSUME TypeInv, DataInv, DataInv', TimeInv, StoreInv, OneWriter',
         NEW x \in Writer, NEW k \in Key, StampWrite(x, k)
  PROVE  StoreInv' /\ OnlyNewer
<1>0. PICK e : e = [key |-> k, id |-> Id(x), ts |-> clock[Home[x]] + 1]
  OBVIOUS
<1>1. /\ UNCHANGED seq /\ \A y \in Writer \ {x} : Keeps(y)
      /\ pc[x] = "begin" /\ x \in Thread
  BY StampedMoves, ConstantFacts DEF StampWrite
<1>2. /\ written' = written \cup {e} /\ UNCHANGED <<log, store>>
      /\ clock' = [clock EXCEPT ![Home[x]] = @ + 1]
  BY <1>0 DEF StampWrite
<1>3. Home[x] \in Replica /\ clock[Home[x]] \in Nat /\ e.id = Id(x) /\ e.ts = clock[Home[x]] + 1
  BY <1>0, IdType DEF DataInv, DataTypes
<1>4. pc'[x] \in {"start", "apply"}
  BY <1>1 DEF StampWrite, BeginWrite, Goto, Stage, TypeInv, ThreadInv, ThreadTypeOK
<1>5. \A f \in written : f.id # Id(x)
  BY <1>1 DEF DataInv, Fresh, BeforeStamp
<1>6. ASSUME NEW f \in written', Settled(f)'  PROVE f \in written /\ Settled(f)
  <2>1. f.id[1] \in Replica
    BY <1>2, <1>3, <1>6, IdType, EntryTypes DEF DataInv, DataTypes
  <2>2. f \in Range(log[f.id[1]])
    BY <1>2, <1>6 DEF Settled
  <2> QED  BY <2>1, <2>2 DEF DataInv, AllSettled, Settled
<1>7. ASSUME NEW y \in Writer, pc'[y] \in Stamped, NEW f \in written', f.id = Id(y)'
      PROVE  f = e
  <2>1. y = x
    BY <1>4, <1>7 DEF OneWriter, InCriticalSection, Stamped
  <2> QED  BY <1>1, <1>2, <1>5, <1>7, <2>1 DEF Id
<1>8. \A g \in written' : Settled(g)' => g.ts < e.ts
  <2> SUFFICES ASSUME NEW g \in written', Settled(g)'  PROVE g.ts < e.ts
    OBVIOUS
  <2>1. clock[Home[x]] >= g.ts /\ g.ts \in Nat
    BY <1>3, <1>6, WrittenTypes DEF TimeInv, Passed
  <2> QED  BY <1>3, <2>1
<1>9. \A r \in Replica, j \in Key : store[r][j].ts < e.ts
  BY <1>3, StoredType DEF StoreInv, StorePassed
<1>10. Leads'
  BY <1>2, <1>7, <1>8, <1>9 DEF Leads
<1>11. ClocksGrow
  BY <1>2, <1>3 DEF ClocksGrow, DataInv, DataTypes
<1>12. StorePassed'
  BY <1>2, <1>11, StoredType, ClockReaches DEF StoreInv, StorePassed
<1> QED  BY <1>2, <1>10, <1>12 DEF StoreInv, StoreTypes, OnlyNewer

\* The writer's own replica stores: its entry is the only one to settle, and no other
\* write is under way.
LEMMA LocalStores ==
  ASSUME TypeInv, DataInv, TimeInv, StoreInv, OneWriter, NEW x \in Writer, StoreLocally(x)
  PROVE  StoreInv' /\ OnlyNewer
<1>1. pc[x] = "apply" /\ Home[x] \in Replica /\ x \in Thread
  BY ConstantFacts DEF StoreLocally, ApplyLocally
<1>2. UNCHANGED seq /\ \A y \in Writer \ {x} : Keeps(y)
  BY StampedMoves DEF StoreLocally
<1>3. /\ UNCHANGED <<written, clock>> /\ Stored(Home[x], EntryOf(x))
      /\ Puts(Home[x], EntryOf(x))
  BY DEF StoreLocally, Stored, Puts
<1>4. /\ EntryOf(x) \in written /\ EntryOf(x).id = Id(x)
      /\ \A f \in written : f.id = Id(x) => f = EntryOf(x)
  BY <1>1, EntryOfIs DEF Stamped
<1>5. \A q \in Replica : clock[q] >= EntryOf(x).ts
  BY <1>1, <1>4 DEF TimeInv, Passed
<1>6. /\ Range(log'[Home[x]]) = Range(log[Home[x]]) \cup {EntryOf(x)}
      /\ \A q \in Replica \ {Home[x]} : log'[q] = log[q]
  BY <1>1, <1>3, <1>4, StoredIs
<1>7. ASSUME NEW f \in written, Settled(f)'  PROVE Settled(f) \/ f = EntryOf(x)
  <2>1. f \in Range(log'[f.id[1]]) /\ f.id[1] \in Replica
    BY <1>7, WrittenTypes DEF Settled
  <2> QED  BY <1>6, <2>1 DEF Settled
<1>8. ASSUME NEW y \in Writer, pc'[y] \in Stamped
      PROVE  y = x /\ pc[y] \in Stamped
  BY <1>1, <1>2, <1>8 DEF OneWriter, InCriticalSection, Stamped, Keeps
<1>9. ClocksGrow
  BY <1>3, ClockSameGrows
<1>10. StoreInv'
  BY <1>1, <1>2, <1>3, <1>4, <1>5, <1>7, <1>8, <1>9, StorePut
<1> QED  BY <1>1, <1>3, <1>10, NewestPut DEF Stamped

LEMMA PeerStores ==
  ASSUME TypeInv, DataInv, TimeInv, StoreInv, NEW x \in Writer, ReplicateTo(x)
  PROVE  StoreInv' /\ OnlyNewer
<1>1. pc[x] = "replicate" /\ x \in Thread
  BY ConstantFacts DEF ReplicateTo, ServeReplicate
<1>2. UNCHANGED seq /\ \A y \in Writer \ {x} : Keeps(y)
  BY StampedMoves DEF ReplicateTo
<1>3. /\ UNCHANGED written /\ Stored(peer[x], EntryOf(x)) /\ Puts(peer[x], EntryOf(x))
      /\ clock' = [clock EXCEPT ![peer[x]] = Updated(@, EntryOf(x).ts)]
  BY DEF ReplicateTo, Stored, Puts
<1>4. EntryOf(x) \in written /\ Settled(EntryOf(x))
  BY <1>1, EntryOfIs DEF Stamped, DataInv, AllSettled
<1>5. peer[x] \in Replica
  BY <1>1 DEF TypeInv, ThreadInv, PeersNamed
<1>6. ClocksGrow
  BY <1>3, <1>4, <1>5, UpdatedReaches
<1>7. \A y \in Writer : pc'[y] \in Stamped => pc[y] \in Stamped
  BY <1>1, <1>2 DEF Keeps, Stamped
<1>8. StoreInv'
  BY <1>2, <1>3, <1>4, <1>5, <1>6, <1>7, SettledPut
<1> QED  BY <1>1, <1>3, <1>5, <1>8, NewestPut DEF Stamped

\* A store that takes the entry and reports an error has the newest entry, too.
LEMMA FailStores ==
  ASSUME TypeInv, DataInv, TimeInv, StoreInv, OneWriter, NEW x \in Thread, FailData(x)
  PROVE  StoreInv' /\ OnlyNewer
<1>1. Quiet /\ UNCHANGED seq
  BY FailQuiet, FailUnchanged DEF FailData, FailEarly, FailToReplicate, FailElsewhere
<1>2. \A y \in Writer : pc'[y] \in Stamped => pc'[y] = pc[y]
  BY <1>1 DEF Quiet, Keeps
<1>3. UNCHANGED <<written, log, clock>>
  BY DEF FailData, FailEarly, FailToReplicate, FailElsewhere, dataVars
<1>4. NoneSettles /\ ClocksGrow
  BY <1>3, LogSameSettles, ClockSameGrows
<1>5. CASE UNCHANGED store
  BY <1>1, <1>2, <1>3, <1>4, <1>5, StoresKept
<1>6. CASE ~UNCHANGED store
  <2>1. /\ x \in Writer /\ pc[x] = "apply" /\ Home[x] \in Replica
        /\ Puts(Home[x], EntryOf(x))
    BY <1>6, ConstantFacts DEF FailData, FailEarly, FailToReplicate, FailElsewhere, dataVars, Puts
  <2>2. /\ EntryOf(x) \in written /\ EntryOf(x).id = Id(x)
        /\ \A f \in written : f.id = Id(x) => f = EntryOf(x)
    BY <2>1, EntryOfIs DEF Stamped
  <2>3. \A q \in Replica : clock[q] >= EntryOf(x).ts
    BY <2>1, <2>2 DEF TimeInv, Passed
  <2>4. \A y \in Writer : pc'[y] \in Stamped => y = x
    BY <1>2, <2>1 DEF OneWriter, InCriticalSection, Stamped
  <2>5. StoreInv'
    BY <1>1, <1>2, <1>3, <1>4, <2>1, <2>2, <2>3, <2>4, StorePut DEF NoneSettles
  <2> QED  BY <2>1, <2>5, NewestPut DEF Stamped
<1> QED  BY <1>5, <1>6

\* Entries that come late or with a sync have settled.
LEMMA LateStores ==
  ASSUME TypeInv, DataInv, TimeInv, StoreInv, NEW m \in lateEntries, LateReplicate(m)
  PROVE  StoreInv' /\ lateEntries' # lateEntries
<1>1. /\ m.to \in Replica /\ m.entry \in written /\ Settled(m.entry)
      /\ Stored(m.to, m.entry) /\ lateEntries' = lateEntries \ {m}
  BY DEF DataInv, DataTypes, AllSettled, Settled, LateReplicate
<1>2. UNCHANGED <<pc, seq, written>>
  BY DEF LateReplicate, vars, threadVars
<1>3. ClocksGrow
  BY <1>1, UpdatedReaches DEF LateReplicate
<1> QED  BY <1>1, <1>2, <1>3, SettledPut

LEMMA SyncStores ==
  ASSUME TypeInv, DataInv, TimeInv, StoreInv, NEW x \in Syncer, SyncData(x)
  PROVE  StoreInv' /\ (OnlyNewer \/ work' # work)
<1>1. UNCHANGED written
  BY DEF SyncData, Replay, AskEntries, EndFetch, ApplyFetched, ApplyEntry, EndApply,
     ExportEntries, dataVars
<1>2. UNCHANGED seq /\ \A y \in Writer : pc'[y] \in Stamped => pc[y] \in Stamped
  BY SyncMoves DEF Quiet, Keeps
<1>3. CASE ApplyEntry(x)
  <2>1. PICK e \in Oldest(work[x]) :
          /\ Stored(Home[x], e) /\ clock' = [clock EXCEPT ![Home[x]] = Updated(@, e.ts)]
          /\ work' = [work EXCEPT ![x] = @ \ {e}]
    BY <1>3 DEF ApplyEntry
  <2>2. e \in written /\ Settled(e) /\ Home[x] \in Replica /\ e \in work[x]
    BY ConstantFacts DEF Oldest, DataInv, AllSettled, Settled
  <2>3. ClocksGrow
    BY <2>1, <2>2, UpdatedReaches
  <2>4. StoreInv'
    BY <1>1, <1>2, <2>1, <2>2, <2>3, SettledPut
  <2>5. work' # work
    BY <2>1, <2>2 DEF DataInv, DataTypes
  <2> QED  BY <2>4, <2>5
<1>4. CASE ~ApplyEntry(x)
  <2>1. UNCHANGED <<log, clock, store>>
    BY <1>4 DEF SyncData, Replay, AskEntries, EndFetch, ApplyFetched, EndApply,
       ExportEntries, dataVars
  <2>2. NoneSettles /\ ClocksGrow
    BY <1>1, <2>1, LogSameSettles, ClockSameGrows
  <2> QED  BY <1>1, <1>2, <2>1, <2>2, StoresKept
<1> QED  BY <1>3, <1>4

LEMMA RestStores ==
  ASSUME TypeInv, DataInv, StoreInv,
         \/ \E x \in Writer : StartAt(x) \/ OtherWrite(x)
         \/ OtherLate
         \/ \E c \in lateCalls : LateStartAt(c)
         \/ \E r \in Replica : Snapshot(r)
         \/ /\ \/ \E x \in Thread : Pass(x)
               \/ \E x \in Thread, h \in Handler : Serve(x, h)
               \/ Read
            /\ UNCHANGED <<dataVars, syncVars>>
  PROVE  StoreInv' /\ OnlyNewer
<1>1. UNCHANGED <<log, written, store>>
  BY DEF StartAt, OtherWrite, OtherLate, LateStartAt, Snapshot, dataVars
<1>2. ASSUME NEW x \in Writer, StartAt(x) \/ OtherWrite(x)
      PROVE  \A y \in Writer : pc'[y] \in Stamped => pc[y] \in Stamped /\ seq'[y] = seq[y]
  <2>1. CASE StartAt(x)
    <3>1. pc[x] = "start" /\ ~BeginWrite(x)
      BY <2>1 DEF StartAt, ServeStart, BeginWrite, MayBegin
    <3> QED  BY <2>1, <3>1, StampedMoves DEF StartAt, Keeps, Stamped
  <2>2. CASE OpenWrite(x)
    BY <2>2, OpenMoves DEF Keeps, Stamped
  <2>3. CASE \/ DecideBroadcast(x) \/ ServeFinish(x)
             \/ FinishWrite(x) \/ FinishWithoutToken(x) \/ AbortWrite(x)
    BY <2>3, OtherWriteQuiet DEF Quiet, Keeps
  <2>4. ~ (BeginWrite(x) \/ ServeStart(x) \/ ApplyLocally(x) \/ ServeReplicate(x))
          \/ StartAt(x)
    BY <1>2 DEF OtherWrite, BeginWrite, MayBegin, ServeStart, ApplyLocally, ServeReplicate
  <2> QED  BY <1>2, <2>1, <2>2, <2>3, <2>4 DEF OtherWrite, Write
<1>3. ASSUME NEW x \in Thread, Pass(x)  PROVE Quiet
  BY <1>3, PassQuiet
<1>4. ASSUME NEW x \in Thread, NEW h \in Handler, Serve(x, h)  PROVE Quiet
  BY <1>4, ServeQuiet
<1>5. ASSUME Read \/ \E r \in Replica : Snapshot(r)  PROVE Quiet
  <2>1. UNCHANGED <<lockVars, threadVars>>
    BY <1>5 DEF Read, AcquireRead, ReleaseRead, Snapshot, vars, threadVars
  <2> QED  BY <2>1, StillQuiet
<1>6. ASSUME OtherLate \/ \E c \in lateCalls : LateStartAt(c)  PROVE Quiet
  <2>1. Late
    BY <1>6 DEF OtherLate, LateStartAt, Late
  <2> QED  BY <2>1, LateQuiet
<1>7. \A y \in Writer : pc'[y] \in Stamped => pc[y] \in Stamped /\ seq'[y] = seq[y]
  BY <1>2, <1>3, <1>4, <1>5, <1>6 DEF Quiet, Keeps
<1>8. ClocksGrow
  <2>1. ASSUME NEW x \in Writer, StartAt(x)  PROVE ClocksGrow
    <3>1. pc[x] = "start" /\ peer[x] \in Replica
      BY <2>1, ConstantFacts DEF StartAt, ServeStart, TypeInv, ThreadInv, PeersNamed
    <3>2. EntryOf(x).ts \in Nat
      BY <3>1, EntryOfIs, WrittenTypes DEF Stamped
    <3> QED  BY <2>1, <3>1, <3>2, ClockMoves DEF StartAt, DataInv
  <2>2. ASSUME NEW c \in lateCalls, LateStartAt(c)  PROVE ClocksGrow
    <3>1. PICK e \in written : clock' = [clock EXCEPT ![c.to] = Updated(@, e.ts) + 1]
      BY <2>2 DEF LateStartAt
    <3>2. c.to \in Replica /\ e.ts \in Nat
      BY WrittenTypes DEF TypeInv, NetTypeOK, Call
    <3> QED  BY <3>1, <3>2, ClockMoves DEF DataInv
  <2>3. UNCHANGED clock => ClocksGrow
    BY ClockSameGrows
  <2> QED  BY <2>1, <2>2, <2>3 DEF OtherWrite, OtherLate, Snapshot, dataVars
<1>9. NoneSettles
  BY <1>1, LogSameSettles
<1> QED  BY <1>1, <1>7, <1>8, <1>9, StoresKept

LEMMA StoreStep ==
  ASSUME TypeInv, DataInv, DataInv', TimeInv, StoreInv, OneWriter, OneWriter',
         [CacheNext]_cacheVars
  PROVE  StoreInv' /\ (OnlyNewer \/ work' # work \/ lateEntries' # lateEntries)
<1>1. ASSUME NEW x \in Writer, WriteData(x)  PROVE StoreInv' /\ OnlyNewer
  BY <1>1, StampStores, LocalStores, PeerStores, RestStores DEF WriteData
<1>2. CASE CacheNext
  BY <1>1, <1>2, FailStores, LateStores, SyncStores, RestStores DEF CacheNext
<1>3. CASE UNCHANGED cacheVars
  <2>1. UNCHANGED <<written, log, clock, store>> /\ UNCHANGED <<pc, seq>>
    BY <1>3 DEF cacheVars, vars, threadVars, dataVars
  <2> QED  BY <2>1, LogSameSettles, ClockSameGrows, StoresKept
<1> QED  BY <1>2, <1>3

LEMMA StoreInit == CacheInit => StoreInv
<1> SUFFICES ASSUME CacheInit  PROVE StoreInv
  OBVIOUS
<1>1. \A x \in Writer : pc[x] = "idle"
  BY ConstantFacts DEF CacheInit, Init
<1> QED  BY <1>1 DEF CacheInit, StoreInv, StoreTypes, StorePassed, Leads, Stamped, NoEntry

\* An entry never takes the place of a newer one but by a sync or a replicate call that
\* comes late (apply_write looks at nothing): the start calls have moved every clock past
\* the entry of a write before it is stored, so that the next write is later than all
\* that any replica has, whatever calls failed or were late, and syncs and late replicate
\* calls may store beside it.  abort_local_write must not clear the flag of another write.
THEOREM NewerReplacesOlder == UnabortedCacheSpec => NewerReplaces
<1>1. CacheInit => TypeInv /\ DataInv /\ TimeInv /\ StoreInv
  BY TypeInit, DataInit, TimeInit, StoreInit DEF CacheInit
<1>2. TypeInv /\ DataInv /\ [CacheNext /\ AbortsApart]_cacheVars => TypeInv' /\ DataInv'
  <2>1. DataInv /\ [CacheNext]_cacheVars => [SerialNext]_vars
    BY DataLeavesLock DEF cacheVars
  <2> QED  BY <2>1, TypeStep, SerialIsNext, DataStep
<1>3. TypeInv /\ TypeInv' /\ DataInv /\ DataInv' /\ TimeInv /\ OneWriter'
        /\ [CacheNext /\ AbortsApart]_cacheVars => TimeInv'
  BY TimeStep
<1>4. TypeInv /\ DataInv /\ DataInv' /\ TimeInv /\ StoreInv /\ OneWriter /\ OneWriter'
        /\ [CacheNext /\ AbortsApart]_cacheVars
        => /\ StoreInv'
           /\ [\A r \in Replica, k \in Key :
                 store'[r][k] # store[r][k] =>
                   store'[r][k].ts > store[r][k].ts \/ work' # work \/ lateEntries' # lateEntries
              ]_cacheVars
  BY StoreStep DEF OnlyNewer
<1> QED  BY <1>1, <1>2, <1>3, <1>4, WritesApart, PTL DEF UnabortedCacheSpec, NewerReplaces

-----------------------------------------------------------------------------
(* Types: the invariant.                                                    *)

FetchTypes ==
  /\ fetch \in [Syncer -> [stage : {"none", "ask", "got"}, since : Nat, had : SUBSET Entry]]
  /\ syncs \in 0..MaxSyncs

\* A log has no write twice, and its clock has passed all that it has.
LogsOnce ==
  \A r \in Replica : \A i, j \in DOMAIN log[r] : SameWrite(log[r][i], log[r][j]) => i = j

ClocksLead == \A r \in Replica : \A e \in Range(log[r]) : e.ts <= clock[r]

CacheTypes == StoreTypes /\ FetchTypes /\ LogsOnce /\ ClocksLead

LEMMA TypesFromInv == DataInv /\ AnswerInv /\ CacheTypes => CacheTypeOK
<1> SUFFICES ASSUME DataInv, AnswerInv, CacheTypes  PROVE CacheTypeOK
  OBVIOUS
<1>1. ASSUME NEW r \in Replica
      PROVE  snapshots[r] \subseteq [since : Nat, length : 0..Len(log[r])]
  <2>1. snapshots[r] \subseteq [since : Nat, length : Nat] /\ Len(log[r]) \in Nat
    BY DEF DataInv, DataTypes
  <2>2. \A p \in snapshots[r] : p.length \in 0..Len(log[r])
    BY <2>1 DEF DataInv, DataTypes
  <2> QED  BY <2>1, <2>2
<1> QED  BY <1>1 DEF DataInv, DataTypes, AnswerInv, AnswerTypes, CacheTypes, StoreTypes,
        FetchTypes, LogsOnce, CacheTypeOK

\* A set of numbers that has a bound and a member has a greatest one.
LEMMA GreatestIs ==
  ASSUME NEW S \in SUBSET Nat, NEW b \in Nat, \A n \in S : n <= b, NEW a \in S
  PROVE  \E n \in S : \A m \in S : m <= n
<1> DEFINE U == {u \in Nat : \A n \in S : n <= u}
<1>1. U \subseteq Nat /\ U # {}
  OBVIOUS
<1>2. PICK u \in U : \A v \in U : ~(<<v, u>> \in OpToRel(<, Nat))
  BY <1>1, WFMin, NatLessThanWellFounded, Zenon
<1>3. \A v \in U : ~(v < u)
  BY <1>1, <1>2, Zenon DEF OpToRel
<1>4. CASE u \in S
  BY <1>4
<1>5. CASE u \notin S
  <2>1. u \in Nat /\ \A n \in S : n <= u /\ n \in Nat /\ n # u
    BY <1>5
  <2>2. u - 1 \in U /\ u - 1 < u
    BY <2>1
  <2> QED  BY <1>3, <2>2
<1> QED  BY <1>4, <1>5

LEMMA LatestTsIs ==
  ASSUME DataInv, CacheTypes, NEW r \in Replica
  PROVE  LatestTs(r) \in Nat /\ \A e \in Range(log[r]) : e.ts <= LatestTs(r)
<1> DEFINE S == {0} \cup {e.ts : e \in Range(log[r])}
<1>1. clock[r] \in Nat /\ Range(log[r]) \subseteq written
  BY DEF DataInv, DataTypes, AllSettled, Settled
<1>2. S \in SUBSET Nat /\ 0 \in S /\ \A n \in S : n <= clock[r]
  BY <1>1, WrittenTypes DEF CacheTypes, ClocksLead
<1>3. \E n \in S : \A m \in S : m <= n
  <2> HIDE DEF S
  <2> QED  BY <1>1, <1>2, GreatestIs
<1>4. \E n \in S : \A e \in Range(log[r]) : e.ts <= n
  BY <1>3
<1>5. LatestTs(r) = CHOOSE n \in S : \A e \in Range(log[r]) : e.ts <= n
  BY DEF LatestTs
<1>6. LatestTs(r) \in S /\ \A e \in Range(log[r]) : e.ts <= LatestTs(r)
  <2> HIDE DEF S
  <2> QED  BY <1>4, <1>5
<1> QED  BY <1>2, <1>6

-----------------------------------------------------------------------------
(* How a step keeps it.                                                     *)

LEMMA OnceKept ==
  ASSUME DataInv, CacheTypes, NEW r \in Replica, NEW e \in written, Stored(r, e)
  PROVE  LogsOnce'
<1>1. e \in Entry /\ log \in [Replica -> Seq(Entry)]
  BY DEF DataInv, DataTypes
<1>2. log' = [log EXCEPT ![r] = Recorded(log[r], e)]
  BY DEF Stored
<1>3. \A q \in Replica \ {r} : log'[q] = log[q]
  BY <1>1, <1>2
<1>4. log'[r] = Recorded(log[r], e)
  BY <1>1, <1>2
<1>5. ASSUME NEW i \in DOMAIN log'[r], NEW j \in DOMAIN log'[r],
             SameWrite(log'[r][i], log'[r][j])
      PROVE  i = j
  <2>1. CASE \E f \in Range(log[r]) : SameWrite(e, f)
    <3>1. log'[r] = log[r]
      BY <1>4, <2>1 DEF Recorded
    <3> QED  BY <1>5, <3>1 DEF CacheTypes, LogsOnce
  <2>2. CASE ~ \E f \in Range(log[r]) : SameWrite(e, f)
    <3> DEFINE n == Len(log[r])
    <3>1. log'[r] = Append(log[r], e)
      BY <1>4, <2>2 DEF Recorded
    <3>2. /\ n \in Nat /\ DOMAIN log[r] = 1..n /\ DOMAIN log'[r] = 1..n + 1
          /\ log'[r][n + 1] = e /\ \A k \in 1..n : log'[r][k] = log[r][k]
      BY <1>1, <3>1
    <3>3. \A k \in 1..n : ~SameWrite(e, log[r][k]) /\ ~SameWrite(log[r][k], e)
      BY <2>2, <3>2 DEF Range, SameWrite
    <3>4. CASE i \in 1..n /\ j \in 1..n
      BY <1>5, <3>2, <3>4 DEF CacheTypes, LogsOnce
    <3>5. CASE i = n + 1 \/ j = n + 1
      BY <1>5, <3>2, <3>3, <3>5
    <3> QED  BY <3>2, <3>4, <3>5
  <2> QED  BY <2>1, <2>2
<1> QED  BY <1>3, <1>5 DEF CacheTypes, LogsOnce

\* A step that records no entry
LEMMA TypesKept ==
  ASSUME DataInv, CacheTypes, UNCHANGED log, ClocksGrow, StoreTypes', FetchTypes'
  PROVE  CacheTypes'
<1>1. LogsOnce'
  BY DEF CacheTypes, LogsOnce
<1>2. ASSUME NEW r \in Replica, NEW e \in Range(log[r])  PROVE e.ts <= clock'[r]
  <2>1. e.ts <= clock[r] /\ e.ts \in Nat
    BY WrittenTypes DEF CacheTypes, ClocksLead, DataInv, AllSettled, Settled
  <2> QED  BY <2>1, ClockReaches
<1> QED  BY <1>1, <1>2 DEF CacheTypes, ClocksLead

LEMMA StoredTypes ==
  ASSUME DataInv, CacheTypes, NEW r \in Replica, NEW e \in written, Stored(r, e),
         ClocksGrow, clock'[r] >= e.ts, FetchTypes'
  PROVE  CacheTypes'
<1>1. e \in Entry /\ e.key \in Key /\ e.ts \in Nat
  BY EntryTypes DEF DataInv, DataTypes, Entry
<1>2. StoreTypes'
  BY <1>1 DEF Stored, CacheTypes, StoreTypes
<1>3. /\ Range(log'[r]) = Range(log[r]) \cup {e}
      /\ \A q \in Replica \ {r} : log'[q] = log[q]
  BY StoredIs
<1>4. ASSUME NEW q \in Replica, NEW f \in Range(log'[q])  PROVE f.ts <= clock'[q]
  <2>1. CASE f \in Range(log[q])
    <3>1. f.ts <= clock[q] /\ f.ts \in Nat
      BY <2>1, WrittenTypes DEF CacheTypes, ClocksLead, DataInv, AllSettled, Settled
    <3> QED  BY <3>1, ClockReaches
  <2>2. CASE q = r /\ f = e
    <3>1. clock'[r] \in Nat
      BY DEF ClocksGrow
    <3> QED  BY <1>1, <2>2, <3>1
  <2> QED  BY <1>3, <1>4, <2>1, <2>2
<1> QED  BY <1>2, <1>4, OnceKept DEF CacheTypes, ClocksLead

LEMMA WriteTypes ==
  ASSUME TypeInv, DataInv, CacheTypes, NEW x \in Writer, WriteData(x)
  PROVE  CacheTypes'
<1>0. /\ x \in Thread /\ Home[x] \in Replica
      /\ pc[x] \in Stamped => EntryOf(x) \in written /\ EntryOf(x).id = Id(x) /\ EntryOf(x).ts \in Nat
  BY ConstantFacts, EntryOfIs, WrittenTypes
<1>1. FetchTypes'
  BY DEF WriteData, StampWrite, StartAt, StoreLocally, ReplicateTo, OtherWrite, syncVars,
     CacheTypes, FetchTypes
<1>2. ASSUME NEW k \in Key, StampWrite(x, k)  PROVE CacheTypes'
  <2>1. UNCHANGED <<log, store>> /\ clock' = [clock EXCEPT ![Home[x]] = @ + 1]
    BY <1>2 DEF StampWrite
  <2>2. ClocksGrow
    BY <1>0, <2>1 DEF ClocksGrow, DataInv, DataTypes
  <2> QED  BY <1>1, <2>1, <2>2, TypesKept DEF CacheTypes, StoreTypes
<1>3. CASE StartAt(x)
  <2>1. UNCHANGED <<log, store>> /\ pc[x] = "start" /\ peer[x] \in Replica
    BY <1>0, <1>3 DEF StartAt, ServeStart, TypeInv, ThreadInv, PeersNamed
  <2>2. ClocksGrow
    BY <1>0, <1>3, <2>1, ClockMoves DEF StartAt, DataInv, Stamped
  <2> QED  BY <1>1, <2>1, <2>2, TypesKept DEF CacheTypes, StoreTypes
<1>4. CASE StoreLocally(x)
  <2>1. pc[x] = "apply" /\ Stored(Home[x], EntryOf(x)) /\ UNCHANGED clock
    BY <1>4 DEF StoreLocally, ApplyLocally
  <2>2. EntryOf(x) \in written /\ EntryOf(x).id[1] = Home[x] /\ EntryOf(x).ts \in Nat
    BY <1>0, <2>1, IdType DEF Stamped
  <2>3. ClocksGrow /\ clock'[Home[x]] >= EntryOf(x).ts
    <3>1. EntryOf(x).ts <= clock[Home[x]] /\ clock[Home[x]] \in Nat
      BY <1>0, <2>2 DEF DataInv, Stamps, DataTypes
    <3> QED  BY <2>1, <2>2, <3>1, ClockSameGrows
  <2> QED  BY <1>0, <1>1, <2>1, <2>2, <2>3, StoredTypes
<1>5. CASE ReplicateTo(x)
  <2>1. /\ pc[x] = "replicate" /\ peer[x] \in Replica /\ Stored(peer[x], EntryOf(x))
        /\ clock' = [clock EXCEPT ![peer[x]] = Updated(@, EntryOf(x).ts)]
    BY <1>0, <1>5 DEF ReplicateTo, ServeReplicate, TypeInv, ThreadInv, PeersNamed
  <2> QED  BY <1>0, <1>1, <2>1, UpdatedReaches, StoredTypes DEF Stamped
<1>6. CASE OtherWrite(x)
  BY <1>1, <1>6, ClockSameGrows, TypesKept DEF OtherWrite, dataVars, CacheTypes, StoreTypes
<1> QED  BY <1>2, <1>3, <1>4, <1>5, <1>6 DEF WriteData

LEMMA FailTypes ==
  ASSUME TypeInv, DataInv, CacheTypes, NEW x \in Thread, FailData(x)
  PROVE  CacheTypes'
<1>1. UNCHANGED <<log, clock>> /\ UNCHANGED <<fetch, syncs>>
  BY DEF FailData, FailEarly, FailToReplicate, FailElsewhere, dataVars, syncVars
<1>2. StoreTypes'
  <2>1. CASE UNCHANGED store
    BY <2>1 DEF CacheTypes, StoreTypes
  <2>2. CASE ~UNCHANGED store
    <3>1. /\ x \in Writer /\ pc[x] = "apply"
          /\ store' = [store EXCEPT ![Home[x]][EntryOf(x).key] = EntryOf(x)]
      BY <2>2 DEF FailData, FailEarly, FailToReplicate, FailElsewhere, dataVars
    <3>2. EntryOf(x) \in Entry /\ EntryOf(x).key \in Key
      BY <3>1, EntryOfIs DEF Stamped, DataInv, DataTypes, Entry
    <3> QED  BY <3>1, <3>2 DEF CacheTypes, StoreTypes
  <2> QED  BY <2>1, <2>2
<1>3. FetchTypes'
  BY <1>1 DEF CacheTypes, FetchTypes
<1> QED  BY <1>1, <1>2, <1>3, ClockSameGrows, TypesKept

LEMMA LateTypes ==
  ASSUME TypeInv, DataInv, CacheTypes,
         \/ \E m \in lateEntries : LateReplicate(m)
         \/ OtherLate
         \/ \E c \in lateCalls : LateStartAt(c)
  PROVE  CacheTypes'
<1>1. FetchTypes'
  BY DEF LateReplicate, OtherLate, LateStartAt, syncVars, CacheTypes, FetchTypes
<1>2. ASSUME NEW m \in lateEntries, LateReplicate(m)  PROVE CacheTypes'
  <2>1. m.to \in Replica /\ m.entry \in written
    BY DEF DataInv, DataTypes, AllSettled, Settled
  <2>2. Stored(m.to, m.entry) /\ clock' = [clock EXCEPT ![m.to] = Updated(@, m.entry.ts)]
    BY <1>2 DEF LateReplicate
  <2> QED  BY <1>1, <2>1, <2>2, UpdatedReaches, StoredTypes
<1>3. CASE OtherLate
  BY <1>1, <1>3, ClockSameGrows, TypesKept DEF OtherLate, dataVars, CacheTypes, StoreTypes
<1>4. ASSUME NEW c \in lateCalls, LateStartAt(c)  PROVE CacheTypes'
  <2>1. PICK e \in written : clock' = [clock EXCEPT ![c.to] = Updated(@, e.ts) + 1]
    BY <1>4 DEF LateStartAt
  <2>2. c.to \in Replica /\ e.ts \in Nat
    BY WrittenTypes DEF TypeInv, NetTypeOK, Call
  <2>3. ClocksGrow
    BY <2>1, <2>2, ClockMoves DEF DataInv
  <2> QED  BY <1>1, <1>4, <2>3, TypesKept DEF LateStartAt, CacheTypes, StoreTypes
<1> QED  BY <1>2, <1>3, <1>4

LEMMA SyncTypes ==
  ASSUME TypeInv, DataInv, CacheTypes, NEW x \in Syncer, SyncData(x)
  PROVE  CacheTypes'
<1>0. Home[x] \in Replica /\ MaxSyncs \in Nat
  BY ConstantFacts, CacheAssumption
<1>1. FetchTypes'
  <2>1. CASE Replay(x)
    BY <1>0, <2>1 DEF Replay, CacheTypes, FetchTypes
  <2>2. CASE AskEntries(x)
    <3> DEFINE asked == [fetch[x] EXCEPT !.stage = "ask", !.since = LatestTs(Home[x])]
    <3>1. LatestTs(Home[x]) \in Nat
      BY <1>0, LatestTsIs
    <3>2. fetch[x] \in [stage : {"none", "ask", "got"}, since : Nat, had : SUBSET Entry]
      BY DEF CacheTypes, FetchTypes
    <3>3. asked \in [stage : {"none", "ask", "got"}, since : Nat, had : SUBSET Entry]
      BY <3>1, <3>2
    <3>4. /\ syncs < MaxSyncs /\ syncs' = syncs + 1
          /\ fetch' = [fetch EXCEPT ![x] = asked]
      BY <2>2 DEF AskEntries
    <3> HIDE DEF asked
    <3>5. syncs' \in 0..MaxSyncs
      BY <1>0, <3>4 DEF CacheTypes, FetchTypes
    <3> QED  BY <3>3, <3>4, <3>5 DEF CacheTypes, FetchTypes
  <2>3. ASSUME NEW q \in Replica, ExportEntries(x, q)  PROVE FetchTypes'
    <3>1. Range(log[q]) \subseteq Entry
      BY DEF DataInv, DataTypes, AllSettled, Settled
    <3> QED  BY <2>3, <3>1 DEF ExportEntries, CacheTypes, FetchTypes
  <2>4. CASE EndFetch(x) \/ EndApply(x)
    BY <2>4 DEF EndFetch, EndApply, NoFetch, CacheTypes, FetchTypes
  <2>5. CASE ApplyFetched(x) \/ ApplyEntry(x)
    BY <2>5 DEF ApplyFetched, ApplyEntry, CacheTypes, FetchTypes
  <2> QED  BY <2>1, <2>2, <2>3, <2>4, <2>5 DEF SyncData
<1>2. CASE ApplyEntry(x)
  <2>1. PICK e \in Oldest(work[x]) :
          Stored(Home[x], e) /\ clock' = [clock EXCEPT ![Home[x]] = Updated(@, e.ts)]
    BY <1>2 DEF ApplyEntry
  <2>2. e \in written
    BY DEF Oldest, DataInv, AllSettled, Settled
  <2> QED  BY <1>0, <1>1, <2>1, <2>2, UpdatedReaches, StoredTypes
<1>3. CASE ~ApplyEntry(x)
  <2>1. UNCHANGED <<log, clock, store>>
    BY <1>3 DEF SyncData, Replay, AskEntries, EndFetch, ApplyFetched, EndApply,
       ExportEntries, dataVars
  <2> QED  BY <1>1, <2>1, ClockSameGrows, TypesKept DEF CacheTypes, StoreTypes
<1> QED  BY <1>2, <1>3

LEMMA TypesStep == TypeInv /\ DataInv /\ CacheTypes /\ [CacheNext]_cacheVars => CacheTypes'
<1> SUFFICES ASSUME TypeInv, DataInv, CacheTypes, [CacheNext]_cacheVars  PROVE CacheTypes'
  OBVIOUS
<1>1. ASSUME UNCHANGED <<log, clock, store, fetch, syncs>>  PROVE CacheTypes'
  BY <1>1, ClockSameGrows, TypesKept DEF CacheTypes, StoreTypes, FetchTypes
<1>2. ASSUME NEW r \in Replica, Snapshot(r)  PROVE CacheTypes'
  BY <1>1, <1>2 DEF Snapshot, syncVars
<1>3. CASE UNCHANGED <<dataVars, syncVars>>
  BY <1>1, <1>3 DEF dataVars, syncVars
<1>4. CASE CacheNext
  BY <1>2, <1>3, <1>4, WriteTypes, FailTypes, LateTypes, SyncTypes DEF CacheNext
<1>5. CASE UNCHANGED cacheVars
  BY <1>3, <1>5 DEF cacheVars
<1> QED  BY <1>4, <1>5

LEMMA TypesInit == CacheInit => CacheTypes
<1> SUFFICES ASSUME CacheInit  PROVE CacheTypes
  OBVIOUS
<1>1. ASSUME NEW r \in Replica  PROVE log[r] = <<>> /\ DOMAIN log[r] = {} /\ Range(log[r]) = {}
  <2>1. log[r] = <<>>
    BY DEF CacheInit
  <2>2. DOMAIN log[r] = {}
    BY <2>1
  <2> QED  BY <2>1, <2>2 DEF Range
<1>3. LogsOnce
  BY <1>1 DEF LogsOnce
<1>4. ClocksLead
  BY <1>1 DEF ClocksLead
<1>2. LogsOnce /\ ClocksLead
  BY <1>3, <1>4
<1> QED  BY <1>2, CacheAssumption DEF CacheInit, CacheTypes, StoreTypes, FetchTypes, NoFetch

\* Clocks, logs, snapshots and answers keep their types through every failure and sync,
\* and _append_if_new records no write twice, whichever way it comes.
THEOREM CacheTypesHold == CacheSpec => []CacheTypeOK
<1>1. CacheInit => TypeInv /\ DataInv /\ AnswerInv /\ CacheTypes
  BY TypeInit, DataInit, AnswerInit, TypesInit DEF CacheInit
<1>2. TypeInv /\ DataInv /\ AnswerInv /\ CacheTypes /\ [CacheNext]_cacheVars
        => TypeInv' /\ DataInv' /\ AnswerInv' /\ CacheTypes'
  <2>1. DataInv /\ [CacheNext]_cacheVars => [SerialNext]_vars
    BY DataLeavesLock DEF cacheVars
  <2> QED  BY <2>1, TypeStep, SerialIsNext, DataStep, AnswerStep, TypesStep
<1>3. DataInv /\ AnswerInv /\ CacheTypes => CacheTypeOK
  BY TypesFromInv
<1> QED  BY <1>1, <1>2, <1>3, PTL DEF CacheSpec

=============================================================================
