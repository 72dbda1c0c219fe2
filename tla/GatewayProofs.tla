-------------------------------- MODULE GatewayProofs --------------------------------
(***************************************************************************)
(* Theorems about Gateway, for any replicas, requests, failures and calls  *)
(* given up: what a client that was told "ok" can rely on, and what the    *)
(* failover stores.                                                        *)
(***************************************************************************)
EXTENDS Gateway, WellFoundedInduction, TLAPS

-----------------------------------------------------------------------------
(* The invariant.                                                           *)

\* A request that waits for a replica waits for a handler that runs there.
Types ==
  /\ pc \in [Request -> Label] /\ targets \in [Request -> SUBSET Replica]
  /\ calling \in [Request -> Replica \cup {Nobody}]
  /\ answer \in [Request -> Answer]
  /\ history \in Seq(WriteTaken)
  /\ store \in [Replica -> 0..Len(history)] /\ seen \in [Request -> 0..Len(history)]
  /\ lateStores \subseteq [to : Replica, entry : DOMAIN history]
  /\ handler \in [Task -> Operation \cup {"idle"}]
  /\ \A q \in Request : pc[q] \in Operation \cup {"infer"} => calling[q] \in Replica
  /\ \A q \in Request : pc[q] \in Operation => handler[<<q, calling[q]>>] = pc[q]

\* Only degraded writes leave calls behind.
Late == \A m \in lateStores : history[m.entry].status = "degraded"

\* Entry e is as new as n, or a replicate call of a degraded write may have brought it.
Current(h, e, n) == e >= n \/ (e # 0 /\ h[e].status = "degraded")

\* What a client was told to be on every replica is there, or something current.
Told ==
  \A q \in Request :
    /\ answer[q].entry <= Len(history)
    /\ pc[q] = "done" /\ answer[q].status = "ok" /\ answer[q].cache # "hit" =>
         \A r \in Replica : Current(history, store[r], answer[q].entry)

\* A query that was accepted after a committed write finds something current at every
\* replica, and so never gets as far as inference.
Seen ==
  \A q \in Queries :
    /\ \A r \in Replica : Current(history, store[r], seen[q])
    /\ seen[q] # 0 => pc[q] \in {"next", "read", "done"}
    /\ seen[q] # 0 /\ pc[q] = "done" =>
         /\ answer[q].cache \in {"hit", "replicas_unavailable"}
         /\ answer[q].cache = "hit" =>
              answer[q].entry <= Len(history) /\ Current(history, answer[q].entry, seen[q])

\* A request none of whose calls was given up has one handler at most, for which it
\* waits ...
Alone ==
  \A q \in Request \ timedOut : \A r \in Replica :
    handler[<<q, r>>] # "idle" => calling[q] = r /\ pc[q] = handler[<<q, r>>]

\* ... so that it is over when it has stored its entry, unless the replica failed then.
Stores ==
  \A i \in DOMAIN history :
    history[i].by \notin timedOut => pc[history[i].by] = "done" \/ history[i].raised

Repeated ==
  \A i, j \in DOMAIN history :
    i < j /\ history[i].by = history[j].by => history[i].raised \/ history[i].by \in timedOut

\* A request calls a replica for a read, a write or an arm once, and stores its entry
\* there once.
StoredAt(q, r) == \E i \in DOMAIN history : history[i].by = q /\ history[i].at = r
Spent ==
  /\ \A q \in Request, r \in Replica :
       /\ handler[<<q, r>>] # "idle" \/ calling[q] = r \/ StoredAt(q, r) =>
            r \notin targets[q] /\ pc[q] # "new"
       /\ StoredAt(q, r) \/ (pc[q] = "infer" /\ calling[q] = r) => handler[<<q, r>>] = "idle"
       /\ StoredAt(q, r) => ~(pc[q] = "infer" /\ calling[q] = r)
  /\ \A i, j \in DOMAIN history :
       history[i].by = history[j].by /\ history[i].at = history[j].at => i = j

GatewayInv == Types /\ Late /\ Told /\ Seen /\ Alone /\ Stores /\ Repeated /\ Spent

LEMMA PropertiesFromInv == GatewayInv => GatewayTypeOK /\ CommittedRead /\ StoredOnce
<1> SUFFICES ASSUME GatewayInv
             PROVE  GatewayTypeOK /\ CommittedRead /\ StoredOnce
  OBVIOUS
<1>1. GatewayTypeOK
  BY DEF GatewayInv, Types, GatewayTypeOK
<1>2. CommittedRead
  BY DEF GatewayInv, Seen, Current, CommittedRead
<1>3. StoredOnce
  <2>1. \A i, j \in DOMAIN history : i < j => i # j
    BY DEF GatewayInv, Types
  <2> QED  BY <2>1 DEF GatewayInv, Repeated, Spent, StoredOnce
<1> QED  BY <1>1, <1>2, <1>3

-----------------------------------------------------------------------------
(* The newest committed write.                                              *)

\* A set of numbers that has a bound and a member has a greatest one.
LEMMA GreatestExists ==
  ASSUME NEW S \in SUBSET Nat, NEW b \in Nat, \A n \in S : n <= b, NEW a \in S
  PROVE  \E n \in S : \A m \in S : m <= n
<1> DEFINE U == {u \in Nat : \A n \in S : n <= u}
<1>1. U \subseteq Nat /\ U # {}
  OBVIOUS
<1>2. PICK u \in U : \A v \in U : ~(<<v, u>> \in OpToRel(<, Nat))
  BY <1>1, WFMin, NatLessThanWellFounded, Zenon
<1>3. \A v \in U : ~(v < u)
  BY <1>1, <1>2, Zenon DEF OpToRel
<1>4. CASE u \in S
  BY <1>4
<1>5. CASE u \notin S
  <2>1. u \in Nat /\ \A n \in S : n <= u /\ n \in Nat /\ n # u
    BY <1>5
  <2>2. u - 1 \in Nat /\ \A n \in S : n <= u - 1
    BY <2>1
  <2>3. u - 1 \in U /\ u - 1 < u
    BY <2>1, <2>2
  <2> QED  BY <1>3, <2>3
<1> QED  BY <1>4, <1>5

LEMMA CommittedIs ==
  ASSUME GatewayInv
  PROVE  /\ Committed \in 0..Len(history)
         /\ \A r \in Replica : Current(history, store[r], Committed)
<1> DEFINE told == {answer[q].entry : q \in {p \in Request :
                     /\ pc[p] = "done" /\ answer[p].status = "ok"
                     /\ answer[p].cache # "hit"}} \cup {0}
<1>1. Len(history) \in Nat /\ answer \in [Request -> Answer] /\ store \in [Replica -> 0..Len(history)]
  BY DEF GatewayInv, Types
<1>2. told \in SUBSET Nat /\ \A n \in told : n <= Len(history)
  BY <1>1 DEF GatewayInv, Told, Answer
<1>3. \A n \in told : \A r \in Replica : Current(history, store[r], n)
  <2>1. \A r \in Replica : Current(history, store[r], 0)
    BY <1>1 DEF Current
  <2> QED  BY <2>1 DEF GatewayInv, Told
<1>4. Committed = CHOOSE n \in told : \A m \in told : m <= n
  BY DEF Committed
<1>5. 0 \in told
  OBVIOUS
<1> HIDE DEF told
<1>6. \E n \in told : \A m \in told : m <= n
  BY <1>1, <1>2, <1>5, GreatestExists
<1>7. Committed \in told
  BY <1>4, <1>6
<1> QED  BY <1>1, <1>2, <1>3, <1>7

-----------------------------------------------------------------------------
(* The steps.                                                               *)

LEMMA TaskFacts ==
  /\ \A q \in Request, r \in Replica : <<q, r>> \in Task
  /\ \A x \in Task : x[1] \in Request /\ x[2] \in Replica /\ x = <<x[1], x[2]>>
  /\ Nobody \notin Replica /\ Queries \subseteq Request /\ Arms \subseteq Request
  /\ Queries \cap Writes = {} /\ Queries \cap Arms = {} /\ Writes \cap Arms = {}
BY RequestAssumption DEF Task, Request

\* A request that does not wait for a replica, and none of whose calls was given up,
\* has no handler.
LEMMA NoHandler ==
  ASSUME GatewayInv, NEW q \in Request \ timedOut, pc[q] \notin Operation, NEW r \in Replica
  PROVE  handler[<<q, r>>] = "idle"
BY TaskFacts DEF GatewayInv, Types, Alone

LEMMA AloneKept ==
  ASSUME GatewayInv, NEW q \in Request, pc[q] \notin Operation, UNCHANGED <<handler, timedOut>>,
         \A p \in Request \ {q} : pc'[p] = pc[p] /\ calling'[p] = calling[p]
  PROVE  Alone'
BY NoHandler DEF GatewayInv, Alone

LEMMA HistoryFacts ==
  ASSUME NEW h \in Seq(WriteTaken)
  PROVE  /\ Len(h) \in Nat /\ DOMAIN h = 1..Len(h)
         /\ \A i \in DOMAIN h :
              h[i].by \in Request /\ h[i].at \in Replica /\ h[i].raised \in BOOLEAN
<1>1. Len(h) \in Nat /\ DOMAIN h = 1..Len(h) /\ \A i \in DOMAIN h : h[i] \in WriteTaken
  OBVIOUS
<1>2. \A w \in WriteTaken : w.by \in Request /\ w.at \in Replica /\ w.raised \in BOOLEAN
  BY DEF WriteTaken
<1> QED  BY <1>1, <1>2

\* A step of the gateway that is about q alone
LEMMA UnstoredKept ==
  ASSUME GatewayInv, NEW q \in Request, UNCHANGED <<storeVars, timedOut>>, pc[q] # "done",
         \A p \in Request \ {q} : pc'[p] = pc[p]
  PROVE  Late' /\ Stores' /\ Repeated'
<1>1. \A i \in DOMAIN history : history[i].by \in Request
  BY HistoryFacts DEF GatewayInv, Types
<1>2. history' = history /\ lateStores' = lateStores /\ timedOut' = timedOut
  BY DEF storeVars
<1>3. Late' /\ Repeated'
  BY <1>2 DEF GatewayInv, Late, Repeated
<1>4. ASSUME NEW i \in DOMAIN history, history[i].by \notin timedOut
      PROVE  pc'[history[i].by] = "done" \/ history[i].raised
  <2>1. pc[history[i].by] = "done" \/ history[i].raised
    BY <1>4 DEF GatewayInv, Stores
  <2> QED  BY <1>1, <2>1
<1> QED  BY <1>2, <1>3, <1>4 DEF Stores

LEMMA SpentKept ==
  ASSUME GatewayInv, NEW q \in Request, UNCHANGED <<storeVars, handler>>,
         \A p \in Request \ {q} : /\ pc'[p] = pc[p] /\ calling'[p] = calling[p]
                                  /\ targets'[p] = targets[p],
         pc'[q] \notin {"new", "infer"}, calling'[q] \in {calling[q], Nobody},
         targets'[q] \subseteq targets[q] \/ pc[q] = "new"
  PROVE  Spent'
<1>1. \A p \in Request, n \in Replica : StoredAt(p, n)' <=> StoredAt(p, n)
  BY DEF StoredAt, storeVars
<1>2. ASSUME NEW p \in Request, NEW n \in Replica,
             handler'[<<p, n>>] # "idle" \/ calling'[p] = n \/ StoredAt(p, n)'
      PROVE  n \notin targets'[p] /\ pc'[p] # "new"
  BY <1>1, <1>2, RequestAssumption DEF GatewayInv, Spent
<1>3. ASSUME NEW p \in Request, NEW n \in Replica
      PROVE  /\ StoredAt(p, n)' \/ (pc'[p] = "infer" /\ calling'[p] = n) => handler'[<<p, n>>] = "idle"
             /\ StoredAt(p, n)' => ~(pc'[p] = "infer" /\ calling'[p] = n)
  BY <1>1 DEF GatewayInv, Spent
<1>4. \A i, j \in DOMAIN history' :
        history'[i].by = history'[j].by /\ history'[i].at = history'[j].at => i = j
  BY DEF GatewayInv, Spent, storeVars
<1> QED  BY <1>2, <1>3, <1>4 DEF Spent

LEMMA AcceptKept ==
  ASSUME GatewayInv, NEW q \in Request, Accept(q)
  PROVE  GatewayInv'
<1>0. /\ UNCHANGED <<storeVars, timedOut>> /\ pc[q] # "done"
      /\ \A p \in Request \ {q} : /\ pc'[p] = pc[p] /\ calling'[p] = calling[p]
                                   /\ targets'[p] = targets[p]
  BY DEF GatewayInv, Types, Goto, callVars, callerVars, Accept
<1>1. Types'
  BY TaskFacts, CommittedIs DEF GatewayInv, Types, Label, Status, CacheStatus, Answer,
     Operation, Goto, Targets, callerVars, callVars, storeVars, Accept
<1>2. Told'
  BY TaskFacts DEF GatewayInv, Types, Told, Goto, Answer, callerVars, callVars,
     storeVars, Accept
<1>3. Seen'
  BY TaskFacts, CommittedIs DEF GatewayInv, Types, Seen, Goto, Answer, callerVars,
     callVars, storeVars, Accept
<1>4. Alone'
  <2>1. pc[q] \notin Operation /\ UNCHANGED <<handler, timedOut>>
    BY DEF Operation, callVars, callerVars, storeVars, Accept
  <2> QED  BY <1>0, <2>1, AloneKept
<1>6. Late' /\ Stores' /\ Repeated'
  BY <1>0, UnstoredKept
<1>7. Spent'
  <2>1. /\ UNCHANGED handler /\ pc'[q] \notin {"new", "infer"}
        /\ calling'[q] \in {calling[q], Nobody}
        /\ targets'[q] \subseteq targets[q] \/ pc[q] = "new"
    BY DEF GatewayInv, Types, Goto, callVars, callerVars, Accept
  <2> QED  BY <1>0, <2>1, SpentKept
<1> QED  BY <1>1, <1>2, <1>3, <1>4, <1>6, <1>7 DEF GatewayInv

LEMMA AcceptArmKept ==
  ASSUME GatewayInv, NEW q \in Request, AcceptArm(q)
  PROVE  GatewayInv'
<1>0. /\ UNCHANGED <<storeVars, timedOut>> /\ pc[q] # "done"
      /\ \A p \in Request \ {q} : /\ pc'[p] = pc[p] /\ calling'[p] = calling[p]
                                   /\ targets'[p] = targets[p]
  BY DEF GatewayInv, Types, Goto, callVars, callerVars, AcceptArm
<1>1. Types'
  BY TaskFacts, CommittedIs DEF GatewayInv, Types, Label, Status, CacheStatus, Answer,
     Operation, Goto, Targets, callerVars, callVars, storeVars, AcceptArm
<1>2. Told'
  BY TaskFacts DEF GatewayInv, Types, Told, Goto, Answer, callerVars, callVars,
     storeVars, AcceptArm
<1>3. Seen'
  BY TaskFacts DEF GatewayInv, Types, Seen, Goto, Answer, callerVars,
     callVars, storeVars, AcceptArm
<1>4. Alone'
  <2>1. pc[q] \notin Operation /\ UNCHANGED <<handler, timedOut>>
    BY DEF Operation, callVars, callerVars, storeVars, AcceptArm
  <2> QED  BY <1>0, <2>1, AloneKept
<1>6. Late' /\ Stores' /\ Repeated'
  BY <1>0, UnstoredKept
<1>7. Spent'
  <2>1. /\ UNCHANGED handler /\ pc'[q] \notin {"new", "infer"}
        /\ calling'[q] \in {calling[q], Nobody}
        /\ targets'[q] \subseteq targets[q] \/ pc[q] = "new"
    BY DEF GatewayInv, Types, Goto, callVars, callerVars, AcceptArm
  <2> QED  BY <1>0, <2>1, SpentKept
<1> QED  BY <1>1, <1>2, <1>3, <1>4, <1>6, <1>7 DEF GatewayInv

LEMMA ExhaustedKept ==
  ASSUME GatewayInv, NEW q \in Request, Exhausted(q)
  PROVE  GatewayInv'
<1>0. /\ UNCHANGED <<storeVars, timedOut>> /\ pc[q] # "done"
      /\ \A p \in Request \ {q} : /\ pc'[p] = pc[p] /\ calling'[p] = calling[p]
                                   /\ targets'[p] = targets[p]
  BY DEF GatewayInv, Types, Goto, callVars, callerVars, Exhausted, Answers
<1>1. Types'
  BY TaskFacts, CommittedIs DEF GatewayInv, Types, Label, Status, CacheStatus, Answer,
     Operation, Goto, Targets, callerVars, callVars, storeVars, Exhausted, Answers
<1>2. Told'
  BY TaskFacts DEF GatewayInv, Types, Told, Goto, Answer, callerVars, callVars,
     storeVars, Exhausted, Answers
<1>3. Seen'
  BY TaskFacts DEF GatewayInv, Types, Seen, Goto, Answer, callerVars,
     callVars, storeVars, Exhausted, Answers
<1>4. Alone'
  <2>1. pc[q] \notin Operation /\ UNCHANGED <<handler, timedOut>>
    BY DEF Operation, callVars, callerVars, storeVars, Exhausted, Answers
  <2> QED  BY <1>0, <2>1, AloneKept
<1>6. Late' /\ Stores' /\ Repeated'
  BY <1>0, UnstoredKept
<1>7. Spent'
  <2>1. /\ UNCHANGED handler /\ pc'[q] \notin {"new", "infer"}
        /\ calling'[q] \in {calling[q], Nobody}
        /\ targets'[q] \subseteq targets[q] \/ pc[q] = "new"
    BY DEF GatewayInv, Types, Goto, callVars, callerVars, Exhausted, Answers
  <2> QED  BY <1>0, <2>1, SpentKept
<1> QED  BY <1>1, <1>2, <1>3, <1>4, <1>6, <1>7 DEF GatewayInv

LEMMA CallReplicaKept ==
  ASSUME GatewayInv, NEW q \in Request, NEW r \in Replica, CallReplica(q, r)
  PROVE  GatewayInv'
<1>0. /\ UNCHANGED <<storeVars, timedOut>> /\ pc[q] # "done"
      /\ \A p \in Request \ {q} : /\ pc'[p] = pc[p] /\ calling'[p] = calling[p]
                                   /\ targets'[p] = targets[p]
  BY DEF GatewayInv, Types, Goto, callVars, callerVars, CallReplica, Begin
<1>1. Types'
  BY TaskFacts, CommittedIs DEF GatewayInv, Types, Label, Status, CacheStatus, Answer,
     Operation, Goto, Targets, callerVars, callVars, storeVars, CallReplica, Begin
<1>2. Told'
  BY TaskFacts DEF GatewayInv, Types, Told, Goto, Answer, callerVars, callVars,
     storeVars, CallReplica, Begin
<1>3. Seen'
  BY TaskFacts DEF GatewayInv, Types, Seen, Goto, Answer, callerVars,
     callVars, storeVars, CallReplica, Begin
<1>4. /\ pc[q] \notin Operation /\ UNCHANGED timedOut
      /\ handler' = [handler EXCEPT ![<<q, r>>] = pc'[q]] /\ pc'[q] \in Operation
      /\ calling' = [calling EXCEPT ![q] = r] /\ \E o : pc' = [pc EXCEPT ![q] = o]
      /\ r \in targets[q] /\ r \notin targets'[q] /\ targets'[q] \subseteq targets[q]
  BY DEF GatewayInv, Types, Operation, Goto, CallReplica, Begin
<1>5. Alone'
  <2>1. ASSUME NEW p \in Request \ timedOut, NEW s \in Replica, handler'[<<p, s>>] # "idle"
        PROVE  calling'[p] = s /\ pc'[p] = handler'[<<p, s>>]
    <3>1. CASE p = q
      <4>1. handler[<<q, s>>] = "idle"
        BY <1>4, <3>1, NoHandler
      <4>2. s = r
        BY <1>4, <2>1, <3>1, <4>1, TaskFacts DEF GatewayInv, Types
      <4> QED  BY <1>4, <3>1, <4>2, TaskFacts DEF GatewayInv, Types
    <3>2. CASE p # q
      <4>1. handler'[<<p, s>>] = handler[<<p, s>>]
        BY <1>4, <3>2, TaskFacts DEF GatewayInv, Types
      <4> QED  BY <1>4, <2>1, <3>2, <4>1 DEF GatewayInv, Types, Alone
    <3> QED  BY <3>1, <3>2
  <2> QED  BY <1>4, <2>1 DEF Alone
<1>6. Late' /\ Stores' /\ Repeated'
  BY <1>0, UnstoredKept
<1>7. Spent'
  <2>1. \A p \in Request, n \in Replica : StoredAt(p, n)' <=> StoredAt(p, n)
    BY <1>0 DEF StoredAt, storeVars
  <2>2. calling'[q] = r /\ pc'[q] \notin {"new", "infer"} /\ ~StoredAt(q, r)
    BY <1>4 DEF GatewayInv, Types, Spent, Operation
  <2>3. \A p \in Request, n \in Replica : <<p, n>> # <<q, r>> => handler'[<<p, n>>] = handler[<<p, n>>]
    BY <1>4, TaskFacts DEF GatewayInv, Types
  <2>4. ASSUME NEW p \in Request, NEW n \in Replica
        PROVE  /\ handler'[<<p, n>>] # "idle" \/ calling'[p] = n \/ StoredAt(p, n)' =>
                    n \notin targets'[p] /\ pc'[p] # "new"
               /\ StoredAt(p, n)' \/ (pc'[p] = "infer" /\ calling'[p] = n) => handler'[<<p, n>>] = "idle"
               /\ StoredAt(p, n)' => ~(pc'[p] = "infer" /\ calling'[p] = n)
    <3>1. CASE p = q /\ n = r
      BY <1>4, <2>1, <2>2, <3>1
    <3>2. CASE p = q /\ n # r
      BY <1>4, <2>1, <2>2, <2>3, <3>2 DEF GatewayInv, Spent
    <3>3. CASE p # q
      BY <1>0, <2>1, <2>3, <3>3 DEF GatewayInv, Spent
    <3> QED  BY <3>1, <3>2, <3>3
  <2>5. \A i, j \in DOMAIN history' :
          history'[i].by = history'[j].by /\ history'[i].at = history'[j].at => i = j
    BY <1>0 DEF GatewayInv, Spent, storeVars
  <2> QED  BY <2>4, <2>5 DEF Spent
<1> QED  BY <1>1, <1>2, <1>3, <1>5, <1>6, <1>7 DEF GatewayInv

LEMMA CallRefusedKept ==
  ASSUME GatewayInv, NEW q \in Request, NEW r \in Replica, CallRefused(q, r)
  PROVE  GatewayInv'
<1>0. /\ UNCHANGED <<storeVars, timedOut>> /\ pc[q] # "done"
      /\ \A p \in Request \ {q} : /\ pc'[p] = pc[p] /\ calling'[p] = calling[p]
                                   /\ targets'[p] = targets[p]
  BY DEF GatewayInv, Types, Goto, callVars, callerVars, CallRefused
<1>1. Types'
  BY TaskFacts, CommittedIs DEF GatewayInv, Types, Label, Status, CacheStatus, Answer,
     Operation, Goto, Targets, callerVars, callVars, storeVars, CallRefused
<1>2. Told'
  BY TaskFacts DEF GatewayInv, Types, Told, Goto, Answer, callerVars, callVars,
     storeVars, CallRefused
<1>3. Seen'
  BY TaskFacts DEF GatewayInv, Types, Seen, Goto, Answer, callerVars,
     callVars, storeVars, CallRefused
<1>4. Alone'
  BY TaskFacts DEF GatewayInv, Types, Alone, Goto, Operation, callerVars, callVars,
     storeVars, CallRefused
<1>6. Late' /\ Stores' /\ Repeated'
  BY <1>0, UnstoredKept
<1>7. Spent'
  <2>1. /\ UNCHANGED handler /\ pc'[q] \notin {"new", "infer"}
        /\ calling'[q] \in {calling[q], Nobody}
        /\ targets'[q] \subseteq targets[q] \/ pc[q] = "new"
    BY DEF GatewayInv, Types, Goto, callVars, callerVars, CallRefused
  <2> QED  BY <1>0, <2>1, SpentKept
<1> QED  BY <1>1, <1>2, <1>3, <1>4, <1>6, <1>7 DEF GatewayInv

LEMMA InferKept ==
  ASSUME GatewayInv, NEW q \in Request, Infer(q)
  PROVE  GatewayInv'
<1>0. /\ UNCHANGED <<storeVars, timedOut>> /\ pc[q] # "done"
      /\ \A p \in Request \ {q} : /\ pc'[p] = pc[p] /\ calling'[p] = calling[p]
                                   /\ targets'[p] = targets[p]
  BY DEF GatewayInv, Types, Goto, callVars, callerVars, Infer, Begin
<1>1. Types'
  BY TaskFacts, CommittedIs DEF GatewayInv, Types, Label, Status, CacheStatus, Answer,
     Operation, Goto, Targets, callerVars, callVars, storeVars, Infer, Begin
<1>2. Told'
  BY TaskFacts DEF GatewayInv, Types, Told, Goto, Answer, callerVars, callVars,
     storeVars, Infer, Begin
<1>3. Seen'
  BY TaskFacts DEF GatewayInv, Types, Seen, Goto, Answer, callerVars,
     callVars, storeVars, Infer, Begin
<1>4. Alone'
  BY TaskFacts DEF GatewayInv, Types, Alone, Goto, Operation, callerVars, callVars,
     storeVars, Infer, Begin
<1>6. Late' /\ Stores' /\ Repeated'
  BY <1>0, UnstoredKept
<1>7. Spent'
  <2>0. PICK r \in Replica : calling[q] = r
    BY DEF GatewayInv, Types, Infer
  <2>1. \A p \in Request, n \in Replica : StoredAt(p, n)' <=> StoredAt(p, n)
    BY <1>0 DEF StoredAt, storeVars
  <2>2. /\ handler' = [handler EXCEPT ![<<q, r>>] = "write"] /\ pc[q] = "infer"
        /\ pc'[q] = "write" /\ UNCHANGED <<targets, calling>>
    BY <2>0 DEF Infer, Begin, Goto, GatewayInv, Types
  <2>3. \A p \in Request, n \in Replica : <<p, n>> # <<q, r>> => handler'[<<p, n>>] = handler[<<p, n>>]
    BY <2>2, TaskFacts DEF GatewayInv, Types
  <2>4. ASSUME NEW p \in Request, NEW n \in Replica
        PROVE  /\ handler'[<<p, n>>] # "idle" \/ calling'[p] = n \/ StoredAt(p, n)' =>
                    n \notin targets'[p] /\ pc'[p] # "new"
               /\ StoredAt(p, n)' \/ (pc'[p] = "infer" /\ calling'[p] = n) => handler'[<<p, n>>] = "idle"
               /\ StoredAt(p, n)' => ~(pc'[p] = "infer" /\ calling'[p] = n)
    <3>1. CASE p = q /\ n = r
      BY <2>0, <2>1, <2>2, <3>1 DEF GatewayInv, Spent
    <3>2. CASE p = q /\ n # r
      BY <2>0, <2>1, <2>2, <2>3, <3>2 DEF GatewayInv, Spent
    <3>3. CASE p # q
      BY <1>0, <2>1, <2>3, <3>3 DEF GatewayInv, Spent
    <3> QED  BY <3>1, <3>2, <3>3
  <2>5. \A i, j \in DOMAIN history' :
          history'[i].by = history'[j].by /\ history'[i].at = history'[j].at => i = j
    BY <1>0 DEF GatewayInv, Spent, storeVars
  <2> QED  BY <2>4, <2>5 DEF Spent
<1> QED  BY <1>1, <1>2, <1>3, <1>4, <1>6, <1>7 DEF GatewayInv

LEMMA InferFailsKept ==
  ASSUME GatewayInv, NEW q \in Request, InferFails(q)
  PROVE  GatewayInv'
<1>0. /\ UNCHANGED <<storeVars, timedOut>> /\ pc[q] # "done"
      /\ \A p \in Request \ {q} : /\ pc'[p] = pc[p] /\ calling'[p] = calling[p]
                                   /\ targets'[p] = targets[p]
  BY DEF GatewayInv, Types, Goto, callVars, callerVars, InferFails, Answers
<1>1. Types'
  BY TaskFacts, CommittedIs DEF GatewayInv, Types, Label, Status, CacheStatus, Answer,
     Operation, Goto, Targets, callerVars, callVars, storeVars, InferFails, Answers
<1>2. Told'
  BY TaskFacts DEF GatewayInv, Types, Told, Goto, Answer, callerVars, callVars,
     storeVars, InferFails, Answers
<1>3. Seen'
  BY TaskFacts DEF GatewayInv, Types, Seen, Goto, Answer, callerVars,
     callVars, storeVars, InferFails, Answers
<1>4. Alone'
  <2>1. pc[q] \notin Operation /\ UNCHANGED <<handler, timedOut>>
    BY DEF Operation, callVars, callerVars, storeVars, InferFails, Answers
  <2> QED  BY <1>0, <2>1, AloneKept
<1>6. Late' /\ Stores' /\ Repeated'
  BY <1>0, UnstoredKept
<1>7. Spent'
  <2>1. /\ UNCHANGED handler /\ pc'[q] \notin {"new", "infer"}
        /\ calling'[q] \in {calling[q], Nobody}
        /\ targets'[q] \subseteq targets[q] \/ pc[q] = "new"
    BY DEF GatewayInv, Types, Goto, callVars, callerVars, InferFails, Answers
  <2> QED  BY <1>0, <2>1, SpentKept
<1> QED  BY <1>1, <1>2, <1>3, <1>4, <1>6, <1>7 DEF GatewayInv


\* What the end of a gateway's handler leaves.
LEMMA AnswersFacts ==
  ASSUME GatewayInv, NEW q \in Request, NEW s \in Status, NEW c \in CacheStatus, NEW e \in Nat,
         Answers(q, s, c, e)
  PROVE  /\ pc' \in [Request -> Label] /\ targets' \in [Request -> SUBSET Replica]
         /\ calling' \in [Request -> Replica \cup {Nobody}] /\ answer' \in [Request -> Answer]
         /\ pc'[q] = "done"
         /\ answer'[q].status = s /\ answer'[q].cache = c /\ answer'[q].entry = e
         /\ targets'[q] = {} /\ calling'[q] = Nobody
         /\ \A p \in Request \ {q} : /\ pc'[p] = pc[p] /\ answer'[p] = answer[p]
                                     /\ calling'[p] = calling[p] /\ targets'[p] = targets[p]
<1> DEFINE a == [status |-> s, cache |-> c, entry |-> e]
<1>1. a \in Answer /\ a.status = s /\ a.cache = c /\ a.entry = e
  BY DEF Answer
<1>2. answer' = [answer EXCEPT ![q] = a]
  BY DEF Answers
<1> HIDE DEF a
<1>3. answer' \in [Request -> Answer] /\ answer'[q] = a
      /\ \A p \in Request \ {q} : answer'[p] = answer[p]
  BY <1>1, <1>2 DEF GatewayInv, Types
<1>4. /\ pc' = [pc EXCEPT ![q] = "done"] /\ targets' = [targets EXCEPT ![q] = {}]
      /\ calling' = [calling EXCEPT ![q] = Nobody]
  BY DEF Answers, Goto
<1>5. /\ pc' \in [Request -> Label] /\ targets' \in [Request -> SUBSET Replica]
      /\ calling' \in [Request -> Replica \cup {Nobody}] /\ pc'[q] = "done"
      /\ targets'[q] = {} /\ calling'[q] = Nobody
      /\ \A p \in Request \ {q} : /\ pc'[p] = pc[p] /\ calling'[p] = calling[p]
                                  /\ targets'[p] = targets[p]
  BY <1>4 DEF GatewayInv, Types, Label
<1> QED  BY <1>1, <1>3, <1>5

LEMMA GotoFacts ==
  ASSUME GatewayInv, NEW q \in Request, NEW l \in Label, Goto(q, l),
         UNCHANGED <<targets, calling, answer>>
  PROVE  /\ pc' \in [Request -> Label] /\ targets' \in [Request -> SUBSET Replica]
         /\ calling' \in [Request -> Replica \cup {Nobody}] /\ answer' \in [Request -> Answer]
         /\ pc'[q] = l
         /\ \A p \in Request \ {q} : pc'[p] = pc[p]
         /\ \A p \in Request : answer'[p] = answer[p] /\ calling'[p] = calling[p]
BY DEF GatewayInv, Types, Goto

\* The ways the wait of q for replica r ends, with what each of them presupposes
CallEnds(q, r) ==
  \/ Goto(q, "next") /\ UNCHANGED <<targets, calling, answer>>
  \/ /\ Goto(q, "infer") /\ UNCHANGED <<targets, calling, answer>>
     /\ q \in Queries => seen[q] = 0
     /\ ~StoredAt(q, r)' /\ handler' = [handler EXCEPT ![<<q, r>>] = "idle"]
  \/ \E s \in Status, c \in CacheStatus, e \in Nat :
       /\ Answers(q, s, c, e)
       /\ e <= Len(history')
       /\ s = "ok" /\ c # "hit" => \A n \in Replica : Current(history', store'[n], e)
       /\ q \in Queries /\ seen[q] # 0 => c = "hit" /\ Current(history', e, seen[q])

LEMMA CallEndsFacts ==
  ASSUME GatewayInv, NEW q \in Request, NEW r \in Replica, pc[q] \in Operation,
         calling[q] = r, CallEnds(q, r)
  PROVE  /\ pc' \in [Request -> Label] /\ targets' \in [Request -> SUBSET Replica]
         /\ calling' \in [Request -> Replica \cup {Nobody}] /\ answer' \in [Request -> Answer]
         /\ pc'[q] \in {"next", "infer", "done"}
         /\ pc'[q] = "infer" =>
              /\ calling'[q] = r /\ (q \in Queries => seen[q] = 0)
              /\ ~StoredAt(q, r)' /\ handler' = [handler EXCEPT ![<<q, r>>] = "idle"]
         /\ targets'[q] \subseteq targets[q] /\ calling'[q] \in {r, Nobody}
         /\ answer'[q] = answer[q] \/ pc'[q] = "done"
         /\ pc'[q] = "done" =>
              /\ answer'[q].entry <= Len(history')
              /\ answer'[q].status = "ok" /\ answer'[q].cache # "hit" =>
                   \A n \in Replica : Current(history', store'[n], answer'[q].entry)
              /\ q \in Queries /\ seen[q] # 0 =>
                   answer'[q].cache = "hit" /\ Current(history', answer'[q].entry, seen[q])
         /\ \A p \in Request \ {q} : /\ pc'[p] = pc[p] /\ answer'[p] = answer[p]
                                     /\ calling'[p] = calling[p] /\ targets'[p] = targets[p]
<1>1. CASE Goto(q, "next") /\ UNCHANGED <<targets, calling, answer>>
  <2>1. "next" \in Label
    BY DEF Label
  <2> QED  BY <1>1, <2>1, GotoFacts
<1>2. CASE /\ Goto(q, "infer") /\ UNCHANGED <<targets, calling, answer>>
           /\ q \in Queries => seen[q] = 0
           /\ ~StoredAt(q, r)' /\ handler' = [handler EXCEPT ![<<q, r>>] = "idle"]
  <2>1. "infer" \in Label
    BY DEF Label
  <2> QED  BY <1>2, <2>1, GotoFacts
<1>3. CASE \E s \in Status, c \in CacheStatus, e \in Nat :
             /\ Answers(q, s, c, e)
             /\ e <= Len(history')
             /\ s = "ok" /\ c # "hit" => \A n \in Replica : Current(history', store'[n], e)
             /\ q \in Queries /\ seen[q] # 0 => c = "hit" /\ Current(history', e, seen[q])
  <2>1. PICK s \in Status, c \in CacheStatus, e \in Nat :
             /\ Answers(q, s, c, e)
             /\ e <= Len(history')
             /\ s = "ok" /\ c # "hit" => \A n \in Replica : Current(history', store'[n], e)
             /\ q \in Queries /\ seen[q] # 0 => c = "hit" /\ Current(history', e, seen[q])
    BY <1>3
  <2> QED  BY <2>1, AnswersFacts
<1> QED  BY <1>1, <1>2, <1>3 DEF CallEnds

\* The effect of a write on the data: nothing, or an entry of q that is the newest, and
\* perhaps a replicate call of it that is still to come
Adds(q, r, raised) ==
  \E status \in Status, S \in SUBSET Replica :
    /\ history' = Append(history, [by |-> q, at |-> r, status |-> status, raised |-> raised])
    /\ store' = [n \in Replica |-> IF n \in S THEN Len(history) + 1 ELSE store[n]]
    /\ \/ UNCHANGED lateStores
       \/ /\ status = "degraded"
          /\ \E n \in Replica : lateStores' = lateStores \cup {[to |-> n, entry |-> Len(history) + 1]}

LEMMA AddsFacts ==
  ASSUME GatewayInv, NEW q \in Request, NEW r \in Replica, NEW raised \in BOOLEAN,
         Adds(q, r, raised)
  PROVE  /\ history' \in Seq(WriteTaken) /\ Len(history) \in Nat /\ Len(history') = Len(history) + 1
         /\ \A i \in DOMAIN history : i \in DOMAIN history' /\ history'[i] = history[i]
         /\ \A i \in DOMAIN history' : i \in DOMAIN history \/ i = Len(history) + 1
         /\ history'[Len(history) + 1].by = q /\ history'[Len(history) + 1].at = r
         /\ history'[Len(history) + 1].raised = raised
         /\ store' \in [Replica -> 0..Len(history')]
         /\ \A n \in Replica : store'[n] = store[n] \/ store'[n] = Len(history) + 1
         /\ lateStores' \subseteq [to : Replica, entry : DOMAIN history']
         /\ Late'
<1>1. PICK status \in Status, S \in SUBSET Replica :
        /\ history' = Append(history, [by |-> q, at |-> r, status |-> status, raised |-> raised])
        /\ store' = [n \in Replica |-> IF n \in S THEN Len(history) + 1 ELSE store[n]]
        /\ \/ UNCHANGED lateStores
           \/ /\ status = "degraded"
              /\ \E n \in Replica : lateStores' = lateStores \cup {[to |-> n, entry |-> Len(history) + 1]}
  BY DEF Adds
<1> DEFINE w == [by |-> q, at |-> r, status |-> status, raised |-> raised]
<1>2. w \in WriteTaken /\ w.by = q /\ w.at = r /\ w.status = status /\ w.raised = raised
  BY DEF WriteTaken
<1>3. history \in Seq(WriteTaken) /\ Len(history) \in Nat /\ DOMAIN history = 1..Len(history)
  BY HistoryFacts DEF GatewayInv, Types
<1>4. history' = Append(history, w)
  BY <1>1
<1> HIDE DEF w
<1>5. /\ history' \in Seq(WriteTaken) /\ Len(history') = Len(history) + 1
      /\ DOMAIN history' = 1..(Len(history) + 1)
      /\ \A i \in 1..Len(history) : history'[i] = history[i]
      /\ history'[Len(history) + 1] = w
  BY <1>2, <1>3, <1>4
<1>6. \A n \in Replica : store[n] \in 0..Len(history)
  BY DEF GatewayInv, Types
<1>7. /\ store' \in [Replica -> 0..(Len(history) + 1)]
      /\ \A n \in Replica : store'[n] = store[n] \/ store'[n] = Len(history) + 1
  BY <1>1, <1>3, <1>6
<1>8. lateStores' \subseteq [to : Replica, entry : DOMAIN history'] /\ Late'
  <2>1. \A m \in lateStores : m \in [to : Replica, entry : DOMAIN history] /\ history[m.entry].status = "degraded"
    BY DEF GatewayInv, Types, Late
  <2>2. \A m \in lateStores : m \in [to : Replica, entry : DOMAIN history'] /\ history'[m.entry].status = "degraded"
    BY <1>3, <1>5, <2>1
  <2>3. CASE UNCHANGED lateStores
    BY <2>2, <2>3 DEF Late
  <2>4. ASSUME status = "degraded", NEW n \in Replica,
               lateStores' = lateStores \cup {[to |-> n, entry |-> Len(history) + 1]}
        PROVE  lateStores' \subseteq [to : Replica, entry : DOMAIN history'] /\ Late'
    <3>1. history'[Len(history) + 1].status = "degraded" /\ Len(history) + 1 \in DOMAIN history'
      BY <1>2, <1>3, <1>5, <2>4
    <3> QED  BY <2>2, <2>4, <3>1 DEF Late
  <2> QED  BY <1>1, <2>3, <2>4
<1> QED  BY <1>2, <1>3, <1>5, <1>7, <1>8

\* The data after a step: entries stay what they were, and current ones current.
LEMMA DataFacts ==
  ASSUME GatewayInv, NEW q \in Request, NEW r \in Replica, NEW raised \in BOOLEAN,
         UNCHANGED storeVars \/ Adds(q, r, raised)
  PROVE  /\ history' \in Seq(WriteTaken) /\ store' \in [Replica -> 0..Len(history')]
         /\ Len(history) \in Nat /\ Len(history') \in Nat /\ Len(history) <= Len(history')
         /\ lateStores' \subseteq [to : Replica, entry : DOMAIN history'] /\ Late'
         /\ \A n \in Replica, m \in 0..Len(history) :
              Current(history, store[n], m) => Current(history', store'[n], m)
         /\ \A e \in 0..Len(history), m \in Nat :
              Current(history, e, m) => Current(history', e, m)
         /\ \A i \in DOMAIN history' :
              \/ i \in DOMAIN history /\ history'[i] = history[i]
              \/ /\ Adds(q, r, raised) /\ i = Len(history) + 1
                 /\ history'[i].by = q /\ history'[i].at = r /\ history'[i].raised = raised
<1>1. /\ history \in Seq(WriteTaken) /\ Len(history) \in Nat
      /\ store \in [Replica -> 0..Len(history)] /\ DOMAIN history = 1..Len(history)
  BY HistoryFacts DEF GatewayInv, Types
<1>2. CASE UNCHANGED storeVars
  <2>1. history' = history /\ store' = store /\ lateStores' = lateStores
    BY <1>2 DEF storeVars
  <2> QED  BY <1>1, <2>1 DEF GatewayInv, Types, Late
<1>3. CASE Adds(q, r, raised)
  <2>1. \A e \in 0..Len(history), m \in Nat :
          Current(history, e, m) => Current(history', e, m)
    <3>1. \A e \in 0..Len(history) : e # 0 => e \in DOMAIN history /\ history'[e] = history[e]
      BY <1>1, <1>3, AddsFacts
    <3> QED  BY <3>1 DEF Current
  <2>2. ASSUME NEW n \in Replica, NEW m \in 0..Len(history), Current(history, store[n], m)
        PROVE  Current(history', store'[n], m)
    <3>1. CASE store'[n] = store[n]
      BY <1>1, <2>1, <2>2, <3>1
    <3>2. CASE store'[n] = Len(history) + 1
      BY <1>1, <3>2 DEF Current
    <3> QED  BY <1>3, <3>1, <3>2, AddsFacts
  <2> QED  BY <1>1, <1>3, <2>1, <2>2, AddsFacts
<1> QED  BY <1>2, <1>3

\* The end of a call in one lemma: q's handler at r may end, its caller may notice, and
\* a write may have taken effect.
CallEffect(q, r, raised) ==
  /\ seen' = seen
  /\ \/ UNCHANGED storeVars
     \/ /\ Adds(q, r, raised) /\ timedOut' = timedOut /\ handler[<<q, r>>] = "write"
        /\ q \notin timedOut => pc[q] # "done" /\ (raised \/ pc'[q] = "done")
  /\ \/ handler' = [handler EXCEPT ![<<q, r>>] = "idle"] /\ timedOut' = timedOut
     \/ handler' = handler /\ timedOut' = timedOut \cup {q} /\ UNCHANGED storeVars
  /\ \/ UNCHANGED callerVars /\ ~Waits(<<q, r>>)
     \/ pc[q] \in Operation /\ calling[q] = r /\ CallEnds(q, r)

LEMMA CallTypes ==
  ASSUME GatewayInv, NEW q \in Request, NEW r \in Replica, NEW raised \in BOOLEAN,
         CallEffect(q, r, raised)
  PROVE  /\ <<q, r>> \in Task
         /\ handler' \in [Task -> Operation \cup {"idle"}]
         /\ \A x \in Task \ {<<q, r>>} : handler'[x] = handler[x]
         /\ \A p \in Request \ {q} : /\ pc'[p] = pc[p] /\ answer'[p] = answer[p]
                                     /\ calling'[p] = calling[p] /\ targets'[p] = targets[p]
         /\ \A p \in Request : targets'[p] \subseteq targets[p] /\ calling'[p] \in {calling[p], Nobody}
         /\ UNCHANGED storeVars \/ Adds(q, r, raised)
         /\ seen' = seen /\ timedOut \subseteq timedOut'
         /\ pc[q] \notin Operation => UNCHANGED callerVars
         /\ Types'
<1>1. /\ <<q, r>> \in Task /\ handler' \in [Task -> Operation \cup {"idle"}]
      /\ \A x \in Task \ {<<q, r>>} : handler'[x] = handler[x]
  BY TaskFacts DEF CallEffect, GatewayInv, Types
<1>2. /\ UNCHANGED storeVars \/ Adds(q, r, raised)
      /\ seen' = seen /\ timedOut \subseteq timedOut'
      /\ pc[q] \notin Operation => UNCHANGED callerVars
  BY DEF CallEffect
<1>3. /\ pc' \in [Request -> Label] /\ targets' \in [Request -> SUBSET Replica]
      /\ calling' \in [Request -> Replica \cup {Nobody}] /\ answer' \in [Request -> Answer]
      /\ \A p \in Request : pc'[p] \in Operation \cup {"infer"} => calling'[p] \in Replica
      /\ \A p \in Request \ {q} : /\ pc'[p] = pc[p] /\ answer'[p] = answer[p]
                                  /\ calling'[p] = calling[p] /\ targets'[p] = targets[p]
      /\ \A p \in Request : targets'[p] \subseteq targets[p] /\ calling'[p] \in {calling[p], Nobody}
  <2>1. CASE UNCHANGED callerVars
    BY <2>1 DEF callerVars, GatewayInv, Types
  <2>2. CASE pc[q] \in Operation /\ calling[q] = r /\ CallEnds(q, r)
    <3>1. /\ pc' \in [Request -> Label] /\ targets' \in [Request -> SUBSET Replica]
          /\ calling' \in [Request -> Replica \cup {Nobody}] /\ answer' \in [Request -> Answer]
      BY <2>2, CallEndsFacts
    <3>2. /\ pc'[q] \in Operation \cup {"infer"} => calling'[q] \in Replica
          /\ targets'[q] \subseteq targets[q] /\ calling'[q] \in {r, Nobody}
      BY <2>2, CallEndsFacts DEF Operation
    <3>3. \A p \in Request \ {q} : /\ pc'[p] = pc[p] /\ answer'[p] = answer[p]
                                   /\ calling'[p] = calling[p] /\ targets'[p] = targets[p]
      BY <2>2, CallEndsFacts
    <3>4. \A p \in Request : pc[p] \in Operation \cup {"infer"} => calling[p] \in Replica
      BY DEF GatewayInv, Types
    <3> QED  BY <2>2, <3>1, <3>2, <3>3, <3>4
  <2> QED  BY <2>1, <2>2 DEF CallEffect
<1>4. \A p \in Request : pc'[p] \in Operation => handler'[<<p, calling'[p]>>] = pc'[p]
  <2> SUFFICES ASSUME NEW p \in Request, pc'[p] \in Operation
               PROVE  handler'[<<p, calling'[p]>>] = pc'[p]
    OBVIOUS
  <2>1. CASE UNCHANGED callerVars /\ ~Waits(<<q, r>>)
    <3>1. pc'[p] = pc[p] /\ calling'[p] = calling[p]
      BY <2>1 DEF callerVars
    <3>2. handler[<<p, calling[p]>>] = pc[p] /\ <<p, calling[p]>> \in Task
      BY <3>1, TaskFacts DEF GatewayInv, Types
    <3>3. <<p, calling[p]>> # <<q, r>>
      BY <2>1, <3>2 DEF Waits
    <3> QED  BY <1>1, <3>1, <3>2, <3>3
  <2>2. CASE pc[q] \in Operation /\ calling[q] = r /\ CallEnds(q, r)
    <3>1. p # q /\ pc'[p] = pc[p] /\ calling'[p] = calling[p]
      BY <2>2, CallEndsFacts DEF Operation
    <3>2. handler[<<p, calling[p]>>] = pc[p] /\ <<p, calling[p]>> \in Task
      BY <3>1, TaskFacts DEF GatewayInv, Types
    <3> QED  BY <1>1, <3>1, <3>2
  <2> QED  BY <2>1, <2>2 DEF CallEffect
<1>5. Types'
  <2>1. /\ history' \in Seq(WriteTaken) /\ store' \in [Replica -> 0..Len(history')]
        /\ lateStores' \subseteq [to : Replica, entry : DOMAIN history']
        /\ Len(history) \in Nat /\ Len(history') \in Nat /\ Len(history) <= Len(history')
    BY <1>2, DataFacts
  <2>2. seen' \in [Request -> 0..Len(history')]
    BY <1>2, <2>1 DEF GatewayInv, Types
  <2> QED  BY <1>1, <1>3, <1>4, <2>1, <2>2 DEF Types
<1> QED  BY <1>1, <1>2, <1>3, <1>5

LEMMA CallAnswers ==
  ASSUME GatewayInv, NEW q \in Request, NEW r \in Replica, NEW raised \in BOOLEAN,
         CallEffect(q, r, raised)
  PROVE  Late' /\ Told' /\ Seen'
<1>1. /\ Late' /\ Len(history) \in Nat /\ Len(history') \in Nat /\ Len(history) <= Len(history')
      /\ \A n \in Replica, m \in 0..Len(history) :
           Current(history, store[n], m) => Current(history', store'[n], m)
      /\ \A e \in 0..Len(history), m \in Nat : Current(history, e, m) => Current(history', e, m)
  BY CallTypes, DataFacts
<1>2. \A p \in Request : seen[p] \in 0..Len(history) /\ answer[p].entry \in Nat
  BY DEF GatewayInv, Types, Answer
<1>3. Told'
  <2> SUFFICES ASSUME NEW p \in Request
               PROVE  /\ answer'[p].entry <= Len(history')
                      /\ pc'[p] = "done" /\ answer'[p].status = "ok" /\ answer'[p].cache # "hit" =>
                           \A n \in Replica : Current(history', store'[n], answer'[p].entry)
    BY DEF Told
  <2>1. CASE p # q \/ UNCHANGED callerVars
    <3>1. pc'[p] = pc[p] /\ answer'[p] = answer[p]
      BY <2>1, CallTypes DEF callerVars
    <3>2. /\ answer[p].entry <= Len(history)
          /\ pc[p] = "done" /\ answer[p].status = "ok" /\ answer[p].cache # "hit" =>
               \A n \in Replica : Current(history, store[n], answer[p].entry)
      BY DEF GatewayInv, Told
    <3> QED  BY <1>1, <1>2, <3>1, <3>2
  <2>2. CASE p = q /\ pc[q] \in Operation /\ calling[q] = r /\ CallEnds(q, r)
    <3>1. CASE pc'[q] = "done"
      BY <2>2, <3>1, CallEndsFacts
    <3>2. CASE pc'[q] # "done"
      <4>1. answer'[q] = answer[q]
        BY <2>2, <3>2, CallEndsFacts
      <4>2. answer[q].entry <= Len(history)
        BY DEF GatewayInv, Told
      <4> QED  BY <1>1, <1>2, <2>2, <3>2, <4>1, <4>2
    <3> QED  BY <3>1, <3>2
  <2> QED  BY <2>1, <2>2 DEF CallEffect
<1>4. Seen'
  <2> SUFFICES ASSUME NEW p \in Queries
               PROVE  /\ \A n \in Replica : Current(history', store'[n], seen[p])
                      /\ seen[p] # 0 => pc'[p] \in {"next", "read", "done"}
                      /\ seen[p] # 0 /\ pc'[p] = "done" =>
                           /\ answer'[p].cache \in {"hit", "replicas_unavailable"}
                           /\ answer'[p].cache = "hit" =>
                                /\ answer'[p].entry <= Len(history')
                                /\ Current(history', answer'[p].entry, seen[p])
    BY CallTypes DEF Seen
  <2>0. p \in Request
    BY TaskFacts
  <2>1. \A n \in Replica : Current(history', store'[n], seen[p])
    BY <1>1, <1>2, <2>0 DEF GatewayInv, Seen
  <2>2. CASE p # q \/ UNCHANGED callerVars
    <3>1. pc'[p] = pc[p] /\ answer'[p] = answer[p]
      BY <2>0, <2>2, CallTypes DEF callerVars
    <3> QED  BY <1>1, <1>2, <2>0, <2>1, <3>1 DEF GatewayInv, Seen
  <2>3. CASE p = q /\ pc[q] \in Operation /\ calling[q] = r /\ CallEnds(q, r)
    BY <2>1, <2>3, CallEndsFacts
  <2> QED  BY <2>2, <2>3 DEF CallEffect
<1> QED  BY <1>1, <1>3, <1>4

LEMMA CallAlone ==
  ASSUME GatewayInv, NEW q \in Request, NEW r \in Replica, NEW raised \in BOOLEAN,
         CallEffect(q, r, raised)
  PROVE  Alone'
<1> SUFFICES ASSUME NEW p \in Request \ timedOut', NEW n \in Replica,
                    handler'[<<p, n>>] # "idle"
             PROVE  calling'[p] = n /\ pc'[p] = handler'[<<p, n>>]
  BY DEF Alone
<1>1. p \notin timedOut /\ <<p, n>> \in Task /\ <<q, r>> \in Task
  BY TaskFacts, CallTypes
<1>2. p = q => handler'[<<q, r>>] = "idle"
  BY <1>1 DEF CallEffect, GatewayInv, Types
<1>3. <<p, n>> # <<q, r>> /\ handler'[<<p, n>>] = handler[<<p, n>>]
  BY <1>1, <1>2, CallTypes
<1>4. calling[p] = n /\ pc[p] = handler[<<p, n>>] /\ pc[p] \in Operation
  BY <1>1, <1>3 DEF GatewayInv, Alone, Types
<1>5. CASE UNCHANGED callerVars
  BY <1>3, <1>4, <1>5 DEF callerVars
<1>6. CASE calling[q] = r
  <2>1. p # q
    BY <1>3, <1>4, <1>6
  <2> QED  BY <1>3, <1>4, <2>1, CallTypes
<1> QED  BY <1>5, <1>6 DEF CallEffect

LEMMA CallStores ==
  ASSUME GatewayInv, NEW q \in Request, NEW r \in Replica, NEW raised \in BOOLEAN,
         CallEffect(q, r, raised)
  PROVE  Stores' /\ Repeated'
<1>0. /\ history \in Seq(WriteTaken) /\ history' \in Seq(WriteTaken)
      /\ Len(history) \in Nat /\ DOMAIN history = 1..Len(history)
      /\ \A i \in DOMAIN history : history[i].by \in Request
      /\ \A i \in DOMAIN history' :
           \/ i \in DOMAIN history /\ history'[i] = history[i]
           \/ /\ Adds(q, r, raised) /\ i = Len(history) + 1
              /\ history'[i].by = q /\ history'[i].raised = raised
  <2>1. UNCHANGED storeVars \/ Adds(q, r, raised)
    BY CallTypes
  <2>2. history \in Seq(WriteTaken)
    BY DEF GatewayInv, Types
  <2>3. /\ Len(history) \in Nat /\ DOMAIN history = 1..Len(history)
        /\ \A i \in DOMAIN history : history[i].by \in Request
    BY <2>2, HistoryFacts
  <2>4. history' \in Seq(WriteTaken)
    BY <2>1, DataFacts
  <2>5. \A i \in DOMAIN history' :
           \/ i \in DOMAIN history /\ history'[i] = history[i]
           \/ /\ Adds(q, r, raised) /\ i = Len(history) + 1
              /\ history'[i].by = q /\ history'[i].raised = raised
    BY <2>1, DataFacts
  <2> QED  BY <2>2, <2>3, <2>4, <2>5
<1>1. timedOut \subseteq timedOut' /\ \A p \in Request \ {q} : pc'[p] = pc[p]
  BY CallTypes
<1>2. \A p \in Request : pc[p] = "done" => pc'[p] = "done"
  <2>1. pc[q] = "done" => pc'[q] = pc[q]
    BY CallTypes DEF Operation, callerVars
  <2> QED  BY <1>1, <2>1
<1>3. CASE UNCHANGED storeVars
  <2>1. history' = history
    BY <1>3 DEF storeVars
  <2>2. \A i \in DOMAIN history : history[i].by \notin timedOut' =>
          pc'[history[i].by] = "done" \/ history[i].raised
    BY <1>0, <1>1, <1>2 DEF GatewayInv, Stores
  <2> QED  BY <1>1, <2>1, <2>2 DEF Stores, Repeated, GatewayInv
<1>4. CASE /\ Adds(q, r, raised) /\ timedOut' = timedOut
           /\ q \notin timedOut => pc[q] # "done" /\ (raised \/ pc'[q] = "done")
  <2>1. Stores'
    BY <1>0, <1>2, <1>4 DEF GatewayInv, Stores
  <2>2. ASSUME NEW i \in DOMAIN history', NEW j \in DOMAIN history', i < j,
               history'[i].by = history'[j].by
        PROVE  history'[i].raised \/ history'[i].by \in timedOut'
    <3>1. i \in DOMAIN history /\ history'[i] = history[i]
      <4>1. j \in 1..(Len(history) + 1)
        BY <1>0, <2>2
      <4>2. i # Len(history) + 1
        BY <1>0, <2>2, <4>1
      <4> QED  BY <1>0, <2>2, <4>2
    <3>2. CASE j \in DOMAIN history /\ history'[j] = history[j]
      BY <1>4, <2>2, <3>1, <3>2 DEF GatewayInv, Repeated
    <3>3. CASE history'[j].by = q
      BY <1>4, <2>2, <3>1, <3>3 DEF GatewayInv, Stores
    <3> QED  BY <1>0, <2>2, <3>2, <3>3
  <2> QED  BY <2>1, <2>2 DEF Repeated
<1> QED  BY <1>3, <1>4 DEF CallEffect

LEMMA CallSpent ==
  ASSUME GatewayInv, NEW q \in Request, NEW r \in Replica, NEW raised \in BOOLEAN,
         CallEffect(q, r, raised)
  PROVE  Spent'
<1>0. /\ history \in Seq(WriteTaken) /\ Len(history) \in Nat /\ DOMAIN history = 1..Len(history)
      /\ \A i \in DOMAIN history' :
           \/ i \in DOMAIN history /\ history'[i] = history[i]
           \/ /\ Adds(q, r, raised) /\ i = Len(history) + 1
              /\ history'[i].by = q /\ history'[i].at = r
  <2>1. UNCHANGED storeVars \/ Adds(q, r, raised)
    BY CallTypes
  <2>2. history \in Seq(WriteTaken)
    BY DEF GatewayInv, Types
  <2>3. Len(history) \in Nat /\ DOMAIN history = 1..Len(history)
    BY <2>2, HistoryFacts
  <2>4. \A i \in DOMAIN history' :
           \/ i \in DOMAIN history /\ history'[i] = history[i]
           \/ /\ Adds(q, r, raised) /\ i = Len(history) + 1
              /\ history'[i].by = q /\ history'[i].at = r
    BY <2>1, DataFacts
  <2> QED  BY <2>2, <2>3, <2>4
<1>1. \A p \in Request, n \in Replica :
        StoredAt(p, n)' => StoredAt(p, n) \/ (p = q /\ n = r /\ Adds(q, r, raised))
  BY <1>0 DEF StoredAt
<1>2. \A p \in Request, n \in Replica : handler'[<<p, n>>] \in {handler[<<p, n>>], "idle"}
  <2>1. handler' = [handler EXCEPT ![<<q, r>>] = "idle"] \/ handler' = handler
    BY DEF CallEffect
  <2>2. handler \in [Task -> Operation \cup {"idle"}]
    BY DEF GatewayInv, Types
  <2> QED  BY <2>1, <2>2, TaskFacts
<1>3. Adds(q, r, raised) /\ ~UNCHANGED storeVars => handler[<<q, r>>] = "write" /\ handler'[<<q, r>>] = "idle"
  <2>1. <<q, r>> \in Task
    BY TaskFacts
  <2> QED  BY <2>1 DEF CallEffect, GatewayInv, Types
<1>4. UNCHANGED storeVars => ~Adds(q, r, raised)
  <2>1. Adds(q, r, raised) => Len(history') = Len(history) + 1
    BY AddsFacts
  <2>2. UNCHANGED storeVars => Len(history') = Len(history)
    BY DEF storeVars
  <2> QED  BY <1>0, <2>1, <2>2
<1>5. \A p \in Request : pc'[p] = "new" => pc[p] = "new"
  <2>1. pc'[q] = "new" => pc[q] = "new"
    <3>1. CASE UNCHANGED callerVars
      BY <3>1 DEF callerVars
    <3>2. CASE pc[q] \in Operation /\ calling[q] = r /\ CallEnds(q, r)
      BY <3>2, CallEndsFacts
    <3> QED  BY <3>1, <3>2 DEF CallEffect
  <2> QED  BY <2>1, CallTypes
<1>6. ASSUME NEW p \in Request, NEW n \in Replica,
             handler'[<<p, n>>] # "idle" \/ calling'[p] = n \/ StoredAt(p, n)'
      PROVE  n \notin targets'[p] /\ pc'[p] # "new"
  <2>1. handler[<<p, n>>] # "idle" \/ calling[p] = n \/ StoredAt(p, n)
    BY <1>1, <1>2, <1>3, <1>4, <1>6, CallTypes, TaskFacts
  <2> QED  BY <1>5, <2>1, CallTypes DEF GatewayInv, Spent
<1>7. ASSUME NEW p \in Request, NEW n \in Replica
      PROVE  /\ StoredAt(p, n)' \/ (pc'[p] = "infer" /\ calling'[p] = n) => handler'[<<p, n>>] = "idle"
             /\ StoredAt(p, n)' => ~(pc'[p] = "infer" /\ calling'[p] = n)
  <2>1. CASE pc'[p] = pc[p] /\ calling'[p] = calling[p]
    <3>1. handler[<<p, n>>] = "write" => ~(pc[p] = "infer" /\ calling[p] = n)
      BY DEF GatewayInv, Spent
    <3>2. CASE StoredAt(p, n)' => StoredAt(p, n)
      BY <1>2, <2>1, <3>2 DEF GatewayInv, Spent
    <3>3. CASE p = q /\ n = r /\ Adds(q, r, raised)
      BY <1>2, <1>3, <1>4, <2>1, <3>1, <3>3
    <3> QED  BY <1>1, <3>2, <3>3
  <2>2. CASE p = q /\ pc[q] \in Operation /\ calling[q] = r /\ CallEnds(q, r)
    <3>1. pc'[q] = "infer" =>
            calling'[q] = r /\ ~StoredAt(q, r)' /\ handler' = [handler EXCEPT ![<<q, r>>] = "idle"]
      BY <2>2, CallEndsFacts
    <3>2. pc'[q] = "infer" => handler'[<<q, r>>] = "idle"
      BY <3>1, TaskFacts DEF GatewayInv, Types
    <3>3. StoredAt(p, n)' => handler'[<<p, n>>] = "idle"
      BY <1>1, <1>2, <1>3, <1>4 DEF GatewayInv, Spent
    <3> QED  BY <2>2, <3>1, <3>2, <3>3, TaskFacts
  <2>3. \/ pc'[p] = pc[p] /\ calling'[p] = calling[p]
        \/ p = q /\ pc[q] \in Operation /\ calling[q] = r /\ CallEnds(q, r)
    BY CallTypes DEF CallEffect, callerVars
  <2> QED  BY <2>1, <2>2, <2>3
<1>8. ASSUME NEW i \in DOMAIN history', NEW j \in DOMAIN history',
             history'[i].by = history'[j].by, history'[i].at = history'[j].at
      PROVE  i = j
  <2>1. Adds(q, r, raised) => ~StoredAt(q, r)
    BY <1>3, <1>4 DEF GatewayInv, Spent
  <2> QED  BY <1>0, <1>8, <2>1 DEF GatewayInv, Spent, StoredAt
<1> QED  BY <1>6, <1>7, <1>8 DEF Spent

LEMMA CallKept ==
  ASSUME GatewayInv, NEW q \in Request, NEW r \in Replica, NEW raised \in BOOLEAN,
         CallEffect(q, r, raised)
  PROVE  GatewayInv'
BY CallTypes, CallAnswers, CallAlone, CallStores, CallSpent DEF GatewayInv

\* A call that fails, of whatever kind
LEMMA CallFailsEnds ==
  ASSUME GatewayInv, NEW q \in Request, NEW r \in Replica, NEW raised \in BOOLEAN,
         pc[q] \in Operation, calling[q] = r,
         UNCHANGED storeVars \/ Adds(q, r, raised), CallFails(q)
  PROVE  CallEnds(q, r)
<1>1. CASE q \in Queries /\ pc[q] = "write"
  <2>1. Answers(q, "ok", "miss_generated_write_failed", 0)
    BY <1>1 DEF CallFails
  <2>2. "ok" \in Status /\ "miss_generated_write_failed" \in CacheStatus /\ 0 \in Nat
    BY DEF Status, CacheStatus
  <2>3. Len(history') \in Nat /\ store' \in [Replica -> 0..Len(history')]
    BY DataFacts
  <2>4. 0 <= Len(history') /\ \A n \in Replica : Current(history', store'[n], 0)
    BY <2>3 DEF Current
  <2>5. seen[q] = 0
    BY <1>1 DEF GatewayInv, Seen
  <2> QED  BY <2>1, <2>2, <2>4, <2>5 DEF CallEnds
<1>2. CASE ~(q \in Queries /\ pc[q] = "write")
  BY <1>2 DEF CallFails, CallEnds
<1> QED  BY <1>1, <1>2

LEMMA TimeoutKept ==
  ASSUME GatewayInv, NEW q \in Request, Timeout(q)
  PROVE  GatewayInv'
<1>1. pc[q] \in Operation /\ calling[q] \in Replica
  BY DEF Timeout, GatewayInv, Types
<1>2. UNCHANGED storeVars /\ handler' = handler /\ seen' = seen
      /\ timedOut' = timedOut \cup {q} /\ CallFails(q)
  BY DEF Timeout
<1>3. CallEnds(q, calling[q])
  BY <1>1, <1>2, CallFailsEnds
<1>4. CallEffect(q, calling[q], FALSE)
  BY <1>1, <1>2, <1>3 DEF CallEffect
<1> QED  BY <1>1, <1>4, CallKept

LEMMA HandlerFailsKept ==
  ASSUME GatewayInv, NEW q \in Request, NEW r \in Replica, HandlerFails(<<q, r>>)
  PROVE  GatewayInv'
<1>1. /\ UNCHANGED storeVars /\ seen' = seen /\ timedOut' = timedOut
      /\ handler' = [handler EXCEPT ![<<q, r>>] = "idle"] /\ handler[<<q, r>>] # "idle"
      /\ IF Waits(<<q, r>>) THEN CallFails(q) ELSE UNCHANGED callerVars
  BY DEF HandlerFails, End
<1>2. Waits(<<q, r>>) => pc[q] \in Operation /\ calling[q] = r
  BY <1>1, TaskFacts DEF Waits, GatewayInv, Types
<1>3. Waits(<<q, r>>) => CallEnds(q, r)
  BY <1>1, <1>2, CallFailsEnds
<1>4. CallEffect(q, r, FALSE)
  BY <1>1, <1>2, <1>3 DEF CallEffect
<1> QED  BY <1>4, CallKept

LEMMA ServeReadKept ==
  ASSUME GatewayInv, NEW q \in Request, NEW r \in Replica, ServeRead(<<q, r>>)
  PROVE  GatewayInv'
<1>1. /\ UNCHANGED storeVars /\ seen' = seen /\ timedOut' = timedOut
      /\ handler' = [handler EXCEPT ![<<q, r>>] = "idle"] /\ handler[<<q, r>>] = "read"
      /\ IF ~Waits(<<q, r>>) THEN UNCHANGED callerVars
         ELSE IF store[r] # 0 THEN Answers(q, "ok", "hit", store[r])
         ELSE Goto(q, "infer") /\ UNCHANGED <<targets, calling, answer>>
  BY DEF ServeRead, End
<1>2. Waits(<<q, r>>) => pc[q] \in Operation /\ calling[q] = r
  BY <1>1 DEF Waits, Operation
<1>3. /\ history' = history /\ store[r] \in Nat /\ store[r] <= Len(history')
      /\ seen[q] \in Nat
  BY <1>1 DEF GatewayInv, Types, storeVars
<1>4. q \in Queries => Current(history', store[r], seen[q])
  BY <1>3 DEF GatewayInv, Seen
<1>5. ~StoredAt(q, r)'
  BY <1>1, <1>3 DEF GatewayInv, Spent, StoredAt
<1>6. "ok" \in Status /\ "hit" \in CacheStatus
  BY DEF Status, CacheStatus
<1>7. Waits(<<q, r>>) => CallEnds(q, r)
  <2>1. CASE Waits(<<q, r>>) /\ store[r] # 0
    <3>1. Answers(q, "ok", "hit", store[r])
      BY <1>1, <2>1
    <3> QED  BY <1>3, <1>4, <1>6, <3>1 DEF CallEnds
  <2>2. CASE Waits(<<q, r>>) /\ store[r] = 0
    <3>1. q \in Queries => seen[q] = 0
      BY <1>3, <1>4, <2>2 DEF Current
    <3> QED  BY <1>1, <1>5, <2>2, <3>1 DEF CallEnds
  <2> QED  BY <2>1, <2>2
<1>8. CallEffect(q, r, FALSE)
  BY <1>1, <1>2, <1>7 DEF CallEffect
<1> QED  BY <1>8, CallKept

LEMMA ServeArmKept ==
  ASSUME GatewayInv, NEW q \in Request, NEW r \in Replica, ServeArm(<<q, r>>)
  PROVE  GatewayInv'
<1>1. /\ UNCHANGED storeVars /\ seen' = seen /\ timedOut' = timedOut
      /\ handler' = [handler EXCEPT ![<<q, r>>] = "idle"] /\ handler[<<q, r>>] = "arm"
      /\ IF Waits(<<q, r>>) THEN Answers(q, "ok", "none", 0) ELSE UNCHANGED callerVars
  BY DEF ServeArm, End
<1>2. Waits(<<q, r>>) => pc[q] = "arm" /\ pc[q] \in Operation /\ calling[q] = r
  BY <1>1 DEF Waits, Operation
<1>3. q \in Queries /\ pc[q] = "arm" => seen[q] = 0
  BY DEF GatewayInv, Seen
<1>4. 0 <= Len(history') /\ \A n \in Replica : Current(history', store'[n], 0)
  <2>1. Len(history') \in Nat /\ store' \in [Replica -> 0..Len(history')]
    BY <1>1, DataFacts
  <2> QED  BY <2>1 DEF Current
<1>5. "ok" \in Status /\ "none" \in CacheStatus /\ 0 \in Nat
  BY DEF Status, CacheStatus
<1>6. Waits(<<q, r>>) => CallEnds(q, r)
  BY <1>1, <1>2, <1>3, <1>4, <1>5 DEF CallEnds
<1>7. CallEffect(q, r, FALSE)
  BY <1>1, <1>2, <1>6 DEF CallEffect
<1> QED  BY <1>7, CallKept

LEMMA ServeWriteKept ==
  ASSUME GatewayInv, NEW q \in Request, NEW r \in Replica, NEW S \in SUBSET Replica,
         NEW status \in Status, NEW raised \in BOOLEAN, ServeWrite(<<q, r>>, S, status, raised)
  PROVE  GatewayInv'
<1> DEFINE e == IF S = {} THEN 0 ELSE Len(history) + 1
           c == IF q \in Queries THEN Written(status) ELSE "none"
<1>1. /\ seen' = seen /\ timedOut' = timedOut
      /\ handler' = [handler EXCEPT ![<<q, r>>] = "idle"] /\ handler[<<q, r>>] = "write"
      /\ history' = IF S = {} THEN history
                    ELSE Append(history, [by |-> q, at |-> r, status |-> status, raised |-> raised])
      /\ store' = [n \in Replica |-> IF n \in S THEN e ELSE store[n]]
      /\ IF ~Waits(<<q, r>>) THEN UNCHANGED callerVars
         ELSE IF raised THEN CallFails(q) ELSE Answers(q, status, c, e)
  BY DEF ServeWrite, Wrote, End
<1>2. /\ status = "ok" => S = Replica
      /\ status = "degraded" => r \in S
      /\ \/ UNCHANGED lateStores
         \/ /\ status = "degraded"
            /\ \E n \in Replica : lateStores' = lateStores \cup {[to |-> n, entry |-> Len(history) + 1]}
  BY DEF ServeWrite, Reports, MayBeLate
<1>3. Waits(<<q, r>>) => pc[q] = "write" /\ pc[q] \in Operation /\ calling[q] = r
  BY <1>1 DEF Waits, Operation
<1>4. Len(history) \in Nat /\ history \in Seq(WriteTaken) /\ store \in [Replica -> 0..Len(history)]
  BY DEF GatewayInv, Types
<1>5. IF S = {} THEN UNCHANGED storeVars ELSE Adds(q, r, raised)
  <2>1. CASE S = {}
    BY <1>1, <1>2, <1>4, <2>1 DEF storeVars
  <2>2. CASE S # {}
    <3>1. /\ history' = Append(history, [by |-> q, at |-> r, status |-> status, raised |-> raised])
          /\ store' = [n \in Replica |-> IF n \in S THEN Len(history) + 1 ELSE store[n]]
      BY <1>1, <2>2
    <3> QED  BY <1>2, <2>2, <3>1 DEF Adds
  <2> QED  BY <2>1, <2>2
<1>6. Waits(<<q, r>>) => CallEnds(q, r)
  <2>1. CASE Waits(<<q, r>>) /\ raised
    <3>1. CallFails(q)
      BY <1>1, <2>1
    <3> QED  BY <1>3, <1>5, <2>1, <3>1, CallFailsEnds
  <2>2. CASE Waits(<<q, r>>) /\ ~raised
    <3>1. c \in CacheStatus /\ e \in Nat
      BY <1>4 DEF Written, CacheStatus
    <3>2. Len(history') \in Nat /\ e <= Len(history')
      BY <1>1, <1>4, <1>5, AddsFacts
    <3>3. status = "ok" => \A n \in Replica : store'[n] = e
      BY <1>1, <1>2
    <3>4. status = "ok" => \A n \in Replica : Current(history', store'[n], e)
      BY <3>1, <3>3 DEF Current
    <3>5. q \in Queries => seen[q] = 0
      BY <1>3, <2>2 DEF GatewayInv, Seen
    <3>6. Answers(q, status, c, e)
      BY <1>1, <2>2
    <3> HIDE DEF e, c
    <3> QED  BY <3>1, <3>2, <3>4, <3>5, <3>6 DEF CallEnds
  <2> QED  BY <2>1, <2>2
<1>7. q \notin timedOut => Waits(<<q, r>>)
  BY <1>1 DEF GatewayInv, Alone, Waits
<1>8. q \notin timedOut => pc[q] # "done" /\ (raised \/ pc'[q] = "done")
  <2>1. Waits(<<q, r>>) => pc[q] # "done"
    BY <1>3 DEF Operation
  <2>2. Waits(<<q, r>>) /\ ~raised => pc' = [pc EXCEPT ![q] = "done"]
    BY <1>1 DEF Answers, Goto
  <2> QED  BY <1>7, <2>1, <2>2 DEF GatewayInv, Types
<1>9. CallEffect(q, r, raised)
  <2>1. \/ UNCHANGED storeVars
        \/ /\ Adds(q, r, raised) /\ timedOut' = timedOut /\ handler[<<q, r>>] = "write"
           /\ q \notin timedOut => pc[q] # "done" /\ (raised \/ pc'[q] = "done")
    BY <1>1, <1>5, <1>8
  <2>2. \/ UNCHANGED callerVars /\ ~Waits(<<q, r>>)
        \/ pc[q] \in Operation /\ calling[q] = r /\ CallEnds(q, r)
    BY <1>1, <1>3, <1>6
  <2> QED  BY <1>1, <2>1, <2>2 DEF CallEffect
<1> QED  BY <1>9, CallKept

\* What comes late is the entry of a degraded write.
LEMMA LateStoreKept ==
  ASSUME GatewayInv, NEW m \in lateStores, LateStore(m)
  PROVE  GatewayInv'
<1>1. /\ UNCHANGED callVars /\ history' = history /\ handler' = handler
      /\ store' = [store EXCEPT ![m.to] = m.entry] /\ lateStores' = lateStores \ {m}
  BY DEF LateStore
<1>2. /\ m.to \in Replica /\ m.entry \in DOMAIN history
      /\ history[m.entry].status = "degraded" /\ m.entry \in 1..Len(history)
  BY DEF GatewayInv, Types, Late
<1>3. store' \in [Replica -> 0..Len(history)]
      /\ \A n \in Replica : store'[n] = store[n] \/ store'[n] = m.entry
  BY <1>1, <1>2 DEF GatewayInv, Types
<1>4. \A n \in Replica, k \in Nat :
        Current(history, store[n], k) => Current(history, store'[n], k)
  BY <1>2, <1>3 DEF Current
<1>5. Types'
  BY <1>1, <1>3 DEF GatewayInv, Types, callVars, callerVars
<1>6. \A q \in Request : answer[q].entry \in Nat /\ seen[q] \in Nat
  BY DEF GatewayInv, Types, Answer
<1>7. Told'
  BY <1>1, <1>4, <1>6 DEF GatewayInv, Told, callVars, callerVars
<1>8. Seen'
  BY <1>1, <1>4, <1>6, TaskFacts DEF GatewayInv, Seen, callVars, callerVars
<1>9. Late' /\ Alone' /\ Stores' /\ Repeated'
  BY <1>1 DEF GatewayInv, Late, Alone, Stores, Repeated, callVars, callerVars
<1>10. Spent'
  BY <1>1 DEF GatewayInv, Spent, StoredAt, callVars, callerVars
<1> QED  BY <1>5, <1>7, <1>8, <1>9, <1>10 DEF GatewayInv

-----------------------------------------------------------------------------
(* The theorems.                                                            *)

LEMMA GatewayInitInv == GatewayInit => GatewayInv
<1> SUFFICES ASSUME GatewayInit
             PROVE  GatewayInv
  OBVIOUS
<1>1. history = <<>> /\ Len(history) = 0 /\ DOMAIN history = {} /\ history \in Seq(WriteTaken)
  BY DEF GatewayInit
<1>2. Types
  BY <1>1 DEF GatewayInit, Types, Label, Answer, NoAnswer, Status, CacheStatus, Operation
<1>3. Told
  BY <1>1 DEF GatewayInit, Told, NoAnswer
<1>4. Seen
  BY TaskFacts DEF GatewayInit, Seen, Current
<1>5. Alone
  BY TaskFacts DEF GatewayInit, Alone
<1>6. Late /\ Stores /\ Repeated
  BY <1>1 DEF GatewayInit, Late, Stores, Repeated
<1>7. Spent
  BY <1>1, TaskFacts DEF GatewayInit, Spent, StoredAt
<1> QED  BY <1>2, <1>3, <1>4, <1>5, <1>6, <1>7 DEF GatewayInv

LEMMA GatewayStepInv == GatewayInv /\ [GatewayNext]_gatewayVars => GatewayInv'
<1> SUFFICES ASSUME GatewayInv, [GatewayNext]_gatewayVars
             PROVE  GatewayInv'
  OBVIOUS
<1>1. ASSUME NEW q \in Request, Forward(q)
      PROVE  GatewayInv'
  BY <1>1, AcceptKept, AcceptArmKept, ExhaustedKept, InferKept, InferFailsKept,
     TimeoutKept, CallReplicaKept, CallRefusedKept DEF Forward
<1>2. ASSUME NEW x \in Task, Handle(x)
      PROVE  GatewayInv'
  <2>1. PICK q \in Request, r \in Replica : x = <<q, r>>
    BY DEF Task
  <2> QED  BY <1>2, <2>1, HandlerFailsKept, ServeReadKept, ServeArmKept, ServeWriteKept
           DEF Handle
<1>3. CASE UNCHANGED gatewayVars
  <2>1. UNCHANGED <<pc, targets, calling, answer, seen, timedOut, handler>>
        /\ UNCHANGED <<history, store, lateStores>>
    BY <1>3 DEF gatewayVars, callVars, callerVars, storeVars
  <2>2. Types' /\ Late' /\ Told' /\ Seen'
    BY <2>1 DEF GatewayInv, Types, Late, Told, Seen
  <2>3. Alone' /\ Stores' /\ Repeated' /\ Spent'
    BY <2>1 DEF GatewayInv, Alone, Stores, Repeated, Spent, StoredAt
  <2> QED  BY <2>2, <2>3 DEF GatewayInv
<1> QED  BY <1>1, <1>2, <1>3, LateStoreKept DEF GatewayNext

\* The types of the gateway's requests and of the replicas' handlers: a caller waits only
\* for a handler that runs.
THEOREM GatewayTypesHold == GatewaySpec => []GatewayTypeOK
  BY GatewayInitInv, GatewayStepInv, PropertiesFromInv, PTL DEF GatewaySpec

\* A query accepted after a write was answered ok reads its entry or a newer one at
\* whatever replica, whatever fails and whichever calls are given up; what it may read
\* instead is the entry of a write answered degraded.
THEOREM CommittedIsRead == GatewaySpec => []CommittedRead
  BY GatewayInitInv, GatewayStepInv, PropertiesFromInv, PTL DEF GatewaySpec

\* Trying the replicas in turn stores no entry twice at one of them, and at two of them
\* only if a call of the request was given up or the first replica failed after it had
\* stored the entry.
THEOREM FailoverStoresOnce == GatewaySpec => []StoredOnce
  BY GatewayInitInv, GatewayStepInv, PropertiesFromInv, PTL DEF GatewaySpec

=============================================================================
