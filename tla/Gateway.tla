-------------------------------- MODULE Gateway --------------------------------
(***************************************************************************)
(* The gateway (services/gateway/service.py): requests tried at one        *)
(* replica after the other, misses answered by inference and written back, *)
(* faults forwarded; and the handlers of the replicas it calls.            *)
(*                                                                         *)
(* All requests are about one prompt and model.  How a distributed write   *)
(* comes about is the subject of ReplicatedCache; here a write takes       *)
(* effect at its origin and whichever peers it reaches in one step, under  *)
(* the write mutex and away from readers, but for a replicate call that    *)
(* was given up: its entry is stored later, over whatever is there then.   *)
(***************************************************************************)
EXTENDS Integers, Sequences, FiniteSets

CONSTANTS
  Replica,
  Queries, Writes, Arms,   \* the requests, by kind
  Nobody,                  \* no replica
  MaxTimeouts,             \* bound: calls given up while their handler goes on
  MaxFailures              \* bound: calls refused, inferences and writes that fail

ASSUME RequestAssumption ==
  /\ Queries \cap Writes = {} /\ Queries \cap Arms = {} /\ Writes \cap Arms = {}
  /\ Nobody \notin Replica

VARIABLES
  pc,         \* [q]: where the gateway's handler of q stands
  targets,    \* [q]: the replicas it has still to try
  calling,    \* [q]: the replica it called last
  answer,     \* [q]
  history,    \* ghost: the writes that took effect, in the order of the write mutex
  store,      \* [r]: the number of the write whose entry r has, 0 for none
  lateStores, \* replicate calls given up by a write that their handler goes on with
  seen,       \* ghost, [q]: the newest committed write when q was accepted
  timedOut,   \* the requests a call of which was given up
  handler,    \* [x]: what task x does, "idle" if it is not running
  failures

Request == Queries \cup Writes \cup Arms
Task == Request \X Replica   \* a handler is named by its request and its replica

callerVars == <<pc, targets, calling, answer>>
callVars == <<callerVars, seen, timedOut, failures>>
storeVars == <<history, store, lateStores>>
gatewayVars == <<callVars, storeVars, handler>>

Operation == {"read", "write", "arm"}
Label == {"new", "next", "read", "write", "arm", "infer", "done"}
Status == {"ok", "degraded", "unavailable"}
CacheStatus == {"none", "hit", "miss_generated", "miss_generated_write_degraded",
  "miss_generated_write_unavailable", "miss_generated_write_failed",
  "inference_unavailable", "replicas_unavailable"}
Answer == [status : Status, cache : CacheStatus, entry : Nat]
WriteTaken == [by : Request, at : Replica, status : Status, raised : BOOLEAN]
NoAnswer == [status |-> "unavailable", cache |-> "none", entry |-> 0]

GatewayInit ==
  /\ handler = [x \in Task |-> "idle"]
  /\ pc = [q \in Request |-> "new"]
  /\ targets = [q \in Request |-> {}]
  /\ calling = [q \in Request |-> Nobody]
  /\ answer = [q \in Request |-> NoAnswer]
  /\ history = <<>>
  /\ store = [r \in Replica |-> 0]
  /\ lateStores = {}
  /\ seen = [q \in Request |-> 0]
  /\ timedOut = {}
  /\ failures = 0

Begin(x, o) == handler[x] = "idle" /\ handler' = [handler EXCEPT ![x] = o]
End(x) == handler' = [handler EXCEPT ![x] = "idle"]

Goto(q, label) == pc' = [pc EXCEPT ![q] = label]
Failure == failures < MaxFailures /\ failures' = failures + 1

\* The gateway's handler returns; its local variables are gone.
Answers(q, status, cache, entry) ==
  /\ answer' = [answer EXCEPT ![q] = [status |-> status, cache |-> cache, entry |-> entry]]
  /\ targets' = [targets EXCEPT ![q] = {}]
  /\ calling' = [calling EXCEPT ![q] = Nobody]
  /\ Goto(q, "done")

\* The newest write whose client was told that it is on every replica
Committed ==
  LET told == {answer[q].entry : q \in {p \in Request :
                 /\ pc[p] = "done" /\ answer[p].status = "ok"
                 /\ answer[p].cache # "hit"}} \cup {0}
  IN CHOOSE n \in told : \A m \in told : m <= n

-----------------------------------------------------------------------------
(* The gateway.                                                             *)

\* _replica_targets: the configured ones when the name service is unreachable or
\* lists nobody, else those it lists as healthy, in any order.
Targets(view) ==
  IF \A r \in Replica : view[r] = "unlisted" THEN Replica
  ELSE {r \in Replica : view[r] = "healthy"}

Accept(q) ==
  /\ pc[q] = "new" /\ q \notin Arms
  /\ \E view \in [Replica -> {"healthy", "unhealthy", "unlisted"}] :
       targets' = [targets EXCEPT ![q] = Targets(view)]
  /\ seen' = [seen EXCEPT ![q] = Committed]
  /\ Goto(q, "next")
  /\ UNCHANGED <<calling, answer, timedOut, failures, storeVars, handler>>

\* _replica_target_for_id: the named replica, listed or configured, or none
AcceptArm(q) ==
  /\ pc[q] = "new" /\ q \in Arms
  /\ \E T \in {{r} : r \in Replica} \cup {{}} : targets' = [targets EXCEPT ![q] = T]
  /\ Goto(q, "next")
  /\ UNCHANGED <<calling, answer, seen, timedOut, failures, storeVars, handler>>

Exhausted(q) ==
  /\ pc[q] = "next" /\ targets[q] = {}
  /\ Answers(q, "unavailable", IF q \in Queries THEN "replicas_unavailable" ELSE "none", 0)
  /\ UNCHANGED <<seen, timedOut, failures, storeVars, handler>>

CallReplica(q, r) ==
  LET o == IF q \in Queries THEN "read" ELSE IF q \in Writes THEN "write" ELSE "arm" IN
  /\ pc[q] = "next" /\ r \in targets[q]
  /\ targets' = [targets EXCEPT ![q] = @ \ {r}]
  /\ calling' = [calling EXCEPT ![q] = r]
  /\ Begin(<<q, r>>, o)
  /\ Goto(q, o)
  /\ UNCHANGED <<answer, seen, timedOut, failures, storeVars>>

CallRefused(q, r) ==
  /\ pc[q] = "next" /\ r \in targets[q]
  /\ Failure
  /\ targets' = [targets EXCEPT ![q] = @ \ {r}]
  /\ UNCHANGED <<pc, calling, answer, seen, timedOut, storeVars, handler>>

\* _query_miss: the write goes to the replica that missed.
Infer(q) ==
  /\ pc[q] = "infer"
  /\ Begin(<<q, calling[q]>>, "write")
  /\ Goto(q, "write")
  /\ UNCHANGED <<targets, calling, answer, seen, timedOut, failures, storeVars>>

InferFails(q) ==
  /\ pc[q] = "infer"
  /\ Failure
  /\ Answers(q, "unavailable", "inference_unavailable", 0)
  /\ UNCHANGED <<seen, timedOut, storeVars, handler>>

\* A call that ended with an error: the next replica is tried, but the write of a
\* generated answer is not tried again.
CallFails(q) ==
  IF q \in Queries /\ pc[q] = "write"
  THEN Answers(q, "ok", "miss_generated_write_failed", 0)
  ELSE Goto(q, "next") /\ UNCHANGED <<targets, calling, answer>>

\* The cache status of a query whose generated answer was written
Written(status) ==
  IF status = "ok" THEN "miss_generated"
  ELSE IF status = "degraded" THEN "miss_generated_write_degraded"
  ELSE "miss_generated_write_unavailable"

\* The answer from what the replica said of the write; unavailable is no error.
Wrote_Retries(q, status, entry) ==  \* variant for StoredOnce: degraded is taken for one
  IF q \in Queries THEN Answers(q, status, Written(status), entry)
  ELSE IF status = "degraded" THEN CallFails(q) ELSE Answers(q, status, "none", entry)
Wrote(q, status, entry) ==
  Answers(q, status, IF q \in Queries THEN Written(status) ELSE "none", entry)

\* The caller of handler x still waits for it.
Waits(x) == calling[x[1]] = x[2] /\ pc[x[1]] = handler[x]

Timeout(q) ==
  /\ pc[q] \in Operation /\ Cardinality(timedOut) < MaxTimeouts
  /\ CallFails(q)
  /\ timedOut' = timedOut \cup {q}
  /\ UNCHANGED <<seen, failures, storeVars, handler>>

-----------------------------------------------------------------------------
(* The replicas' handlers.  They may take any time: a fault that pauses them, a *)
(* write that waits for the token, a read that waits for a write.              *)

\* A fault of mode error_response, or an exception
HandlerFails_Silent(x) ==  \* variant for GatewayTypeOK: the caller is not told
  /\ handler[x] # "idle"
  /\ Failure
  /\ End(x)
  /\ UNCHANGED <<callerVars, seen, timedOut, storeVars>>
HandlerFails(x) ==
  /\ handler[x] # "idle"
  /\ Failure
  /\ End(x)
  /\ IF Waits(x) THEN CallFails(x[1]) ELSE UNCHANGED callerVars
  /\ UNCHANGED <<seen, timedOut, storeVars>>

ServeRead(x) ==
  LET q == x[1]
      entry == store[x[2]]
  IN
  /\ handler[x] = "read"
  /\ End(x)
  /\ IF ~Waits(x) THEN UNCHANGED callerVars
     ELSE IF entry # 0 THEN Answers(q, "ok", "hit", entry)
     ELSE Goto(q, "infer") /\ UNCHANGED <<targets, calling, answer>>
  /\ UNCHANGED <<seen, timedOut, failures, storeVars>>

\* What write_cache of replica o may report of a write that reached the replicas in S.
\* Its own store may have taken the entry although it raised, and the peer whose
\* call failed may have done what it was called for.
Reports_Ok(status, S, o) ==  \* variant for CommittedRead: failed calls to peers are ignored
  \/ status = "ok" /\ o \in S
  \/ status = "unavailable" /\ S \subseteq {o}
Reports(status, S, o) ==
  \/ status = "ok" /\ S = Replica
  \/ status = "degraded" /\ o \in S
  \/ status = "unavailable" /\ S \subseteq {o}

\* A replicate call under way to r when the write gave up may still be executed.
MayBeLate(status, S, r) == status = "degraded" /\ r \notin S

\* After any outcome the finally clause may raise (finish_local_write without the
\* token, a transfer that another thread has cleared): the caller gets an error.
ServeWrite(x, S, status, raised) ==
  LET n == Len(history) + 1
      entry == IF S = {} THEN 0 ELSE n
  IN
  /\ handler[x] = "write"
  /\ Reports(status, S, x[2])
  /\ IF status # "ok" \/ raised THEN Failure ELSE UNCHANGED failures
  /\ history' = IF S = {} THEN history
                ELSE Append(history, [by |-> x[1], at |-> x[2], status |-> status, raised |-> raised])
  /\ store' = [r \in Replica |-> IF r \in S THEN entry ELSE store[r]]
  /\ \/ UNCHANGED lateStores
     \/ \E r \in Replica :
          MayBeLate(status, S, r) /\ lateStores' = lateStores \cup {[to |-> r, entry |-> n]}
  /\ End(x)
  /\ IF ~Waits(x) THEN UNCHANGED callerVars
     ELSE IF raised THEN CallFails(x[1])
     ELSE Wrote(x[1], status, entry)
  /\ UNCHANGED <<seen, timedOut>>

\* apply_replicated_write compares nothing.
LateStore(m) ==
  /\ store' = [store EXCEPT ![m.to] = m.entry]
  /\ lateStores' = lateStores \ {m}
  /\ UNCHANGED <<callVars, history, handler>>

ServeArm(x) ==
  /\ handler[x] = "arm"
  /\ End(x)
  /\ IF Waits(x) THEN Answers(x[1], "ok", "none", 0) ELSE UNCHANGED callerVars
  /\ UNCHANGED <<seen, timedOut, failures, storeVars>>

-----------------------------------------------------------------------------
Forward(q) ==
  \/ Accept(q) \/ AcceptArm(q) \/ Exhausted(q) \/ Infer(q) \/ InferFails(q) \/ Timeout(q)
  \/ \E r \in Replica : CallReplica(q, r) \/ CallRefused(q, r)

Handle(x) ==
  \/ HandlerFails(x) \/ ServeRead(x) \/ ServeArm(x)
  \/ \E S \in SUBSET Replica, status \in Status, raised \in BOOLEAN :
       ServeWrite(x, S, status, raised)

GatewayNext ==
  \/ \E q \in Request : Forward(q)
  \/ \E x \in Task : Handle(x)
  \/ \E m \in lateStores : LateStore(m)

GatewaySpec == GatewayInit /\ [][GatewayNext]_gatewayVars

-----------------------------------------------------------------------------
(* Properties.                                                              *)

\* Types; one handler at a time works for a request at a replica, and the caller
\* waits only for a handler that has not ended.
GatewayTypeOK ==
  /\ pc \in [Request -> Label] /\ targets \in [Request -> SUBSET Replica]
  /\ calling \in [Request -> Replica \cup {Nobody}]
  /\ answer \in [Request -> Answer] /\ history \in Seq(WriteTaken)
  /\ store \in [Replica -> 0..Len(history)] /\ seen \in [Request -> 0..Len(history)]
  /\ lateStores \subseteq [to : Replica, entry : DOMAIN history]
  /\ handler \in [Task -> Operation \cup {"idle"}]
  /\ \A q \in Request : pc[q] \in Operation => handler[<<q, calling[q]>>] = pc[q]

\* A client that was told its write is on every replica (lines 266-282) can rely
\* on it: a query accepted later never misses, whatever replica the gateway
\* chooses, and what it reads is older only if it is the entry of a write that was
\* answered "degraded", of which a replicate call came late (manager.py:274).
CommittedRead ==
  \A q \in Queries :
    pc[q] = "done" /\ seen[q] # 0 =>
      /\ answer[q].cache \in {"hit", "replicas_unavailable"}
      /\ answer[q].cache = "hit" =>
           answer[q].entry >= seen[q] \/ history[answer[q].entry].status = "degraded"

\* The failover (lines 54-74) stores a request's entry a second time only at
\* another replica, and only if the gateway does not know how the first write
\* ended: its call was given up, or the replica failed after it had stored the entry.
StoredOnce ==
  \A i, j \in DOMAIN history :
    i < j /\ history[i].by = history[j].by =>
      /\ history[i].at # history[j].at
      /\ history[i].raised \/ history[i].by \in timedOut

\* An entry does not come back after another one was stored over it.
NeverAgain ==
  \A i, j \in DOMAIN history : i < j /\ history[i].by = history[j].by =>
    \A k \in i..j : history[k].by = history[i].by

=============================================================================
