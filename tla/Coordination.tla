---------------------------- MODULE Coordination ----------------------------
(***************************************************************************)
(* The distributed write lock of the replicas: the coordinator of          *)
(* services/replica/coordination.py and the control flow of                *)
(* services/replica/manager.py that drives it.                             *)
(*                                                                         *)
(* A method of the coordinator runs under its lock, so it is one action.   *)
(* The manager calls several of them in a row without a lock, from the     *)
(* threads that serve HTTP requests, so each thread has a program counter  *)
(* and every schedule of the threads is a behaviour.  A call to a peer     *)
(* blocks its caller: the call is on its way while the caller's pc says so,*)
(* and it is served by a thread of the peer.                               *)
(***************************************************************************)
EXTENDS Integers, Sequences, FiniteSets, Functions

CONSTANTS
  N,              \* replicas are numbered in the order of their ids
  InitialHolder,  \* settings.initial_token_replica_id
  Writer,         \* threads that serve POST /cache/write
  Handler,        \* threads that serve /internal/mutex/...
  Syncer,         \* threads that apply replayed or bootstrap entries
  Home,           \* the replica a thread belongs to
  NoThread,       \* "nobody waits for this thread's reply"
  MaxWrites,      \* bound: write requests opened per replica
  MaxReaders,     \* bound: concurrent readers per replica
  MaxFailures,    \* bound: calls that time out and local writes that fail
  Lossy,          \* a call that timed out may be lost, else it arrives late
  MaxFinished     \* length of _finished_remote_write_order (256 in the code)

Replica == 1..N
Thread  == Writer \cup Handler \cup Syncer

\* The constants are the ones a deployment has: a non-empty set of replicas,
\* every thread in one of them and of one kind.
ASSUME ConstantsAssumption ==
  /\ N \in Nat \ {0}
  /\ InitialHolder \in Replica
  /\ Home \in [Thread -> Replica]
  /\ NoThread \notin Thread
  /\ Writer \cap Handler = {} /\ Writer \cap Syncer = {} /\ Handler \cap Syncer = {}
  /\ MaxWrites \in Nat /\ MaxReaders \in Nat /\ MaxFailures \in Nat
  /\ Lossy \in BOOLEAN
  /\ MaxFinished \in Nat \ {0}

VARIABLES
  requestNumbers,    \* [r][q]: the highest request of q that r knows
  requestingLocal,   \* [r]: r waits for, or uses, the token
  localRequestSeq,   \* [r]: the request r opened last, 0 when none
  hasToken,          \* [r]: r holds the token
  tokenVersionSeen,  \* [r]: the highest version r received or sent
  token,             \* [r]: the token r holds, Blank when it holds none
  pending,           \* [r]: _pending_token_transfer, NoTransfer for None
  activeReaders,     \* [r]: threads of r inside read_guard
  localWriteActive,  \* [r]: a write of r is in its critical section
  remoteWriters,     \* [r]: replicas whose writes block the reads of r
  finishedWrites,    \* [r]: remembered ids of finished writes, oldest first
  pc,                \* [x]: where thread x is
  seq,               \* [x]: request_seq of the write x serves
  peer,              \* [x]: the peer x's loop is at, or the source x syncs from
  out,               \* [x]: the transfer x prepares or sends
  caller,            \* [x]: the thread waiting for x's reply
  lateCalls,         \* calls given up by their caller that may still arrive
  lateTransfers,     \* the same for token transfers
  failures           \* failures so far

requestVars == <<requestNumbers, requestingLocal, localRequestSeq>>
tokenVars   == <<hasToken, tokenVersionSeen, token>>
lockVars    == <<requestVars, tokenVars, pending>>
markVars    == <<remoteWriters, finishedWrites>>
guardVars   == <<activeReaders, localWriteActive, markVars>>
threadVars  == <<pc, seq, peer, out, caller>>
netVars     == <<lateCalls, lateTransfers, failures>>
vars == <<lockVars, guardVars, threadVars, netVars>>

-----------------------------------------------------------------------------
WriteId == Replica \X Nat            \* uuid4 of a write: its origin and request

Grants == [Replica -> Nat]
Token  == [lastGranted : Grants, queue : Seq(Replica), version : Nat]
Transfer == [to : 0..N, lastGranted : Grants, queue : Seq(Replica), version : Nat]
Call == [kind : {"request", "start", "finish"}, id : WriteId, to : Replica]

NoGrants   == [q \in Replica |-> 0]
Blank      == [lastGranted |-> NoGrants, queue |-> <<>>, version |-> 0]
For(q)     == [to |-> q, lastGranted |-> NoGrants, queue |-> <<>>, version |-> 0]
NoTransfer == For(0)

Waiting == {"ask", "asked", "start", "replicate", "release", "await", "awaited"}
Label == Waiting \cup
  {"idle", "opened", "begin", "apply", "finish", "abort",
   "check", "next", "export", "mark", "send", "clear", "unsent", "sync"}

\* s without e; a queue or a memory of finished writes never holds e twice.
Without(s, e) ==
  IF e \in Range(s)
  THEN LET i == CHOOSE i \in 1..Len(s) : s[i] = e
       IN  SubSeq(s, 1, i - 1) \o SubSeq(s, i + 1, Len(s))
  ELSE s

\* The peers of r in the configured order, 0 before the first and after the last.
NextPeer_OffByOne(r, q) ==  \* variant for TypeOK: runs past the last peer
  IF q + 1 = r THEN q + 2 ELSE q + 1
NextPeer(r, q) ==
  LET p == IF q + 1 = r THEN q + 2 ELSE q + 1 IN IF p <= N THEN p ELSE 0
PrevPeer(r, q) == IF q = r + 1 THEN q - 2 ELSE q - 1

FirstPeer(r) == NextPeer(r, 0)
LastPeer(r)  == PrevPeer(r, N + 1)

\* The next stage of a write whose loop over the peers is at q, 0 when it ended.
Stage(q, loop, after) == IF q = 0 THEN after ELSE loop

Id(x) == <<Home[x], seq[x]>>

Goto(x, label) == pc' = [pc EXCEPT ![x] = label]
Step(x, label) == Goto(x, label) /\ UNCHANGED <<seq, peer, out, caller>>

Init ==
  /\ requestNumbers = [r \in Replica |-> NoGrants]
  /\ requestingLocal = [r \in Replica |-> FALSE]
  /\ localRequestSeq = [r \in Replica |-> 0]
  /\ hasToken = [r \in Replica |-> r = InitialHolder]
  /\ tokenVersionSeen = [r \in Replica |-> 0]
  /\ token = [r \in Replica |-> Blank]
  /\ pending = [r \in Replica |-> NoTransfer]
  /\ activeReaders = [r \in Replica |-> 0]
  /\ localWriteActive = [r \in Replica |-> FALSE]
  /\ remoteWriters = [r \in Replica |-> {}]
  /\ finishedWrites = [r \in Replica |-> <<>>]
  /\ pc = [x \in Thread |-> "idle"]
  /\ seq = [x \in Thread |-> 0]
  /\ peer = [x \in Thread |-> 0]
  /\ out = [x \in Thread |-> NoTransfer]
  /\ caller = [x \in Thread |-> NoThread]
  /\ lateCalls = {} /\ lateTransfers = {} /\ failures = 0

-----------------------------------------------------------------------------
(* The waiting queue of the token.                                         *)

\* Peers whose next request is known to r and not yet queued.
Eligible_Skips(r, t) ==  \* variant for RequestEnds: off by one
  {q \in Replica \ {r} : /\ requestNumbers[r][q] > t.lastGranted[q] + 1
                         /\ q \notin Range(t.queue)}
Eligible(r, t) ==
  {q \in Replica \ {r} : /\ requestNumbers[r][q] = t.lastGranted[q] + 1
                         /\ q \notin Range(t.queue)}

\* The sequences that list S once, by request number and then by id: there is
\* exactly one.
InRequestOrder(r, S) ==
  {s \in [1..Cardinality(S) -> S] :
     \A i, j \in 1..Cardinality(S) :
       i < j => \/ requestNumbers[r][s[i]] < requestNumbers[r][s[j]]
                \/ /\ requestNumbers[r][s[i]] = requestNumbers[r][s[j]]
                   /\ s[i] < s[j]}

Refreshed(r, t) ==
  {[t EXCEPT !.queue = t.queue \o s] : s \in InRequestOrder(r, Eligible(r, t))}

-----------------------------------------------------------------------------
(* Passing the token: _pass_token_if_needed, run by the thread that noted a*)
(* request, received the token or ended a write.                           *)

\* Where the thread goes that waits for a reply, when it gets one or an error.
Replied(y, ok) ==
  IF pc[y] = "awaited" THEN IF ok THEN "clear" ELSE "unsent"
  ELSE IF ok THEN Stage(NextPeer(Home[y], peer[y]), "ask", "begin") ELSE "abort"

\* x returns from its pass.  A handler replies to the thread that waits for it;
\* a thread that itself waits for a handler no longer does.
EndPass(x, ok) ==
  LET y == caller[x] IN
  /\ caller' = [h \in Thread |-> IF h = x \/ caller[h] = x THEN NoThread ELSE caller[h]]
  /\ out' = [out EXCEPT ![x] = NoTransfer]
  /\ IF y = NoThread
     THEN Goto(x, "idle") /\ UNCHANGED peer
     ELSE /\ pc' = [pc EXCEPT ![x] = "idle", ![y] = Replied(y, ok)]
          /\ peer' = IF pc[y] = "asked"
                     THEN [peer EXCEPT ![y] = IF ok THEN NextPeer(Home[y], peer[y]) ELSE 0]
                     ELSE peer
  /\ UNCHANGED seq

PassCheck(x) ==
  /\ pc[x] = "check"
  /\ Step(x, IF pending[Home[x]].to = 0 THEN "next" ELSE "send")
  /\ UNCHANGED <<lockVars, guardVars, netVars>>

\* The holder's own write comes before a hand-off.
MayPass_OverOwnWrite(r) == hasToken[r]  \* variant for ImplementsMutex
MayPass(r) == hasToken[r] /\ ~localWriteActive[r] /\ ~requestingLocal[r]

\* next_token_recipient finds nobody.
NextNobody(x) ==
  LET r == Home[x] IN
  /\ pc[x] = "next"
  /\ \/ ~MayPass(r)
     \/ token[r].queue = <<>> /\ Eligible(r, token[r]) = {}
  /\ EndPass(x, TRUE)
  /\ UNCHANGED <<lockVars, guardVars, netVars>>

NextRecipient(x) ==
  LET r == Home[x] IN
  /\ pc[x] = "next" /\ MayPass(r)
  /\ \E t \in Refreshed(r, token[r]) :
       /\ t.queue # <<>>
       /\ token' = [token EXCEPT ![r] = t]
       /\ out' = [out EXCEPT ![x] = For(Head(t.queue))]
  /\ Goto(x, "export")
  /\ UNCHANGED <<requestVars, hasToken, tokenVersionSeen, pending, guardVars,
                 seq, peer, caller, netVars>>

Export(x) ==
  LET r == Home[x]
      q == out[x].to
  IN
  /\ pc[x] = "export" /\ hasToken[r]
  /\ out' = [out EXCEPT ![x] =
               [to |-> q, lastGranted |-> token[r].lastGranted,
                queue |-> Without(token[r].queue, q), version |-> token[r].version + 1]]
  /\ Goto(x, "mark")
  /\ UNCHANGED <<lockVars, guardVars, seq, peer, caller, netVars>>

\* export_token_for_transfer raises: another thread sent the token meanwhile.
ExportWithoutToken(x) ==
  /\ pc[x] = "export" /\ ~hasToken[Home[x]]
  /\ EndPass(x, FALSE)
  /\ UNCHANGED <<lockVars, guardVars, netVars>>

\* mark_token_sent, and the assignment of _pending_token_transfer after it: no
\* other thread can tell the two apart, since one that reads None in between
\* finds no token to pass.
MarkSent(x) ==
  LET r == Home[x] IN
  /\ pc[x] = "mark"
  /\ hasToken' = [hasToken EXCEPT ![r] = FALSE]
  /\ token' = [token EXCEPT ![r] = Blank]
  /\ tokenVersionSeen' = [tokenVersionSeen EXCEPT
       ![r] = IF out[x].version > @ THEN out[x].version ELSE @]
  /\ pending' = [pending EXCEPT ![r] = out[x]]
  /\ out' = [out EXCEPT ![x] = NoTransfer]
  /\ Goto(x, "send")
  /\ UNCHANGED <<requestVars, guardVars, seq, peer, caller, netVars>>

Send(x) ==
  /\ pc[x] = "send" /\ pending[Home[x]].to # 0
  /\ out' = [out EXCEPT ![x] = pending[Home[x]]]
  /\ Goto(x, "await")
  /\ UNCHANGED <<lockVars, guardVars, seq, peer, caller, netVars>>

\* Unpacking None raises: another thread's reply has cleared the transfer.
SendNothing(x) ==
  /\ pc[x] = "send" /\ pending[Home[x]].to = 0
  /\ EndPass(x, FALSE)
  /\ UNCHANGED <<lockVars, guardVars, netVars>>

\* Any reply to a transfer is "accepted" or "stale".
ClearPending(x) ==
  /\ pc[x] = "clear"
  /\ pending' = [pending EXCEPT ![Home[x]] = NoTransfer]
  /\ EndPass(x, TRUE)
  /\ UNCHANGED <<requestVars, tokenVars, guardVars, netVars>>

\* The recipient answered with an error: the transfer stays pending.
GiveUpSend(x) ==
  /\ pc[x] = "unsent"
  /\ EndPass(x, TRUE)
  /\ UNCHANGED <<lockVars, guardVars, netVars>>

-----------------------------------------------------------------------------
(* The handlers of /internal/mutex.                                        *)

NoteRequest(p, q, n) ==
  requestNumbers' = [requestNumbers EXCEPT ![p][q] = IF n > @ THEN n ELSE @]

\* A transfer that is not newer than what p has seen is answered "stale".
Newer_Any(p, m) == TRUE  \* variant for TokenInv: a repeated or late transfer is accepted
Newer(p, m) == m.version > tokenVersionSeen[p]

ReceiveToken(p, m) ==
  \/ /\ ~Newer(p, m)
     /\ UNCHANGED tokenVars
  \/ /\ Newer(p, m)
     /\ hasToken' = [hasToken EXCEPT ![p] = TRUE]
     /\ tokenVersionSeen' = [tokenVersionSeen EXCEPT ![p] = m.version]
     /\ token' = [token EXCEPT ![p] = [lastGranted |-> m.lastGranted,
                                       queue |-> Without(m.queue, p),
                                       version |-> m.version]]

\* Thread h of the called replica takes the call of x.
ServeRequest(x, h) ==
  /\ pc[x] = "ask" /\ pc[h] = "idle" /\ Home[h] = peer[x]
  /\ NoteRequest(peer[x], Home[x], seq[x])
  /\ pc' = [pc EXCEPT ![x] = "asked", ![h] = "check"]
  /\ caller' = [caller EXCEPT ![h] = x]
  /\ UNCHANGED <<requestingLocal, localRequestSeq, tokenVars, pending, guardVars,
                 seq, peer, out, netVars>>

ServeTransfer(x, h) ==
  /\ pc[x] = "await" /\ pc[h] = "idle" /\ Home[h] = out[x].to
  /\ ReceiveToken(out[x].to, out[x])
  /\ pc' = [pc EXCEPT ![x] = "awaited", ![h] = "check"]
  /\ caller' = [caller EXCEPT ![h] = x]
  /\ UNCHANGED <<requestVars, pending, guardVars, seq, peer, out, netVars>>

LateRequest(h, c) ==
  /\ c.kind = "request" /\ pc[h] = "idle" /\ Home[h] = c.to
  /\ NoteRequest(c.to, c.id[1], c.id[2])
  /\ Goto(h, "check")
  /\ lateCalls' = lateCalls \ {c}
  /\ UNCHANGED <<requestingLocal, localRequestSeq, tokenVars, pending, guardVars,
                 seq, peer, out, caller, lateTransfers, failures>>

LateTransfer(h, m) ==
  /\ pc[h] = "idle" /\ Home[h] = m.to
  /\ ReceiveToken(m.to, m)
  /\ Goto(h, "check")
  /\ lateTransfers' = lateTransfers \ {m}
  /\ UNCHANGED <<requestVars, pending, guardVars, seq, peer, out, caller,
                 lateCalls, failures>>

-----------------------------------------------------------------------------
(* A local write: write_cache.                                             *)

OpenWrite(x) ==
  LET r == Home[x] IN
  /\ pc[x] = "idle" /\ requestNumbers[r][r] < MaxWrites
  /\ requestNumbers' = [requestNumbers EXCEPT ![r][r] = @ + 1]
  /\ localRequestSeq' = [localRequestSeq EXCEPT ![r] = requestNumbers[r][r] + 1]
  /\ requestingLocal' = [requestingLocal EXCEPT ![r] = TRUE]
  /\ seq' = [seq EXCEPT ![x] = requestNumbers[r][r] + 1]
  /\ Goto(x, "opened")
  /\ UNCHANGED <<tokenVars, pending, guardVars, peer, out, caller, netVars>>

\* should_broadcast_request
DecideBroadcast(x) ==
  LET r == Home[x]
      q == IF hasToken[r] THEN 0 ELSE FirstPeer(r)
  IN
  /\ pc[x] = "opened"
  /\ peer' = [peer EXCEPT ![x] = q]
  /\ Goto(x, Stage(q, "ask", "begin"))
  /\ UNCHANGED <<lockVars, guardVars, seq, out, caller, netVars>>

\* What begin_local_write waits for.
MayBegin_WithoutToken(x) ==  \* variant for MutualExclusion
  LET r == Home[x] IN
  /\ pc[x] = "begin" /\ localRequestSeq[r] = seq[x] /\ requestingLocal[r]
  /\ ~localWriteActive[r] /\ remoteWriters[r] = {} /\ activeReaders[r] = 0
MayBegin(x) ==
  LET r == Home[x] IN
  /\ pc[x] = "begin"
  /\ localRequestSeq[r] = seq[x] /\ requestingLocal[r] /\ hasToken[r]
  /\ ~localWriteActive[r] /\ remoteWriters[r] = {} /\ activeReaders[r] = 0

BeginWrite(x) ==
  LET r == Home[x] IN
  /\ MayBegin(x)
  /\ localWriteActive' = [localWriteActive EXCEPT ![r] = TRUE]
  /\ peer' = [peer EXCEPT ![x] = FirstPeer(r)]
  /\ Goto(x, Stage(FirstPeer(r), "start", "apply"))
  /\ UNCHANGED <<lockVars, activeReaders, markVars, seq, out, caller, netVars>>

\* What mark_remote_write_started waits for on p.
MayMark_AmongReaders(p) == ~localWriteActive[p]  \* variant for ReadIsolation
MayMark_AfterRequests(p) ==                      \* variant for WriteEnds
  activeReaders[p] = 0 /\ ~requestingLocal[p]
MayMark(p) == activeReaders[p] = 0 /\ ~localWriteActive[p]

\* A write whose end was already reported leaves no mark.
MarkStarted(p, id) ==
  /\ MayMark(p)
  /\ \/ /\ id \in Range(finishedWrites[p])
        /\ finishedWrites' = [finishedWrites EXCEPT ![p] = Without(@, id)]
        /\ UNCHANGED remoteWriters
     \/ /\ id \notin Range(finishedWrites[p])
        /\ remoteWriters' = [remoteWriters EXCEPT ![p] = @ \cup {id[1]}]
        /\ UNCHANGED finishedWrites
  /\ UNCHANGED <<activeReaders, localWriteActive>>

\* The oldest remembered write is dropped beyond MaxFinished.
Remember_Nothing(s, id) == s  \* variant for QuiescentClean
Remember(s, id) ==
  IF id \in Range(s) THEN s
  ELSE IF Len(s) < MaxFinished THEN Append(s, id) ELSE Append(Tail(s), id)

MarkFinished(p, id) ==
  /\ finishedWrites' = [finishedWrites EXCEPT ![p] = Remember(@, id)]
  /\ remoteWriters' = [remoteWriters EXCEPT ![p] = @ \ {id[1]}]
  /\ UNCHANGED <<activeReaders, localWriteActive>>

\* The peer's reply moves the write to its next peer or to its next stage.
Advance(x, q, loop, after) ==
  /\ peer' = [peer EXCEPT ![x] = q]
  /\ Goto(x, Stage(q, loop, after))
  /\ UNCHANGED <<seq, out, caller>>

ServeStart(x) ==
  /\ pc[x] = "start"
  /\ MarkStarted(peer[x], Id(x))
  /\ Advance(x, NextPeer(Home[x], peer[x]), "start", "apply")
  /\ UNCHANGED <<lockVars, netVars>>

\* apply_write and record_write on the writer's own replica
ApplyLocally(x) ==
  /\ pc[x] = "apply"
  /\ Advance(x, FirstPeer(Home[x]), "replicate", "finish")
  /\ UNCHANGED <<lockVars, guardVars, netVars>>

\* The peer stores the entry; after the last one the marks are released, in the
\* reverse of the order in which they were placed.
ServeReplicate(x) ==
  LET q == NextPeer(Home[x], peer[x]) IN
  /\ pc[x] = "replicate"
  /\ Advance(x, IF q = 0 THEN LastPeer(Home[x]) ELSE q,
             IF q = 0 THEN "release" ELSE "replicate", "finish")
  /\ UNCHANGED <<lockVars, guardVars, netVars>>

ServeFinish(x) ==
  /\ pc[x] = "release"
  /\ MarkFinished(peer[x], Id(x))
  /\ Advance(x, PrevPeer(Home[x], peer[x]), "release", "finish")
  /\ UNCHANGED <<lockVars, netVars>>

\* A call that arrives after its caller gave up.  A late replicate_write leaves
\* the coordinator alone and is not kept.
LateStart(c) ==
  /\ c.kind = "start"
  /\ MarkStarted(c.to, c.id)
  /\ lateCalls' = lateCalls \ {c}
  /\ UNCHANGED <<lockVars, threadVars, lateTransfers, failures>>

LateFinish(c) ==
  /\ c.kind = "finish"
  /\ MarkFinished(c.to, c.id)
  /\ lateCalls' = lateCalls \ {c}
  /\ UNCHANGED <<lockVars, threadVars, lateTransfers, failures>>

FinishWrite(x) ==
  LET r == Home[x]
      granted == IF localRequestSeq[r] = seq[x]
                 THEN [token[r] EXCEPT !.lastGranted[r] = seq[x]] ELSE token[r]
  IN
  /\ pc[x] = "finish" /\ hasToken[r]
  /\ \E t \in Refreshed(r, granted) : token' = [token EXCEPT ![r] = t]
  /\ requestingLocal' = [requestingLocal EXCEPT ![r] = FALSE]
  /\ localRequestSeq' = [localRequestSeq EXCEPT ![r] = 0]
  /\ localWriteActive' = [localWriteActive EXCEPT ![r] = FALSE]
  /\ Step(x, "check")
  /\ UNCHANGED <<requestNumbers, hasToken, tokenVersionSeen, pending, activeReaders,
                 markVars, netVars>>

\* finish_local_write raises: nothing is reset and no pass follows.
FinishWithoutToken(x) ==
  /\ pc[x] = "finish" /\ ~hasToken[Home[x]]
  /\ Step(x, "idle")
  /\ UNCHANGED <<lockVars, guardVars, netVars>>

AbortWrite(x) ==
  LET r == Home[x]
      mine == localRequestSeq[r] = seq[x]
  IN
  /\ pc[x] = "abort"
  /\ requestingLocal' = [requestingLocal EXCEPT ![r] = @ /\ ~mine]
  /\ localRequestSeq' = [localRequestSeq EXCEPT ![r] = IF mine THEN 0 ELSE @]
  /\ localWriteActive' = [localWriteActive EXCEPT ![r] = FALSE]
  /\ Step(x, "check")
  /\ UNCHANGED <<requestNumbers, tokenVars, pending, activeReaders, markVars, netVars>>

-----------------------------------------------------------------------------
(* Failures.  A caller gives up on a call (request_timeout_sec, a refused   *)
(* connection); the call itself is lost or arrives later.                   *)

LostOrLate(kind, x) ==
  \/ Lossy /\ UNCHANGED lateCalls
  \/ lateCalls' = lateCalls \cup {[kind |-> kind, id |-> Id(x), to |-> peer[x]]}

\* caller' when x stops waiting for the thread that serves it
Abandoned(x) == [h \in Thread |-> IF caller[h] = x THEN NoThread ELSE caller[h]]

RequestFails(x) ==
  /\ \/ pc[x] = "ask" /\ LostOrLate("request", x)
     \/ pc[x] = "asked" /\ UNCHANGED lateCalls
  /\ Goto(x, "abort")
  /\ peer' = [peer EXCEPT ![x] = 0]
  /\ caller' = Abandoned(x)
  /\ UNCHANGED <<guardVars, seq, out, lateTransfers>>

\* The peers marked so far, the failing one included, are released.
StartFails(x) ==
  /\ pc[x] = "start" /\ LostOrLate("start", x)
  /\ Goto(x, "release")
  /\ UNCHANGED <<guardVars, seq, peer, out, caller, lateTransfers>>

\* The vector store, or a peer's replicate, fails: every peer is released.
ApplyFails(x) ==
  /\ pc[x] \in {"apply", "replicate"}
  /\ Advance(x, LastPeer(Home[x]), "release", "finish")
  /\ UNCHANGED <<guardVars, lateCalls, lateTransfers>>

\* _release_remote_writers logs the error and goes on with the next peer.
FinishFails(x) ==
  /\ pc[x] = "release" /\ LostOrLate("finish", x)
  /\ Advance(x, PrevPeer(Home[x], peer[x]), "release", "finish")
  /\ UNCHANGED <<guardVars, lateTransfers>>

TransferFails(x) ==
  /\ \/ pc[x] = "await" /\ lateTransfers' = lateTransfers \cup {out[x]}
     \/ pc[x] = "await" /\ Lossy /\ UNCHANGED lateTransfers
     \/ pc[x] = "awaited" /\ UNCHANGED lateTransfers
  /\ EndPass(x, TRUE)
  /\ UNCHANGED <<guardVars, lateCalls>>

Fail(x) ==
  /\ failures < MaxFailures
  /\ failures' = failures + 1
  /\ RequestFails(x) \/ StartFails(x) \/ ApplyFails(x) \/ FinishFails(x) \/ TransferFails(x)
  /\ UNCHANGED lockVars

-----------------------------------------------------------------------------
(* Reads, and the application of replayed or bootstrap entries.             *)

MayRead_DuringLocalWrite(r) == remoteWriters[r] = {}  \* variant for LocalReadWriteExclusion
MayRead(r) == ~localWriteActive[r] /\ remoteWriters[r] = {}

AcquireRead(r) ==
  /\ MayRead(r) /\ activeReaders[r] < MaxReaders
  /\ activeReaders' = [activeReaders EXCEPT ![r] = @ + 1]
  /\ UNCHANGED <<lockVars, localWriteActive, markVars, threadVars, netVars>>

ReleaseRead(r) ==
  /\ activeReaders[r] > 0
  /\ activeReaders' = [activeReaders EXCEPT ![r] = @ - 1]
  /\ UNCHANGED <<lockVars, localWriteActive, markVars, threadVars, netVars>>

\* begin_sync_apply; the source is the origin of the oldest entry.
BeginSync(x, source) ==
  LET r == Home[x] IN
  /\ pc[x] = "idle"
  /\ activeReaders[r] = 0 /\ ~localWriteActive[r] /\ remoteWriters[r] = {}
  /\ remoteWriters' = [remoteWriters EXCEPT ![r] = {source}]
  /\ peer' = [peer EXCEPT ![x] = source]
  /\ Goto(x, "sync")
  /\ UNCHANGED <<lockVars, activeReaders, localWriteActive,
                 finishedWrites, seq, out, caller, netVars>>

EndSync(x) ==
  LET r == Home[x] IN
  /\ pc[x] = "sync"
  /\ remoteWriters' = [remoteWriters EXCEPT ![r] = @ \ {peer[x]}]
  /\ peer' = [peer EXCEPT ![x] = 0]
  /\ Goto(x, "idle")
  /\ UNCHANGED <<lockVars, activeReaders, localWriteActive,
                 finishedWrites, seq, out, caller, netVars>>

-----------------------------------------------------------------------------
Pass(x) ==
  \/ PassCheck(x) \/ NextNobody(x) \/ NextRecipient(x)
  \/ Export(x) \/ ExportWithoutToken(x) \/ MarkSent(x)
  \/ Send(x) \/ SendNothing(x) \/ ClearPending(x) \/ GiveUpSend(x)

Write(x) ==
  \/ OpenWrite(x) \/ DecideBroadcast(x) \/ BeginWrite(x) \/ ServeStart(x)
  \/ ApplyLocally(x) \/ ServeReplicate(x) \/ ServeFinish(x)
  \/ FinishWrite(x) \/ FinishWithoutToken(x) \/ AbortWrite(x)

Serve(x, h) == ServeRequest(x, h) \/ ServeTransfer(x, h)

Late ==
  \/ \E c \in lateCalls : LateStart(c) \/ LateFinish(c)
  \/ \E h \in Handler :
       \/ \E c \in lateCalls : LateRequest(h, c)
       \/ \E m \in lateTransfers : LateTransfer(h, m)

Read == \E r \in Replica : AcquireRead(r) \/ ReleaseRead(r)

Sync == \E x \in Syncer : (\E source \in Replica : BeginSync(x, source)) \/ EndSync(x)

Next ==
  \/ \E x \in Thread : Pass(x)
  \/ \E x \in Writer : Write(x)
  \/ \E x \in Thread, h \in Handler : Serve(x, h)
  \/ \E x \in Thread : Fail(x)
  \/ Late
  \/ Read
  \/ Sync

\* Every schedule of the threads: the code as it is.
Spec == Init /\ [][Next]_vars

-----------------------------------------------------------------------------
(* The schedules in which a hand-off is not disturbed.  The manager reads   *)
(* next_token_recipient, export_token_for_transfer and mark_token_sent one  *)
(* after the other without a lock; here no other thread of the replica      *)
(* changes what the first of them saw, and none starts a second hand-off,   *)
(* until the token is sent.                                                 *)

InHandoff(x) == pc[x] \in {"export", "mark"}

HandoffUndisturbed ==
  \A x \in Thread :
    LET r == Home[x] IN
    InHandoff(x) /\ pc'[x] = pc[x] =>
      /\ hasToken'[r] = hasToken[r] /\ token'[r] = token[r]
      /\ requestingLocal'[r] = requestingLocal[r]
      /\ localWriteActive'[r] = localWriteActive[r]
      /\ \A y \in Thread \ {x} : Home[y] = r => pc'[y] \notin {"export", "mark"}

SerialNext == Next /\ HandoffUndisturbed

SerialSpec == Init /\ [][SerialNext]_vars

-----------------------------------------------------------------------------
(* Fairness.  A thread that can go on does, the calls it made are served    *)
(* when its peer has an idle thread, and readers and syncs end.             *)

Progress(x) ==
  \/ Pass(x)
  \/ x \in Writer /\ pc[x] # "idle" /\ Write(x)
  \/ \E h \in Handler : Serve(x, h)
  \/ x \in Syncer /\ EndSync(x)

FairSpec ==
  /\ SerialSpec
  /\ \A x \in Thread : WF_vars(SerialNext /\ Progress(x))
  /\ \A r \in Replica : WF_vars(SerialNext /\ ReleaseRead(r))

-----------------------------------------------------------------------------
(* Properties.                                                              *)

LockTypeOK ==
  /\ requestNumbers \in [Replica -> Grants]
  /\ requestingLocal \in [Replica -> BOOLEAN]
  /\ localRequestSeq \in [Replica -> Nat]
  /\ hasToken \in [Replica -> BOOLEAN]
  /\ tokenVersionSeen \in [Replica -> Nat]
  /\ token \in [Replica -> Token]
  /\ pending \in [Replica -> Transfer]

GuardTypeOK ==
  /\ activeReaders \in [Replica -> Nat]
  /\ localWriteActive \in [Replica -> BOOLEAN]
  /\ remoteWriters \in [Replica -> SUBSET Replica]
  /\ finishedWrites \in [Replica -> Seq(WriteId)]
  /\ \A r \in Replica : Len(finishedWrites[r]) <= MaxFinished

ThreadTypeOK ==
  /\ pc \in [Thread -> Label]
  /\ seq \in [Thread -> Nat]
  /\ peer \in [Thread -> 0..N]
  /\ out \in [Thread -> Transfer]
  /\ caller \in [Thread -> Thread \cup {NoThread}]

NetTypeOK ==
  /\ lateCalls \subseteq Call
  /\ lateTransfers \subseteq Transfer
  /\ failures \in 0..MaxFailures

\* Every variable has the type its Python attribute has, and no more finished
\* writes are remembered than _remember_finished_remote_write_locked allows.
TypeOK == LockTypeOK /\ GuardTypeOK /\ ThreadTypeOK /\ NetTypeOK

\* A write thread between begin_local_write and finish_local_write.
InCriticalSection(x) ==
  pc[x] \in {"start", "apply", "replicate", "release", "finish"}

\* "A single token exists" (class docstring, line 20), whatever transfers are
\* repeated, late or lost; test_replica_manager.py:710 tests one such case.
UniqueToken == \A r, q \in Replica : hasToken[r] /\ hasToken[q] => r = q

\* The distributed mutex (class docstring, line 17): two replicas never have a
\* local write active together.
MutualExclusion ==
  \A r, q \in Replica : localWriteActive[r] /\ localWriteActive[q] => r = q

\* The same of the threads: no two writes are between begin_local_write and
\* finish_local_write, not even two of one replica.
OneWriter ==
  \A x, y \in Writer : InCriticalSection(x) /\ InCriticalSection(y) => x = y

\* m would be accepted by its recipient.
Live(m) == m.to # 0 /\ m.version > tokenVersionSeen[m.to]

\* Held or on its way, there is one token: while a replica holds it no transfer
\* would be accepted, and all transfers that would be are copies of one.
InFlight ==
  {pending[r] : r \in Replica} \cup {out[x] : x \in {y \in Thread : pc[y] = "await"}}
    \cup lateTransfers

SingleToken ==
  /\ UniqueToken
  /\ \A m, n \in InFlight :
       Live(m) => /\ \A r \in Replica : ~hasToken[r]
                  /\ Live(n) => n.to = m.to /\ n.version = m.version

\* Why there is one token: versions grow along its way.  The holder has seen the
\* highest version; a transfer that would be accepted is the newest there is, and
\* travels while nobody holds the token; one hand-off runs at a time, at a holder
\* that does not write; and only a holder writes.
Transfers == {m \in InFlight : m.to # 0}

HolderIsNewest ==
  \A r \in Replica : hasToken[r] =>
    /\ token[r].version = tokenVersionSeen[r]
    /\ \A q \in Replica : tokenVersionSeen[q] <= tokenVersionSeen[r]
    /\ \A m \in Transfers : ~Live(m) /\ m.version <= tokenVersionSeen[r]

LiveIsNewest ==
  \A m \in Transfers : Live(m) =>
    /\ \A r \in Replica : ~hasToken[r] /\ tokenVersionSeen[r] <= m.version
    /\ \A n \in Transfers : n.version <= m.version

VersionNamesRecipient ==
  \A m, n \in Transfers : m.version = n.version => m.to = n.to

OneHandoff ==
  /\ \A x \in Thread : InHandoff(x) => hasToken[Home[x]] /\ ~localWriteActive[Home[x]]
  /\ \A x \in Thread : pc[x] = "mark" => out[x].version = token[Home[x]].version + 1
  /\ \A x, y \in Thread : InHandoff(x) /\ InHandoff(y) /\ Home[x] = Home[y] => x = y

OnlyHolderWrites == \A r \in Replica : localWriteActive[r] => hasToken[r]

TokenInv ==
  /\ UniqueToken /\ HolderIsNewest /\ LiveIsNewest /\ VersionNamesRecipient
  /\ OneHandoff /\ OnlyHolderWrites

\* The token is held, or its transfer is kept for a retry (_pending_token_transfer).
TokenNeverLost == \E r \in Replica : hasToken[r] \/ Live(pending[r])

\* Once every peer has acknowledged the start of a write and until its marks are
\* released, nobody reads: "reads on non-owner replicas wait until the distributed
\* write is fully committed and replicated" (class docstring, lines 24-25).
ReadIsolation ==
  \A x \in Writer : pc[x] \in {"apply", "replicate"} =>
    \A q \in Replica : activeReaders[q] = 0

\* acquire_read and begin_local_write exclude each other, in every schedule and
\* after every failure, when a replica runs one write at a time.
LocalReadWriteExclusion ==
  \A r \in Replica : localWriteActive[r] => activeReaders[r] = 0

\* The entries of a replay are applied while nobody reads
\* (test_replay_blocks_reads_until_sync_apply_finishes).
SyncBlocksReads == \A x \in Syncer : pc[x] = "sync" => activeReaders[Home[x]] = 0

AllQuiet == \A x \in Thread : pc[x] \in {"idle", "begin"}

\* When every write has ended and every late call arrived, no mark is left that
\* would block the reads of a replica for ever
\* (test_write_finish_arriving_before_remote_start_completes_does_not_block_future_reads).
QuiescentClean ==
  AllQuiet /\ lateCalls = {} =>
    \A r \in Replica : ~localWriteActive[r] /\ remoteWriters[r] = {}

\* "The token holder hands the token to the next waiting replica after it exits"
\* (class docstring, lines 21-22): when no thread is left to pass the token on,
\* and some write waits, then one can begin.
NobodyStranded ==
  AllQuiet /\ lateTransfers = {} /\ (\E x \in Writer : pc[x] = "begin") =>
    \E x \in Writer : MayBegin(x)

\* A write that entered its critical section leaves it: the calls it makes there
\* to its peers never wait for one another.
WriteEnds == \A x \in Writer : InCriticalSection(x) ~> ~InCriticalSection(x)

\* Every write request that was opened is granted or aborted, and answered.
RequestEnds == \A x \in Writer : pc[x] = "opened" ~> pc[x] = "idle"

-----------------------------------------------------------------------------
(* The coordinators implement one lock that one token guards.               *)
Mutex == INSTANCE TokenMutex WITH
  holders <- {r \in Replica : hasToken[r]},
  writing <- {r \in Replica : localWriteActive[r]}

ImplementsMutex == Mutex!Spec

=============================================================================
