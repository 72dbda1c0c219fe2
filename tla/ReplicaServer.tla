------------------------------ MODULE ReplicaServer ------------------------------
(***************************************************************************)
(* The handlers of one replica (services/replica/routes.py) as tasks of a  *)
(* bounded thread pool.  Reads wait in coordination.py for writes, writes  *)
(* for the token and for reads, and all of them keep their threads while   *)
(* they wait: the calls of the peers that would let them go on, to pass    *)
(* the token and to end a remote write, need a thread as well.             *)
(*                                                                         *)
(* The peers are seen as one: they have the token or not.  What the calls  *)
(* do in detail is the subject of Coordination.                            *)
(***************************************************************************)
EXTENDS ThreadPool

CONSTANTS
  Reads,         \* requests to read, of snapshots and exports
  LocalWrites,   \* requests to write
  RemoteWrites,  \* writes of the peers
  MaxTimeouts    \* bound: calls of peers whose caller gives up

ASSUME ReplicaServerAssumption ==
  /\ Reads \cap LocalWrites = {}
  /\ MaxTimeouts \in Nat

\* Calls are tasks, named by the request or write they belong to.
Call == [of : Reads, op : {"read"}] \cup [of : LocalWrites, op : {"write", "transfer"}]
        \cup [of : RemoteWrites, op : {"request", "start", "replicate", "finish"}]

VARIABLES
  coming,     \* the requests and remote writes that have not come, and need not
  stage,      \* [c]: how far call c has got
  given,      \* the calls given up by their callers
  remote,     \* [w]: where the peer's thread that makes write w stands
  token,      \* "here", "peer", or "sent" on its way here
  wanted,     \* the remote writes whose request for the token was noted here
  request,    \* the write that set _requesting_local, or "none"
  writing,    \* the write that set _local_write_active, or "none"
  marks,      \* the remote writes in _remote_writer_ids
  finished    \* the remote writes in _finished_remote_write_ids

lockVars == <<token, wanted, request, writing, marks, finished>>
replicaVars == <<coming, stage, given, remote, lockVars>>

Client == Reads \cup LocalWrites \cup RemoteWrites

ReplicaInit ==
  /\ coming = Client
  /\ stage = [c \in Call |-> "none"]
  /\ given = {}
  /\ remote = [w \in RemoteWrites |-> "idle"]
  /\ token = "here"
  /\ wanted = {} /\ request = "none" /\ writing = "none"
  /\ marks = {} /\ finished = {}

Read(q) == [of |-> q, op |-> "read"]
Write(q) == [of |-> q, op |-> "write"]

\* A thread works on the call.
At(c, label) == c \in busy /\ stage[c] = label
Goes(c, label) == stage' = [stage EXCEPT ![c] = label]
Ends(c) == Goes(c, "done") /\ Release(c)

Sends(c) == stage[c] = "none" /\ Goes(c, "sent") /\ Enqueue(c)

Readers == {q \in Reads : At(Read(q), "reading")}

-----------------------------------------------------------------------------
(* Clients.                                                                 *)

Arrive(q) ==
  /\ q \in coming \ RemoteWrites
  /\ coming' = coming \ {q}
  /\ Sends(IF q \in Reads THEN Read(q) ELSE Write(q))
  /\ UNCHANGED <<given, remote, lockVars>>

\* acquire_read waits for the local write and for remote writers.
MayRead == writing = "none" /\ marks = {}

AcquireRead(q) ==
  /\ At(Read(q), "sent") /\ MayRead
  /\ Goes(Read(q), "reading")
  /\ UNCHANGED <<line, busy, coming, given, remote, lockVars>>

ReleaseRead(q) ==
  /\ At(Read(q), "reading")
  /\ Ends(Read(q))
  /\ UNCHANGED <<coming, given, remote, lockVars>>

\* open_local_write_request
OpenWrite(q) ==
  /\ At(Write(q), "sent")
  /\ Goes(Write(q), "opened")
  /\ request' = q
  /\ UNCHANGED <<line, busy, coming, given, remote, token, wanted, writing, marks,
                 finished>>

\* begin_local_write
BeginWrite(q) ==
  /\ At(Write(q), "opened")
  /\ request = q /\ token = "here" /\ writing = "none" /\ marks = {} /\ Readers = {}
  /\ Goes(Write(q), "writing")
  /\ writing' = q
  /\ UNCHANGED <<line, busy, coming, given, remote, token, wanted, request, marks,
                 finished>>

\* finish_local_write and the hand-off after it: who wants the token gets it.
FinishWrite(q) ==
  /\ At(Write(q), "writing")
  /\ Ends(Write(q))
  /\ writing' = "none" /\ request' = "none"
  /\ token' = IF wanted # {} THEN "peer" ELSE "here"
  /\ wanted' = {}
  /\ UNCHANGED <<coming, given, remote, marks, finished>>

-----------------------------------------------------------------------------
(* The peers.                                                               *)

PeerWrites == {w \in RemoteWrites : remote[w] \in {"start", "replicate", "finish"}}

\* A waiting local write's request was noted by the peers: the one that has the
\* token sends it when it does not write itself.
SendToken(q) ==
  /\ stage[Write(q)] = "opened" /\ request = q
  /\ token = "peer" /\ PeerWrites = {}
  /\ token' = "sent"
  /\ Sends([of |-> q, op |-> "transfer"])
  /\ UNCHANGED <<coming, given, remote, wanted, request, writing, marks, finished>>

\* receive_token; this replica keeps it for the write that asked.
ReceiveToken(q) ==
  LET c == [of |-> q, op |-> "transfer"] IN
  /\ At(c, "sent")
  /\ Ends(c)
  /\ token' = IF request = "none" /\ wanted # {} THEN "peer" ELSE "here"
  /\ wanted' = IF token' = "peer" THEN {} ELSE wanted
  /\ UNCHANGED <<coming, given, remote, request, writing, marks, finished>>

\* A peer's write asks for the token, unless the peer has it.
RemoteArrives(w) ==
  /\ w \in coming \cap RemoteWrites
  /\ coming' = coming \ {w}
  /\ \/ /\ remote' = [remote EXCEPT ![w] = "request"]
        /\ Sends([of |-> w, op |-> "request"])
     \/ /\ token = "peer"
        /\ remote' = [remote EXCEPT ![w] = "begin"]
        /\ UNCHANGED <<stage, line, busy>>
  /\ UNCHANGED <<given, lockVars>>

\* note_remote_token_request and the hand-off after it
NoteRequest(w) ==
  LET c == [of |-> w, op |-> "request"] IN
  /\ At(c, "sent")
  /\ Ends(c)
  /\ IF token = "here" /\ request = "none" /\ writing = "none"
     THEN token' = "peer" /\ UNCHANGED wanted
     ELSE wanted' = (IF token = "peer" THEN wanted ELSE wanted \cup {w}) /\ UNCHANGED token
  /\ UNCHANGED <<coming, given, remote, request, writing, marks, finished>>

\* The caller got its answer, and makes the next call or ends.
After == [request |-> "begin", start |-> "replicate", replicate |-> "finish",
          finish |-> "ended"]

RemoteGoesOn(w) ==
  LET op == remote[w] IN
  /\ op \in DOMAIN After /\ stage[[of |-> w, op |-> op]] = "done"
  /\ remote' = [remote EXCEPT ![w] = After[op]]
  /\ IF After[op] \in {"replicate", "finish"}
     THEN Sends([of |-> w, op |-> After[op]])
     ELSE UNCHANGED <<stage, line, busy>>
  /\ UNCHANGED <<coming, given, lockVars>>

RemoteBegins(w) ==
  /\ remote[w] = "begin" /\ token = "peer" /\ PeerWrites = {}
  /\ remote' = [remote EXCEPT ![w] = "start"]
  /\ Sends([of |-> w, op |-> "start"])
  /\ UNCHANGED <<coming, given, lockVars>>

\* mark_remote_write_started waits for readers and the local write.
MayMark == Readers = {} /\ writing = "none"

MarkStarted_Ignores(w) ==  \* variant for ServersTypeOK: a start call after its finish call
  LET c == [of |-> w, op |-> "start"] IN
  /\ At(c, "sent") /\ MayMark
  /\ Ends(c)
  /\ marks' = marks \cup {w}
  /\ UNCHANGED <<coming, given, remote, token, wanted, request, writing, finished>>
MarkStarted(w) ==
  LET c == [of |-> w, op |-> "start"] IN
  /\ At(c, "sent") /\ MayMark
  /\ Ends(c)
  /\ IF w \in finished
     THEN finished' = finished \ {w} /\ UNCHANGED marks
     ELSE marks' = marks \cup {w} /\ UNCHANGED finished
  /\ UNCHANGED <<coming, given, remote, token, wanted, request, writing>>

Replicate(w) ==
  /\ At([of |-> w, op |-> "replicate"], "sent")
  /\ Ends([of |-> w, op |-> "replicate"])
  /\ UNCHANGED <<coming, given, remote, lockVars>>

MarkFinished_Forgets(w) ==  \* variant for CallsEnd: the end of a write is not remembered
  LET c == [of |-> w, op |-> "finish"] IN
  /\ At(c, "sent")
  /\ Ends(c)
  /\ marks' = marks \ {w}
  /\ UNCHANGED <<coming, given, remote, token, wanted, request, writing, finished>>
MarkFinished(w) ==
  LET c == [of |-> w, op |-> "finish"] IN
  /\ At(c, "sent")
  /\ Ends(c)
  /\ marks' = marks \ {w}
  /\ finished' = finished \cup {w}
  /\ UNCHANGED <<coming, given, remote, token, wanted, request, writing>>

\* A peer stops to wait for an answer; the call stays where it is.  A request that
\* fails aborts the write, any other failure sends the finish call; that one is
\* not repeated.
GiveUp(w) ==
  LET op == remote[w] IN
  /\ op \in DOMAIN After /\ stage[[of |-> w, op |-> op]] # "done"
  /\ Cardinality(given) < MaxTimeouts
  /\ given' = given \cup {[of |-> w, op |-> op]}
  /\ IF op \in {"start", "replicate"}
     THEN /\ remote' = [remote EXCEPT ![w] = "finish"]
          /\ Sends([of |-> w, op |-> "finish"])
     ELSE remote' = [remote EXCEPT ![w] = "ended"] /\ UNCHANGED <<stage, line, busy>>
  /\ UNCHANGED <<coming, lockVars>>

-----------------------------------------------------------------------------
Thread ==
  \/ \E q \in Reads : AcquireRead(q) \/ ReleaseRead(q)
  \/ \E q \in LocalWrites : OpenWrite(q) \/ BeginWrite(q) \/ FinishWrite(q) \/ ReceiveToken(q)
  \/ \E w \in RemoteWrites :
       NoteRequest(w) \/ MarkStarted(w) \/ Replicate(w) \/ MarkFinished(w)

Peers ==
  \/ \E q \in LocalWrites : SendToken(q)
  \/ \E w \in RemoteWrites : RemoteBegins(w) \/ RemoteGoesOn(w)

Assign == Dispatch /\ UNCHANGED replicaVars

ReplicaNext ==
  \/ \E q \in Client : Arrive(q)
  \/ \E w \in RemoteWrites : RemoteArrives(w) \/ GiveUp(w)
  \/ Assign \/ Thread \/ Peers

ReplicaSpec == PoolInit /\ ReplicaInit /\ [][ReplicaNext]_<<poolVars, replicaVars>>

\* A thread that can go on does, a free one takes the next call, the peers' threads
\* go on; no client and no failure is owed.
ReplicaFairness ==
  /\ WF_<<poolVars, replicaVars>>(Assign)
  /\ \A q \in Reads : WF_<<poolVars, replicaVars>>(AcquireRead(q) \/ ReleaseRead(q))
  /\ \A q \in LocalWrites :
       /\ WF_<<poolVars, replicaVars>>(OpenWrite(q) \/ BeginWrite(q) \/ FinishWrite(q))
       /\ WF_<<poolVars, replicaVars>>(SendToken(q) \/ ReceiveToken(q))
  /\ \A w \in RemoteWrites :
       /\ WF_<<poolVars, replicaVars>>(NoteRequest(w)) /\ WF_<<poolVars, replicaVars>>(MarkStarted(w))
       /\ WF_<<poolVars, replicaVars>>(Replicate(w)) /\ WF_<<poolVars, replicaVars>>(MarkFinished(w))
       /\ WF_<<poolVars, replicaVars>>(RemoteBegins(w) \/ RemoteGoesOn(w))

-----------------------------------------------------------------------------
(* Properties.                                                              *)

\* Types; a call has a thread or waits for one exactly while it has come and has not
\* ended, and the remote writes that are marked have started and not finished.
ReplicaTypeOK ==
  /\ stage \in [Call -> {"none", "sent", "opened", "writing", "reading", "done"}]
  /\ \A c \in Call :
       stage[c] \notin {"none", "done"} <=> c \in busy \cup {line[i] : i \in DOMAIN line}
  /\ given \subseteq Call /\ coming \subseteq Client
  /\ remote \in [RemoteWrites -> {"idle", "begin", "ended"} \cup DOMAIN After]
  /\ token \in {"here", "peer", "sent"} /\ wanted \subseteq RemoteWrites
  /\ request \in LocalWrites \cup {"none"} /\ writing \in LocalWrites \cup {"none"}
  /\ marks \cap finished = {}
  /\ \A w \in marks : stage[[of |-> w, op |-> "start"]] = "done"

\* The calls whose threads wait in the coordinator
Waiting ==
  {Read(q) : q \in {p \in Reads : At(Read(p), "sent") /\ ~MayRead}}
  \cup {Write(q) : q \in {p \in LocalWrites : At(Write(p), "opened")}}
  \cup {c \in Call : c.op = "start" /\ At(c, "sent") /\ ~MayMark}

\* Reads and writes of a replica are answered, and the calls of its peers as well,
\* however long they wait for one another, as long as one thread of the pool does
\* not wait (coordination.py:24-25: "reads on non-owner replicas wait until the
\* distributed write is fully committed and replicated", and no longer).
CallsEnd ==
  [](Cardinality(Waiting) < Pool) =>
    \A c \in Call : stage[c] # "none" ~> stage[c] = "done"

\* The same without that condition.
CallsAlwaysEnd == \A c \in Call : stage[c] # "none" ~> stage[c] = "done"

=============================================================================
