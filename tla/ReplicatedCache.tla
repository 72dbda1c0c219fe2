--------------------------- MODULE ReplicatedCache ---------------------------
(***************************************************************************)
(* The entries the replicas keep: what write_cache, replicate_write and the*)
(* sync endpoints do to the Lamport clock, the vector store and the write  *)
(* log of a replica, under the lock of Coordination.                       *)
(*                                                                         *)
(* Every action is an action of Coordination together with its effect on   *)
(* the data, or a step of a sync that leaves the lock alone.               *)
(***************************************************************************)
EXTENDS Coordination

CONSTANTS
  Key,            \* (model_id, prompt) pairs: one point of the store each
  MaxSnapshots,   \* bound: snapshots kept per replica
  MaxSyncs,       \* bound: replays, bootstrap and recovery syncs
  LateReplicates  \* a replicate call that timed out may still arrive

ASSUME CacheAssumption ==
  /\ Key # {}
  /\ MaxSnapshots \in Nat /\ MaxSyncs \in Nat
  /\ LateReplicates \in BOOLEAN

VARIABLES
  clock,       \* [r]: LamportClock.time
  store,       \* [r][k]: the entry of k in r's vector store, NoEntry when none
  log,         \* [r]: _write_log
  snapshots,   \* [r]: _snapshots, each by its length and where it begins
  written,     \* the entries that were given a timestamp
  answers,     \* the answers given to writes
  lateEntries, \* replicate calls given up by their caller that may still arrive
  work,        \* [x]: the entries sync thread x has still to apply
  fetch,       \* [x]: the bootstrap of x: what it asked for and what it got
  syncs        \* syncs started so far

dataVars == <<clock, store, log, snapshots, written, answers, lateEntries>>
syncVars == <<work, fetch, syncs>>
cacheVars == <<vars, dataVars, syncVars>>

\* An entry names the write it comes from, which stands for its response text.
Entry == [key : Key, id : WriteId, ts : Nat]
AnyKey == CHOOSE k \in Key : TRUE
NoEntry == [key |-> AnyKey, id |-> <<0, 0>>, ts |-> 0]

Answer == [id : WriteId, status : {"ok", "degraded", "unavailable"}]

\* since is 0 for None; had is a ghost: what the peer had.
NoFetch == [stage |-> "none", since |-> 0, had |-> {}]

CacheInit ==
  /\ Init
  /\ clock = [r \in Replica |-> 0]
  /\ store = [r \in Replica |-> [k \in Key |-> NoEntry]]
  /\ log = [r \in Replica |-> <<>>]
  /\ snapshots = [r \in Replica |-> {}]
  /\ written = {} /\ answers = {} /\ lateEntries = {}
  /\ work = [x \in Syncer |-> {}]
  /\ fetch = [x \in Syncer |-> NoFetch]
  /\ syncs = 0

-----------------------------------------------------------------------------
Later(m, n) == IF m > n THEN m ELSE n

\* LamportClock.update
Updated(time, received) == Later(time, received) + 1

\* _append_if_new: the key is (origin, ts, model, prompt).
SameWrite(e, f) == e.id[1] = f.id[1] /\ e.ts = f.ts /\ e.key = f.key
Recorded_Twice(s, e) ==  \* variant for CacheTypeOK: nothing is looked up
  Append(s, e)
Recorded_ByKey(s, e) ==  \* variant for AnswersTrue: the timestamp is not in the key
  IF \E f \in Range(s) : f.key = e.key THEN s ELSE Append(s, e)
Recorded(s, e) == IF \E f \in Range(s) : SameWrite(e, f) THEN s ELSE Append(s, e)

\* apply_write and record_write: the store takes whatever comes.
Stored_Once(r, e) ==  \* variant for CommittedVisible: an insert, not an upsert
  /\ store' = [store EXCEPT ![r][e.key] = IF @ = NoEntry THEN e ELSE @]
  /\ log' = [log EXCEPT ![r] = Recorded(@, e)]
Stored(r, e) ==
  /\ store' = [store EXCEPT ![r][e.key] = e]
  /\ log' = [log EXCEPT ![r] = Recorded(@, e)]

\* latest_lamport_ts, 0 for None
LatestTs(r) ==
  CHOOSE n \in {0} \cup {e.ts : e \in Range(log[r])} : \A e \in Range(log[r]) : e.ts <= n

\* The entries after a timestamp, of the first k: export_entries and snapshot.
Since(s, n, k) == {s[i] : i \in {j \in 1..k : s[j].ts > n}}

Oldest(S) == {e \in S : \A f \in S : e.ts <= f.ts}

EntryOf(x) == CHOOSE e \in written : e.id = Id(x)

Answered(x, status) == answers' = answers \cup {[id |-> Id(x), status |-> status]}

-----------------------------------------------------------------------------
(* Writes.                                                                  *)

StampWrite(x, k) ==
  LET r == Home[x] IN
  /\ BeginWrite(x)
  /\ clock' = [clock EXCEPT ![r] = @ + 1]
  /\ written' = written \cup {[key |-> k, id |-> Id(x), ts |-> clock[r] + 1]}
  /\ UNCHANGED <<store, log, snapshots, answers, lateEntries, syncVars>>

\* mark_remote_write_started updates the clock and ticks.  A call that has to
\* wait updates it before, but until the call is let in only the write that made
\* it depends on the peer's clock.
StartAt_Silent(x) ==  \* variant for TimestampsUnique and NewerReplaces:
                      \* the start call carries no time
  /\ ServeStart(x)
  /\ UNCHANGED <<clock, store, log, snapshots, written, answers, lateEntries, syncVars>>
StartAt(x) ==
  /\ ServeStart(x)
  /\ clock' = [clock EXCEPT ![peer[x]] = Updated(@, EntryOf(x).ts) + 1]
  /\ UNCHANGED <<store, log, snapshots, written, answers, lateEntries, syncVars>>

StoreLocally_Unlogged(x) ==  \* variant for OriginHasEntry: record_write is left out
  /\ ApplyLocally(x)
  /\ store' = [store EXCEPT ![Home[x]][EntryOf(x).key] = EntryOf(x)]
  /\ IF FirstPeer(Home[x]) = 0 THEN Answered(x, "ok") ELSE UNCHANGED answers
  /\ UNCHANGED <<clock, log, snapshots, written, lateEntries, syncVars>>
StoreLocally(x) ==
  /\ ApplyLocally(x)
  /\ Stored(Home[x], EntryOf(x))
  /\ IF FirstPeer(Home[x]) = 0 THEN Answered(x, "ok") ELSE UNCHANGED answers
  /\ UNCHANGED <<clock, snapshots, written, lateEntries, syncVars>>

\* apply_replicated_write at the peer; after the last one the answer is "ok".
ReplicateTo(x) ==
  /\ ServeReplicate(x)
  /\ clock' = [clock EXCEPT ![peer[x]] = Updated(@, EntryOf(x).ts)]
  /\ Stored(peer[x], EntryOf(x))
  /\ IF NextPeer(Home[x], peer[x]) = 0 THEN Answered(x, "ok") ELSE UNCHANGED answers
  /\ UNCHANGED <<snapshots, written, lateEntries, syncVars>>

OtherWrite(x) ==
  /\ Write(x) /\ pc[x] \notin {"begin", "start", "apply", "replicate"}
  /\ UNCHANGED <<dataVars, syncVars>>

\* A write that fails before its entry is stored is "unavailable"; the store may
\* have taken the entry although it reported an error.
FailEarly(x) ==
  /\ Fail(x) /\ x \in Writer /\ pc[x] \in {"ask", "asked", "start", "apply"}
  /\ Answered(x, "unavailable")
  /\ \/ UNCHANGED store
     \/ pc[x] = "apply" /\ store' = [store EXCEPT ![Home[x]][EntryOf(x).key] = EntryOf(x)]
  /\ UNCHANGED <<clock, log, snapshots, written, lateEntries, syncVars>>

\* A write that fails after it was stored locally is "degraded".
FailToReplicate(x) ==
  /\ Fail(x) /\ x \in Writer /\ pc[x] = "replicate"
  /\ Answered(x, "degraded")
  /\ \/ UNCHANGED lateEntries
     \/ LateReplicates /\ lateEntries' = lateEntries \cup {[to |-> peer[x], entry |-> EntryOf(x)]}
  /\ UNCHANGED <<clock, store, log, snapshots, written, syncVars>>

FailElsewhere(x) ==
  /\ Fail(x) /\ pc[x] \in {"release", "await", "awaited"}
  /\ UNCHANGED <<dataVars, syncVars>>

LateReplicate(m) ==
  /\ lateEntries' = lateEntries \ {m}
  /\ clock' = [clock EXCEPT ![m.to] = Updated(@, m.entry.ts)]
  /\ Stored(m.to, m.entry)
  /\ UNCHANGED <<vars, snapshots, written, answers, syncVars>>

LateStartAt(c) ==
  /\ LateStart(c)
  /\ \E e \in written :
       e.id = c.id /\ clock' = [clock EXCEPT ![c.to] = Updated(@, e.ts) + 1]
  /\ UNCHANGED <<store, log, snapshots, written, answers, lateEntries, syncVars>>

OtherLate ==
  /\ \/ \E c \in lateCalls : LateFinish(c)
     \/ \E h \in Handler :
          \/ \E c \in lateCalls : LateRequest(h, c)
          \/ \E m \in lateTransfers : LateTransfer(h, m)
  /\ UNCHANGED <<dataVars, syncVars>>

-----------------------------------------------------------------------------
(* Snapshots, replays and bootstraps.                                       *)

\* read_guard around a step that ends at once.  The log only grows, so that its length
\* says what was copied.  An empty snapshot has nothing to replay and is left out.
Snapshot(r) ==
  /\ MayRead(r)
  /\ \E n \in {0} \cup {e.ts : e \in Range(log[r])} :
       /\ Since(log[r], n, Len(log[r])) # {}
       /\ snapshots' = [snapshots EXCEPT ![r] = @ \cup {[since |-> n, length |-> Len(log[r])]}]
  /\ Cardinality(snapshots'[r]) <= MaxSnapshots
  /\ UNCHANGED <<vars, clock, store, log, written, answers, lateEntries, syncVars>>

\* _apply_sync_entries takes the sync guard in the name of the oldest entry's
\* origin.
BeginApply(x, S) ==
  /\ \E e \in Oldest(S) : BeginSync(x, e.id[1])
  /\ work' = [work EXCEPT ![x] = S]

\* replay: the first operations of a snapshot, or of the whole log
Replay(x) ==
  /\ syncs < MaxSyncs /\ fetch[x].stage = "none"
  /\ LET s == log[Home[x]] IN
       \E p \in snapshots[Home[x]] \cup {[since |-> 0, length |-> Len(s)]} :
         \E k \in 1..p.length : BeginApply(x, Since(s, p.since, k))
  /\ syncs' = syncs + 1
  /\ UNCHANGED <<dataVars, fetch>>

\* _bootstrap_sync_from_candidates asks for what is newer than its newest entry.
AskEntries(x) ==
  /\ pc[x] = "idle" /\ fetch[x].stage = "none" /\ syncs < MaxSyncs
  /\ fetch' = [fetch EXCEPT ![x] = [@ EXCEPT !.stage = "ask", !.since = LatestTs(Home[x])]]
  /\ syncs' = syncs + 1
  /\ UNCHANGED <<vars, dataVars, work>>

\* export_internal_sync_state at peer q, inside its read_guard
ExportEntries(x, q) ==
  /\ fetch[x].stage = "ask" /\ q # Home[x] /\ MayRead(q)
  /\ fetch' = [fetch EXCEPT ![x] = [@ EXCEPT !.stage = "got", !.had = Range(log[q])]]
  /\ work' = [work EXCEPT ![x] = Since(log[q], fetch[x].since, Len(log[q]))]
  /\ UNCHANGED <<vars, dataVars, syncs>>

\* No candidate answers, or the answer has no entries.
EndFetch(x) ==
  /\ \/ fetch[x].stage = "ask"
     \/ fetch[x].stage = "got" /\ work[x] = {}
  /\ pc[x] = "idle"
  /\ fetch' = [fetch EXCEPT ![x] = NoFetch]
  /\ UNCHANGED <<vars, dataVars, work, syncs>>

ApplyFetched(x) ==
  /\ fetch[x].stage = "got" /\ work[x] # {}
  /\ BeginApply(x, work[x])
  /\ UNCHANGED <<dataVars, fetch, syncs>>

ApplyEntry(x) ==
  LET r == Home[x] IN
  /\ pc[x] = "sync"
  /\ \E e \in Oldest(work[x]) :
       /\ clock' = [clock EXCEPT ![r] = Updated(@, e.ts)]
       /\ Stored(r, e)
       /\ work' = [work EXCEPT ![x] = @ \ {e}]
  /\ UNCHANGED <<vars, snapshots, written, answers, lateEntries, fetch, syncs>>

EndApply(x) ==
  /\ work[x] = {}
  /\ EndSync(x)
  /\ fetch' = [fetch EXCEPT ![x] = NoFetch]
  /\ UNCHANGED <<dataVars, work, syncs>>

-----------------------------------------------------------------------------
WriteData(x) ==
  \/ \E k \in Key : StampWrite(x, k)
  \/ StartAt(x) \/ StoreLocally(x) \/ ReplicateTo(x) \/ OtherWrite(x)

FailData(x) == FailEarly(x) \/ FailToReplicate(x) \/ FailElsewhere(x)

SyncData(x) ==
  \/ Replay(x) \/ AskEntries(x) \/ EndFetch(x) \/ ApplyFetched(x)
  \/ ApplyEntry(x) \/ EndApply(x)
  \/ \E q \in Replica : ExportEntries(x, q)

CacheNext ==
  /\ \/ \E x \in Writer : WriteData(x)
     \/ \E x \in Thread : FailData(x)
     \/ \E m \in lateEntries : LateReplicate(m)
     \/ \E c \in lateCalls : LateStartAt(c)
     \/ OtherLate
     \/ \E r \in Replica : Snapshot(r)
     \/ \E x \in Syncer : SyncData(x)
     \/ /\ \/ \E x \in Thread : Pass(x)
           \/ \E x \in Thread, h \in Handler : Serve(x, h)
           \/ Read
        /\ UNCHANGED <<dataVars, syncVars>>
  /\ HandoffUndisturbed

CacheSpec == CacheInit /\ [][CacheNext]_cacheVars

-----------------------------------------------------------------------------
(* Properties.                                                              *)

\* Types; a log has no write twice (_append_if_new).
CacheTypeOK ==
  /\ clock \in [Replica -> Nat]
  /\ store \in [Replica -> [Key -> Entry \cup {NoEntry}]]
  /\ log \in [Replica -> Seq(Entry)]
  /\ \A r \in Replica : snapshots[r] \subseteq [since : Nat, length : 0..Len(log[r])]
  /\ written \subseteq Entry
  /\ answers \subseteq Answer
  /\ lateEntries \subseteq [to : Replica, entry : Entry]
  /\ work \in [Syncer -> SUBSET Entry]
  /\ fetch \in [Syncer -> [stage : {"none", "ask", "got"}, since : Nat, had : SUBSET Entry]]
  /\ \A r \in Replica : \A i, j \in DOMAIN log[r] :
       SameWrite(log[r][i], log[r][j]) => i = j
  /\ syncs \in 0..MaxSyncs

Logged == UNION {Range(log[r]) : r \in Replica}

With(status) == {e \in written : \E a \in answers : a.id = e.id /\ a.status = status}

\* Two writes whose entries reached a log never share a timestamp, whichever
\* replicas they were made at and whatever failed: the start call of the earlier
\* one has moved every clock beyond it.
TimestampsUnique == \A e, f \in Logged : e.ts = f.ts => e = f

\* An answer "ok" means that every replica has the entry in its log, and one of
\* "unavailable" that none ever gets it there.
AnswersTrue ==
  /\ \A e \in With("ok") : \A r \in Replica : e \in Range(log[r])
  /\ \A e \in With("unavailable") : e \notin Logged

\* A replica has the writes it answered for before any other has them, and keeps
\* them: its log is a source the others can be synced from.
OriginHasEntry == \A e \in Logged : e \in Range(log[e.id[1]])

\* "Reads on non-owner replicas wait until the distributed write is fully
\* committed and replicated": a read that is let in finds, for every write that
\* was answered "ok", its entry or a newer one.
CommittedVisible ==
  \A r \in Replica : MayRead(r) =>
    \A e \in With("ok") : store[r][e.key].ts >= e.ts

\* A write never takes the place of a newer one (test_replay_preserves_overwrite_ordering),
\* not even of one that was stored although its answer is "unavailable": only a
\* replicate call that comes late, and a sync, may bring an older entry back.
NewerReplaces ==
  [][\A r \in Replica, k \in Key :
       store'[r][k] # store[r][k] =>
         store'[r][k].ts > store[r][k].ts \/ work' # work \/ lateEntries' # lateEntries]_cacheVars

\* A bootstrap or recovery sync leaves no key of the replica behind its source:
\* "automatic recovery sync after a faulted replica becomes healthy again"
\* (README.md:28; test_replica_replays_missing_state_after_fault_recovers).
SyncCompletes ==
  [][\A x \in Syncer :
       fetch[x].stage = "got" /\ fetch'[x].stage = "none" =>
         \A e \in fetch[x].had : store'[Home[x]][e.key].ts >= e.ts]_cacheVars

=============================================================================
