# CacheMesh: specification, model checking and proofs

CacheMesh is a cache of LLM answers kept by several replicas. A write is made under a
distributed lock and replicated synchronously; reads are local. This directory models the
Python services under `src/` in TLA+, checks the models with TLC on small deployments, and
proves with TLAPS, for any deployment, the safety of the lock, the data under it, membership, the
gateway, and the objects and threads of a server.

## 1. The system

| Part | State | Operations |
|---|---|---|
| Coordinator (`replica/coordination.py`) | request numbers, the token and the version seen last, queue and grants inside the token, active readers, the local write, remote writers, remembered finished writes | open/begin/finish/abort a local write, note a request, receive/export/mark a token, mark a remote write started/finished, enter/leave a read or a sync; each under one lock |
| Replica manager (`replica/manager.py`) | the transfer to be sent (again), registered, bootstrapped and recovery flags | write path, hand-off, internal handlers; `start`, heartbeat loop, bootstrap, recovery; `arm_fault`; snapshot, replay, export |
| Log, clock, store (`sync_service.py`, `clock.py`, `vector_store.py`, `cache_service.py`) | the write log and its snapshots, the Lamport time, an upserted entry per prompt | record, export, snapshot, replay; tick, update; upsert, exact lookup |
| Name service (`name_service/registry.py`) | entry per replica: address, time of the last heartbeat | register, heartbeat, list, prune |
| Fault controller (`shared/faults.py`, `fault_service.py`) | the armed fault and when it was armed | arm, current, trigger |
| Gateway (`gateway/service.py`) | none between requests | query, write, forward a fault; failover, inference on a miss |
| Inference adapter (`inference_adapter/runtime.py`) | whether it is ready, and per request a queue of tokens | start and stop, whole answers, streams, health; each generation in a thread of its own |
| Thread pool of each server (FastAPI, used by every `routes.py`) | threads that are busy, requests in line | a handler keeps its thread while it waits |
| Embedding, web console, data models, configuration | - | not modelled (section 8) |

How they interact. The gateway lists the members of the name service and tries the healthy
replicas in turn. A replica that writes asks every peer for the token, waits for it without a
timeout, marks the write at every peer (which waits for the peer's readers), stores and
replicates the entry, removes the marks in reverse order, and hands the token on. All these are
blocking HTTP calls with a timeout, served by threads of the peer. The token travels in such a
call as well, and is sent again when the call failed. Beside that an asyncio task of every
replica registers, sends heartbeats, and starts syncs that run in a thread and block reads and
writes of the replica while entries are applied.

What is hard in it: methods of the coordinator are atomic but the manager calls several in a
row; the clock, the log and the fault controller have no lock at all; a call whose caller
gave up may still be executed, before or after later calls; nothing but the vector store is
persisted; waiting is unbounded, and a handler that waits keeps one of the server's threads. PROJECT.json lists each of these hazards at its line.

## 2. The modules

| Module | Models | Uses |
|---|---|---|
| `TokenMutex` | the promise of the coordinator's docstring: one token, held or travelling; only the holder writes | |
| `Coordination` | coordinator, write path, hand-off, internal handlers, readers, syncs; failed, lost and late calls | `TokenMutex` (refinement) |
| `RestartingCoordination` | the same with replicas that restart from `__init__` | extends `Coordination` |
| `ReplicatedCache` | timestamps, logs, stores, answers, snapshots, replays and bootstrap syncs on top of the locking | extends `Coordination` |
| `Membership` | the registry, `start()` and the heartbeat loop, bootstrap, faults and the recovery after them | |
| `FaultInjection` | the controller's reads and writes, one step each | |
| `ClockThreads` | the clock's and the log's reads and writes, one step each, under the threads of a replica | |
| `RegistryThreads` | the registry's accesses to its dictionary, one step each | |
| `ThreadPool` | the threads of a server | |
| `ReplicaServer` | the handlers of a replica on their threads: who keeps one while it waits for whom | extends `ThreadPool` |
| `Inference` | the inference adapter: lifespan, requests, generations and their streamers | extends `ThreadPool` |
| `Gateway` | choice of replicas, failover, miss and write-back, fault forwarding | |
| `CoordinationProofs` | theorems of `Coordination`: types, token, writers, refinement | TLAPS |
| `MarkProofs` | theorems of `Coordination` about marks: reads during writes, marks left behind | `CoordinationProofs` |
| `RestartProofs` | theorems of `RestartingCoordination` | `CoordinationProofs` |
| `CacheProofs` | theorems of `ReplicatedCache`: logs and the lock; answers, timestamps, what replaces what in the stores, types | `CoordinationProofs` |
| `MembershipProofs`, `GatewayProofs` | theorems of the module they are named after | TLAPS |
| `ObjectProofs` | theorems of `ClockThreads`, `FaultInjection` and `RegistryThreads` | TLAPS |
| `ServerProofs` | theorems of `ThreadPool`, `ReplicaServer` and `Inference` | TLAPS |
| `MC*` | instances: which thread lives where, symmetry sets, which of several independent objects a behaviour is about | |

### Coordination
One state component per attribute of the coordinator, as a function of the replica, plus
`pending` for the manager's `_pending_token_transfer`. Threads (`Writer` for `/cache/write`,
`Handler` for the internal routes, `Syncer` for syncs) have a `pc`; a step is one locked method
of the coordinator or one access to an unlocked attribute, so every schedule the interpreter
can produce between those is a behaviour. A call is *on its way* while its caller is at a
waiting label; a handler thread of the peer serves it and its reply sets the caller's label.
`Fail` gives up a call: before it was served, while it is being served, or after; with `Lossy` a call that was not served
may be lost, without it it stays in `lateCalls`/`lateTransfers` and may be served at any later time.
The TypeError of unpacking `_pending_token_transfer` after another thread set it to None
(manager.py:474) is `SendNothing`.

`Spec` has every schedule. `SerialSpec` has those in which no other thread of a replica
disturbs the three unlocked steps of a hand-off (`HandoffUndisturbed`). The code does not
guarantee this: run `race_two_writers` shows what happens without it. It is the assumption under which
the lock works, i.e. the property a lock around manager.py:459-472 would establish; everything else
(retries, duplicates, late and lost transfers, concurrent requests) is unrestricted in it.

### ReplicatedCache
Adds what the write path does to the data: the tick before a write, the clock's update by whatever arrives,
the unconditional upsert, the log without duplicates (`SyncService._append_if_new` compares
origin, time and key), the answer given to the client, export/snapshot/replay with the `since`
of `latest_lamport_ts`. Prompts are keys; a response is the identity of the write. The log only
grows, so a snapshot is kept as the timestamp it was asked for and the length of the log it
copied. It runs under `HandoffUndisturbed`, and `CacheFollowsLock` (section 6) proves
that it is `SerialSpec` with data: the two modules are one model.

### Membership
Time is counted in heartbeat intervals. A loop stands at its awaits (`pc`): asleep, calling
the name service, syncing. Lost answers, stops, restarts of the name service and armed faults
are bounded. `MaxLag` is an assumption: an iteration of the loop apart from its sync ends
within that many intervals. The code has no such bound of its own, it is the name service's
`suspect_after_misses` read the other way round. `arm_fault` is two steps, as it runs in a thread beside the loop.

### FaultInjection, ClockThreads, RegistryThreads
The objects that handler threads share without a lock, access by access.
`FaultInjection` takes `current()` and `trigger()` apart into single attribute accesses.
`ClockThreads` takes apart `tick`, `update` (load, then store) and `_append_if_new` (look up, then append)
and has the threads of one replica that call them: a local write, a peer's write with
its calls in order, a sync. The coordinator is there only to keep the threads apart: its lock, its marks, the memory of
finished writes. The peers are seen as one, which may give any call up and go on (`GiveUp`, `PeerFinishes`): the call is
lost, or its handler works on as the `late` thread, beside whatever the peer, a sync or the local write
do next, one such handler at a time. A peer's entry can be synced from its first replicate call on (`Exported`), whether
that call has ended or not. `RegistryThreads` has every handler of the name service as scan of
the dictionary, pops, the store or look-up, and the view that makes the answer; an iteration
raises RuntimeError when the size has changed and a missing key KeyError, both a 500.
In the other modules each of these calls is one step.
`MCUnlockedObjects` checks them in one run: a behaviour is about one of the objects.

### ThreadPool, ReplicaServer, Inference
Every handler of the services is a plain `def`, which FastAPI runs in a thread of a
pool: a call waits in line, gets a thread, and keeps it until it returns, also while it waits in the
coordinator's condition. `ReplicaServer` has the calls of one replica as such tasks. Its peers
are seen as one, that has the token or has not; a hand-off is one step and a transfer of the token is not
given up, which `Coordination` has in full. It has one local write: a second one may be stranded
for a reason of its own (`overtaken_write`).
`Inference` models `runtime.py`: `start` (which may fail and leaves the service degraded), both backends,
a request for a whole answer, which keeps its thread, and a stream, whose generator has a
thread from each resumption to the next yield, may be left by its client, and is told its last event by a
`done` or `error`. `run_generation` and the `TextIteratorStreamer` are threads and a queue; the
library is external: `generate` puts tokens, ends the streamer, and may raise at any point. A
token is named by the request it was generated for.
`MCServerThreads` checks both on one pool each: a behaviour is about one server.

### Gateway
`Gateway` makes a replica's handler take any time and possibly fail, which covers armed faults
(error_response fails it; pause_node and slow_response delay it), waits for the lock, and
crashes of a call. A distributed write takes effect in one step, under the write mutex, with three things the code has besides:
- a replicate call that a `degraded` write gave up is stored later, over whatever is there then (`LateStore`; manager.py:274-287);
- a write may be answered `unavailable` although the origin's store took the entry before it raised (`Reports`; manager.py:151-156, 195);
- after any outcome the `finally` clause may raise (`raised`; manager.py:202-208, 474, coordination.py:186): the entry is stored, the
  caller gets a 500, and the gateway tries the next replica.

The list of members a request sees is any list: `Membership` says which ones occur when.

## 3. The runs

All bounds are constants in the `.cfg`, named `Max...` in the modules. Two replicas suffice for most runs because
every race found is between two; a third matters for who gets the token next and for transfers
that outlive it (`restart_drained`), and the proofs cover every number.

| Run | Deployment | Shows |
|---|---|---|
| `all_schedules` | 2 replicas, a write and a reader each, two handlers each, one given-up call, the racing hand-offs included | types, no reader beside a local write, no reader anywhere while an entry is applied and replicated (`ReadIsolation`) |
| `writes_answered` | 2 replicas, one write each, fair scheduling, no failures | every request is answered, every critical section ends |
| `cache_writes` | 2 replicas, 2 writes each to one key, one given-up call: those of the lock arrive late, replicate calls never | writes exclude each other (`MutualExclusion`), no mark stays behind once late calls have arrived (`QuiescentClean`), the inductive invariant of the proofs (`TokenInv`), refinement of `TokenMutex`; every replica reads the newest committed entry (`CommittedVisible`) |
| `cache_syncs` | a write each, a snapshot, a replay or bootstrap, late calls | one timestamp per logged write, no write twice in a log, the origin has what was logged, answers are true; only a sync or a late replicate call stores an older entry over a newer one (`NewerReplaces`) |
| `restart_drained` | 3 replicas, a write each, one restart | the token stays single if a replica restarts only when it is idle, not the configured holder, and no transfer to it is kept for a retry or late. Dropping the last condition breaks it (a third replica is needed): the new process has forgotten the versions it saw and accepts the old transfer |
| `membership` | 2 replicas, thresholds 2/3/4 intervals, one trouble, one fault | addresses are repaired, stopped replicas do not stay healthy, and (liveness) replicas get listed again, bootstrap, and sync after a fault |
| `gateway` | 2 replicas, 2 queries, a write, a fault, a failure, a given-up call | a query accepted after a write was answered ok never misses, and reads that entry, a newer one or a degraded one that came late (`CommittedRead`); the failover stores twice only when a call was given up or the first replica failed after storing, and never at one replica (`StoredOnce`) |
| `server_threads` | two threads; two reads, a local write, a peer's write, one given-up call; or a request, a stream, a probe, two exceptions; fair scheduling | every call and request ends as long as one thread does not wait (`CallsEnd`) or hang (`RequestsEnd`); who is told `done` has every token of its own generation (`DoneIsWhole`) |
| `unlocked_objects` | 2 threads, 4 calls on the fault controller; local writes, syncs and peer's writes up to 7 (a peer's write counts three), peer timestamps 1 and 2, calls given up; 2 replicas and a client in the registry | a request never takes a fault that went before it began (`GoneIsOver`); a replica's own timestamps increase unless a sync or replicate call stands beside the local write (`OwnStampsIncrease`), the log has an entry twice only if its mark was taken away while its replicate call went on (`LogOnce`); a call alone in the registry is answered, and a replica listed without its address registers again (`AloneSucceeds`, `RegistersAgain`) |
| `race_two_writers` | *violation* | `MutualExclusion` without `HandoffUndisturbed` |
| `overtaken_write` | *violation* | two writes of one replica, nothing fails: the second opens its request while the first writes, the end of the first withdraws it (coordination.py:189), and it waits for ever |
| `recovery_lost` | *violation* | a fault armed while a recovery sync runs is followed by none |

`ReadIsolation` is bounded on purpose: with a second write of one origin *and* a given-up finish call it is false
(`late_finish_unblocks_reads`, section 5). `all_schedules` checks it with failures and one write per replica.

Bounds and why they are enough. In `cache_writes`, two writes per replica give every pair of consecutive writes
of one origin (marks, numbers and timestamps of one against the next); in `all_schedules` two handlers per replica give a duplicate and the original
of one transfer served together. One failure is enough for each kind of call to be lost, late
or half done; independent failures multiply states without new interactions in these
properties. With `MaxFinished = 2` no replica forgets a finished write, as a peer ends at most two
writes in these runs; what happens when one is forgotten is in section 5, and `MarksReleased` (section 6) says which
behaviours it concerns. In `cache_syncs` a single write per replica keeps the run small; what two writes do to a sync is
what the configurations of section 5 show, and the theorems of section 6 hold for any number. In `membership` the removal threshold is far
below the real hour so that pruning happens; one trouble, because each is repaired on its own
before the next iteration ends; one fault, see section 5. In `server_threads` two threads are the
smallest pool of which one can wait and one go on, and four tasks make a line in front of it; in
`unlocked_objects` two threads suffice for every race of two accesses, three callers of the
registry for one that pops beside two others. Seven begins give two writes of the peer and a local write or a sync, or one of
the peer's with four of those: a late handler of one write beside the next, and a sync or two local writes beside both. Every property has a mutant in
PROJECT.json: a plausible mistake in the code it speaks about, written next to the definition
as a *variant*, that TLC finds with the same bounds.

`CHECK_DEADLOCK FALSE` everywhere: the bounds end every behaviour, and a write may wait for ever
(which `RequestEnds` and `NobodyStranded` are about).

## 4. Fairness

`Coordination!FairSpec`: weak fairness of each thread's progress (threads of one process are
scheduled by the interpreter and the OS), of serving a call (the server has a free thread of its
pool sooner or later), and of the ends of reads and syncs. Nothing is fair about new requests
or failures. `writes_answered` has no readers: `mark_remote_write_started` waits for a moment without active readers
and new readers are admitted meanwhile (coordination.py:94, 236), so a steady stream of reads
starves writers in the code as in the model.

`Membership!FairSpec`: the event loop runs every ready task; a sync ends; time passes; faults end
(each has a duration); a stopped container is started again (`restart: unless-stopped` in docker-compose.yml).

`MCServerThreads!Spec` (`ReplicaFairness`, `InferenceFairness`): a thread that can go on does, a free one takes the
next call of the line, the peers' threads go on, and `generate` ends at last (it makes at most
`max_new_tokens`). No client, failure or exception is owed. Its properties hold under a
condition on the behaviour, not on the scheduler: that one thread does not wait
(`CallsEnd`) or hang (`RequestsEnd`). It is real: without it both fail (section 5).

## 5. What the code does not guarantee

Three disagreements between documents and code are runs (above). Further configurations, not
in the list of runs, reproduce others; each is `tlc -config <name>.cfg <module>` and ends with
a counterexample.

| Configuration | Module | What happens |
|---|---|---|
| `duplicate_send_loses_token` | MCCoordination | the reply to a repeated transfer clears a newer pending one (manager.py:486): no token left |
| `late_finish_unblocks_reads` | MCCoordination | a late finish call removes the mark of the same origin's next write (coordination.py:257) |
| `write_end_opens_sync` | MCCoordination | the end of a write removes the mark of a sync from the same origin |
| `lost_finish_blocks_reads` | MCCoordination | a finish call that failed is not repeated (manager.py:455): reads stay blocked |
| `abort_clears_other_write` | MCCoordination | an abort clears the flag of another local write (coordination.py:200): two writes of one replica in their critical sections (`OneWriter`) |
| `restart_second_token` | MCRestartingCoordination | the configured holder restarts and makes a second token (coordination.py:49) |
| `restart_strands_request` | MCRestartingCoordination | request numbers start again and are taken for old ones (coordination.py:46, 285) |
| `sync_overwrites_newer` | MCReplicatedCache | entries fetched before a write are stored over it |
| `late_replicate_overwrites` | MCReplicatedCache | a late replicate call does the same (manager.py:274) |
| `recovery_leaves_gap` | MCReplicatedCache | a sync asks for what is newer than the newest entry and misses older gaps (manager.py:406) |
| `replay_rolls_back` | MCReplicatedCache | a replay of the first operations stores them over newer ones |
| `stranded_request` | MCCoordination | an aborted request leaves a gap in the numbers and the replica's next one is never eligible (coordination.py:285) |
| `pool_exhausted` | MCServerThreads | reads that wait behind a write hold all threads; the finish call that would release them finds none |
| `stream_hangs` | MCServerThreads | `generate` raises before it ends the streamer: its reader waits for a token that never comes (runtime.py:152) |
| `heartbeat_pruned` | RegistryThreads | a handler that decided to prune a replica pops it after its heartbeat renewed it (registry.py:63) |
| `clock_goes_back` | ClockThreads | a sync, or a replicate call that was given up, loads the time before another thread stores a newer one and stores an older one after it (clock.py:8) |
| `once_affects_two` | FaultInjection | two overlapping requests both take a once fault (faults.py:69-70 say one) |
| `none_asked` | FaultInjection | a thread subscripts `_active_fault` after it became None (faults.py:51) |
| `late_write_returns` | MCGateway | a write that timed out and was retried elsewhere takes effect late and comes back over another one |

The memory of finished writes is bounded (coordination.py:296, 256 of them), and a start call that
arrives after its write was forgotten leaves a mark that nothing removes. In the deployment of `cache_writes` with
`MaxFinished = 1` (`SerialSpec` of `MCCoordination`) TLC finds the first such behaviour, a counterexample to
`QuiescentClean`: a write's start call is given up and late, the write ends without it and the peer
remembers that, a second write of the same origin ends and takes its place in the memory, then the start arrives.

`LogOnce` and `OwnStampsIncrease` say what holds of the log and the clock; what they except does happen. A peer that gives its
replicate call up ends its write, its entry can then be synced, and the handler and the sync both pass the test of
`_append_if_new`. A replicate call that was given up and loads the clock before a local write ticks it takes
the clock back in the midst of the next one, which gets the same timestamp again. Dropping `unguarded` or `beside` from the property gives
either as a counterexample.

`RecoveryFollows`, the passing counterpart of `RecoveryHappens`, excludes a recovery under way
when the fault is armed. With two faults it fails as well: the recovery resets the flag after its await
(manager.py:399-401) and arming "disabled" takes it back (manager.py:225).

## 6. Proofs

Each module is proved from the assumptions its constants are declared with (`ConstantsAssumption`, `CacheAssumption`,
...: non-empty sets of replicas and keys, threads of three kinds that each live in one replica,
numbers that are naturals) for every number of replicas, threads, requests and failures.
Theorems marked * assume `SingleWriter` as well: no replica
serves two writes at once. The code does not ensure that, and marks need it: two writes of one
replica share one mark. Theorems marked + hold for any number of writes that a replica serves at once, of behaviours in which no
`abort_local_write` clears the flag of a write that is in its critical section (`AbortsApart`; the code compares request numbers there, but not whose
flag it is: `abort_clears_other_write`).
Every other assumption is in the table; each is one without which section 5 has a counterexample.

| Theorem | States |
|---|---|
| `TypeCorrect` | `Spec => []TypeOK` |
| `LocalExclusion` | `Spec => []LocalReadWriteExclusion`: every schedule, every failure |
| `TokenInvHolds`, `TokenIsSingle` | `SerialSpec => []TokenInv`, `SerialSpec => []SingleToken` |
| `MutexHolds` | `SerialSpec => []MutualExclusion` |
| `OneWriterAtATime` + | `UnabortedSpec => []OneWriter`: no two threads, of one replica or of two, are in their critical sections |
| `CoordinationRefinesMutex` | `SerialSpec => Mutex!Spec` |
| `ReadsIsolated` * | `UndisturbedSpec => []ReadIsolation`: every schedule and failure in which no late end of an earlier write or of a sync takes the mark of a write that places or needs it |
| `MarksReleased` * | `RememberingSpec => []QuiescentClean`: calls may be late but not lost, and no replica forgets a finished write whose start call is on its way |
| `RestartsKeepToken`, `RestartsKeepMutex` | for restarts of drained replicas other than the configured holder, `RestartSpec => []` of `SingleToken`, `MutualExclusion` |
| `CacheFollowsLock` | `CacheSpec => SerialSpec`: the cache implements its lock |
| `CacheMutexHolds`, `CacheRefinesMutex` | hence `CacheSpec => []MutualExclusion` and `CacheSpec => Mutex!Spec` |
| `OriginsLead` | `CacheSpec => []OriginHasEntry` |
| `AnswersHold` | `CacheSpec => []AnswersTrue` |
| `TimestampsDiffer` + | `UnabortedCacheSpec => []TimestampsUnique` |
| `NewerReplacesOlder` + | `UnabortedCacheSpec => NewerReplaces`, beside any syncs, replays and late calls |
| `CacheTypesHold` | `CacheSpec => []CacheTypeOK`, where the log has no write twice |
| `MemberTypes`, `AddressKnown`, `StoppedIsNotHealthy` | `Membership`'s `Spec => []` of `TypeOK`, `KnowsAddress`, `StoppedNotHealthy` |
| `GatewayTypesHold`, `CommittedIsRead`, `FailoverStoresOnce` | `GatewaySpec => []` of `GatewayTypeOK`, `CommittedRead`, `StoredOnce` |
| `OnceTheorem`, `OwnTimestamps` | `ClockSpec => []LogOnce`, `ClockSpec => []OwnStampsIncrease` |
| `FaultTypesHold`, `GoneStaysGone` | `FaultSpec => []FaultTypeOK`, `FaultSpec => []GoneIsOver` |
| `AloneIsAnswered`, `UnknownRegistersAgain` | `RegistrySpec => []AloneSucceeds`, `RegistrySpec => []RegistersAgain` |
| `ObjectTypesHold` | `MCUnlockedObjects`' `Spec => []ObjectsTypeOK`: types of clock, faults and registry |
| `WholeAnswers` | `InferenceSpec => []DoneIsWhole` |
| `ServersHold` | `MCServerThreads`' `Spec => []ServersTypeOK`: never more threads than the pool has, each for a task that is under way |

The lock. `SingleToken` is not inductive: a repeated transfer may only be refused because its recipient has
seen its version. `TokenInv` says why that is so: versions grow along the token's way, the
holder has seen the highest (`HolderIsNewest`), a transfer that would be accepted is the newest
there is and then nobody holds the token (`LiveIsNewest`), copies of one version have one
recipient (`VersionNamesRecipient`), a replica between deciding to pass and sending holds the
token and does not write (`OneHandoff`), and only a holder writes. `TypeInv` strengthens `TypeOK` by
the range of each thread's locals at its label. The proof that a step keeps
`TokenInv` first sorts all actions into a few kinds by their effect on tokens and transfers
(`NextKind`: nothing, a transfer received, a transfer sent, copies dropped), and then proves each kind once.
`OneWriter` needs in addition that a thread in its critical section has its replica's flag
(`ActiveInCriticalSection`): a second write of the replica finds the flag set and waits, and the flag goes only
with the write that has it, or with an abort, which `AbortsApart` keeps off the others. A restart of a drained replica keeps `TokenInv` although the replica
forgets the versions it saw: the versions of the others, and every transfer that is left, are as they were, and none is to it. The refinement maps a step by whether tokens or flags change.

The marks. First every action is sorted by what it does to a write of some thread: `Quiet` steps move
writes along without touching a mark, and `MarkStep` lists the few that place or remove one. Under
`SingleWriter` a write's number is its own (`Numbers`), so no replica believes it finished before its end
(`Unfinished`) and a start call is not refused as already finished. A mark is placed only where nobody reads (`MarksRead`) and a
write that applies its entry has one at every peer (`Marked`), where only its own end, a late end or a
sync's end could take it: the last two are what `UndisturbedSpec` excludes. For `QuiescentClean` every mark has somebody who will remove it
(`MarksHaveReasons`); a start call that is still on its way finds its write finished, or the end is on its way too
(`StartsEnd`), which is where the memory of finished writes counts.

The data. `DataInv` says that an id and a timestamp name one write of a replica (`Stamps`), that no write has taken the
id of one that waits for its timestamp (`Fresh`), and that everything in a log, in a late call or in the hands of
a sync has *settled*: it is in the log of its origin (`AllSettled`). Logs only grow, so what has settled stays.
The lock's steps enter only through what they do to a writing thread (`Quiet`). `AnswerInv` adds
how far the entry of a write has come (`Reached`: replicas below `peer[x]` have it) and that an
id is answered once. `TimeInv` follows the start calls: while they go round, the clocks below `peer[x]` have
passed the timestamp (`Passing`), after them all have (`Passed`), so the next write, which by
`OneWriter` begins later, gets a greater one. `StoreInv` builds on it: no replica's clock is behind what any store has (`StorePassed`: the start calls have been
everywhere before an entry is stored anywhere), so the next timestamp is beyond all stores, and the entry that is being applied or
replicated is at least as new as what any store has (`Leads`); the unconditional upsert of a write
then never puts an older entry over a newer. Syncs and late replicate calls store only what has a timestamp that the
clocks have passed, and so leave the invariant as it is even where they put an older entry back.
`CacheTypes` adds that an entry a sync fetched is appended only if the log lacks it (`LogsOnce`) and that the clock leads the log.

Membership. Every step of the loops, the registry and the faults is shown to leave the entries of the
other replicas as they are or drop them (`OthersFollow`), so an invariant about one replica is proved for the step's own.
`KnowsAddress` follows from what a loop learned at its last check (`AddressFromCheck`): between the check and the end
of the iteration the registry cannot lose the address without losing the entry.
A stopped replica's entry is at least as old as its stop (`EntryAges`), hence not healthy.

The gateway. A request none of whose calls was given up has one handler at most, for which
it waits (`Alone`); so when it has stored its entry it has its answer, unless the replica failed then (`Stores`, `Repeated`), and
it never goes back to a replica that it has stored at (`Spent`). Only degraded writes leave calls behind (`Late`). What a
client was told to be everywhere is there, or overwritten by a newer write or by a late entry of a degraded one (`Told`), and a
query accepted after it finds such an entry at every replica, and so never asks for inference (`Seen`). `CallKept` proves the end of a call
once for all ways it can end.

Threads. A peer's mark stands while its replicate call goes on, and no sync of its entry is under way then
(`MarkGuards`), unless the mark was taken away; so nobody appends what is there (`AppendsNew`), as
what a sync applies was exported or is logged (`PendingKnown`) and a peer's start call comes before either (`StartsFirst`).
For own timestamps, `OwnInv` bounds from below by the replica's own entries the time and what any thread has loaded and will store
(`TimeCovers`, `SeenCovers`): a start call has loaded it in the coordinator's condition, which keeps the next local write
from beginning until it has stored, and a late one that waits beside a local write may store what that
write has ticked, but no less (`TickBeside`). A fault that has gone is never the active one again, so a call that
began later cannot load it (`Before`). A call that is alone in the registry finds the keys it scanned
(`UnmetCalls`), and an iteration of another handler never takes an address away from an entry (`AddressHeld`).
The tokens a request has read, followed by those in its queue, are those its generation has made, in order (`FlowInv`).
For the pools, `PoolInv` says of any kind of task that it is busy or in line exactly while it is under way, each
once, and `StageInv`, `LockInv`, `RequestInv` and `RuntimeInv` tie that to the steps of a call and of a request.

Only model-checked: liveness (the provers here have no fairness), and `CommittedVisible`: it speaks of a deployment without syncs and late
replicate calls, and `NewerReplacesOlder` says more of the steps that decide it. What the theorems
assume or except is not true of the code in general: section 5 says what happens with overlapping writes of one replica, syncs, late replicate or
finish calls, restarts in the midst of work, and with disturbed hand-offs.

## 7. Plan

1. Done: the lock, the data, restarts, membership, faults, the gateway, the shared objects access by
   access, thread pools, inference; the proofs of section 6.
2. Done: every invariant of a passing run is a theorem, except `CommittedVisible`, which TLC checks.
3. An abstract register for clients of `Gateway` and the refinement under "no call given up".

## 8. Not modelled, and why

- Semantic search and embeddings: numeric results of libraries; only exact lookup is.
- The text a model generates; a token stands for whatever it is.
- The web console, data models, configuration, logging: no state or no behaviour of their own.
- The read-only routes the console polls.
- The heartbeat loop ends for good on an exception other than NameServiceClientError
  (manager.py:339-343); `Membership` has no such exception.
- A crash of Qdrant: a store that fails is a write that fails.
