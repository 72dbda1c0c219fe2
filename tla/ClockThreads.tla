------------------------------- MODULE ClockThreads -------------------------------
(***************************************************************************)
(* A replica's Lamport clock (shared/clock.py) and operation log           *)
(* (services/replica/sync_service.py) under the threads that use them      *)
(* without a lock of their own: a local write, the calls of a peer's       *)
(* write, and a sync.  Coordination and ReplicatedCache have each use as   *)
(* one step; here tick, update and _append_if_new are read and stored in   *)
(* steps of their own, and the coordinator is only what keeps the threads  *)
(* apart: its lock, the marks of remote writers, and the token.            *)
(*                                                                         *)
(* The peer may give any of its calls up (peer_client's timeout) and go    *)
(* on: the call is lost, or its handler works on beside what follows.  One *)
(* such late handler at a time.                                            *)
(*                                                                         *)
(* The peers are seen as one.  An entry is the pair of its origin, local   *)
(* or peer, and its timestamp, so that two writes with one timestamp count *)
(* as one entry, as two of one prompt do in the code.                      *)
(***************************************************************************)
EXTENDS Naturals, Sequences, FiniteSets

CONSTANTS
  MaxBegins,  \* bound: the local writes, the syncs, and thrice the peer's writes
  PeerTimes   \* the timestamps that the peer's writes may have

ASSUME ClockAssumption == MaxBegins \in Nat /\ PeerTimes \subseteq Nat \ {0}

Handlers == {"peer", "late"}   \* of a call the peer waits for, or has given up
Threads == {"local", "sync"} \cup Handlers
Sources == {"peer", "other"}   \* the peer, and the origins that are not writing
Origins == {"local", "peer"}

VARIABLES
  time,        \* LamportClock.time
  log,         \* _write_log
  keys,        \* _write_keys
  marks,       \* _remote_writers
  finished,    \* _finished_remote_write_ids: the timestamps of those writes
  writing,     \* _local_write_active
  pc,          \* [t]: where thread t stands
  seen,        \* [t]: the time it has loaded
  entry,       \* [t]: the entry it works on
  entries,     \* the sync's entries that are not applied yet
  source,      \* the origin under which the sync is marked
  begun,       \* the timestamps of the peer's writes
  exported,    \* those of them that peers may have in their logs
  begins,      \* bound: what has begun
  unguarded,   \* ghost: the entries whose mark went before their handler ended
  beside       \* ghost: the clock was stored without a lock beside a local write

coordinatorVars == <<marks, finished, writing>>
ghostVars == <<unguarded, beside, begins>>
peerVars == <<begun, exported>>
syncVars == <<entries, source>>
clockThreadVars ==
  <<time, log, keys, coordinatorVars, pc, seen, entry, syncVars, peerVars, ghostVars>>

NoEntry == <<"local", 0>>

ClockInit ==
  /\ time = 0 /\ log = <<>> /\ keys = {}
  /\ marks = {} /\ finished = {} /\ writing = FALSE
  /\ pc = [t \in Threads |-> "idle"]
  /\ seen = [t \in Threads |-> 0]
  /\ entry = [t \in Threads |-> NoEntry]
  /\ entries = {} /\ source = "other"
  /\ begun = {} /\ exported = {} /\ begins = 0
  /\ unguarded = {} /\ beside = FALSE

Goes(t, label) == pc' = [pc EXCEPT ![t] = label]
Largest(S) == CHOOSE m \in S : \A n \in S : n <= m
Begins(n) == begins + n <= MaxBegins /\ begins' = begins + n
LogSet == {log[i] : i \in DOMAIN log}

\* A thread ends, and its locals with it.
Rests(t) ==
  /\ Goes(t, "idle")
  /\ seen' = [seen EXCEPT ![t] = 0]
  /\ entry' = [entry EXCEPT ![t] = NoEntry]

\* A start call is in the coordinator's condition; no other thread is.
\* variant for OwnStampsIncrease: the update stands before the condition
Locked_AfterUpdate == \E t \in Handlers : pc[t] = "store_marked"
Locked == \E t \in Handlers : pc[t] \in {"store_start", "store_marked"}

\* The steps of a start call, and of a replicate call
StartStage == {"start", "store_start", "wait", "store_marked"}
ReplicateStage == {"replicate", "store_replicate", "record", "append"}

\* The replicate calls here that have not ended
Replicating == {entry[t] : t \in {h \in Handlers : pc[h] \in ReplicateStage}}

\* Mark o is discarded; the peer's mark may be that of a write which is going on.
Unmarks(o) ==
  /\ marks' = marks \ {o}
  /\ unguarded' = IF o = "peer" THEN unguarded \cup Replicating ELSE unguarded

-----------------------------------------------------------------------------
(* clock.py.  A thread loads the time and stores the new one.               *)

\* The threads that have loaded the clock and store it without the coordinator's lock
Straying == {t \in Threads : pc[t] \in {"store_replicate", "store_sync"}}

Load(t, next) ==
  /\ seen' = [seen EXCEPT ![t] = time]
  /\ Goes(t, next)
  /\ beside' = (beside \/ (writing /\ next \in {"store_replicate", "store_sync"}))

Ticked(old) == old + 1
Updated(old, received) == Largest({old, received}) + 1

-----------------------------------------------------------------------------
(* A local write, while the replica has the token.                          *)

\* begin_local_write; the token's owner is the only writer.
BeginLocal ==
  /\ pc["local"] = "idle" /\ pc["peer"] = "idle"
  /\ ~Locked /\ marks = {}
  /\ Begins(1)
  /\ writing' = TRUE
  /\ beside' = (beside \/ Straying # {})
  /\ Goes("local", "tick")
  /\ UNCHANGED <<time, log, keys, marks, finished, seen, entry, syncVars, peerVars, unguarded>>

LoadTick ==
  /\ pc["local"] = "tick" /\ Load("local", "store_tick")
  /\ UNCHANGED <<time, log, keys, coordinatorVars, entry, syncVars, peerVars, unguarded, begins>>

StoreTick ==
  /\ pc["local"] = "store_tick"
  /\ time' = Ticked(seen["local"])
  /\ Goes("local", "take")
  /\ UNCHANGED <<log, keys, coordinatorVars, seen, entry, syncVars, peerVars, ghostVars>>

\* tick returns what the clock says then.
TakeStamp ==
  /\ pc["local"] = "take"
  /\ entry' = [entry EXCEPT !["local"] = <<"local", time>>]
  /\ Goes("local", "record")
  /\ UNCHANGED <<time, log, keys, coordinatorVars, seen, syncVars, peerVars, ghostVars>>

\* finish_local_write, after the calls to the peers
FinishLocal ==
  /\ pc["local"] = "recorded" /\ ~Locked
  /\ writing' = FALSE
  /\ Rests("local")
  /\ UNCHANGED <<time, log, keys, marks, finished, syncVars, peerVars, ghostVars>>

-----------------------------------------------------------------------------
(* The peer's write.                                                        *)

PeerBegins ==
  /\ pc["peer"] = "idle" /\ ~writing
  /\ Begins(3)
  /\ \E ts \in PeerTimes \ begun :
       /\ entry' = [entry EXCEPT !["peer"] = <<"peer", ts>>]
       /\ begun' = begun \cup {ts}
  /\ Goes("peer", "start")
  /\ UNCHANGED <<time, log, keys, coordinatorVars, seen, syncVars, exported, unguarded, beside>>

\* mark_remote_write_started enters the condition, and updates the clock before it
\* waits for the local write to end.
LoadStart(t) ==
  /\ pc[t] = "start" /\ ~Locked /\ Load(t, "store_start")
  /\ UNCHANGED <<time, log, keys, coordinatorVars, entry, syncVars, peerVars, unguarded, begins>>

StoreStart(t) ==
  /\ pc[t] = "store_start"
  /\ time' = Updated(seen[t], entry[t][2])
  /\ Goes(t, "wait")
  /\ UNCHANGED <<log, keys, coordinatorVars, seen, entry, syncVars, peerVars, ghostVars>>

\* A write whose end came first is not marked.
MarkStarted(t) ==
  /\ pc[t] = "wait" /\ ~writing /\ ~Locked
  /\ marks' = IF entry[t][2] \in finished THEN marks ELSE marks \cup {"peer"}
  /\ finished' = finished \ {entry[t][2]}
  /\ Load(t, "store_marked")
  /\ UNCHANGED <<time, log, keys, writing, entry, syncVars, peerVars, unguarded, begins>>

StoreMarked(t) ==
  /\ pc[t] = "store_marked"
  /\ time' = Ticked(seen[t])
  /\ IF t = "late" THEN Rests(t) ELSE Goes(t, "replicate") /\ UNCHANGED <<seen, entry>>
  /\ exported' = IF t = "late" THEN exported ELSE exported \cup {entry[t][2]}
  /\ UNCHANGED <<log, keys, coordinatorVars, syncVars, begun, ghostVars>>

\* apply_replicated_write
LoadReplicate(t) ==
  /\ pc[t] = "replicate" /\ Load(t, "store_replicate")
  /\ UNCHANGED <<time, log, keys, coordinatorVars, entry, syncVars, peerVars, unguarded, begins>>

StoreReplicate(t) ==
  /\ pc[t] = "store_replicate"
  /\ time' = Updated(seen[t], entry[t][2])
  /\ Goes(t, "record")
  /\ UNCHANGED <<log, keys, coordinatorVars, seen, entry, syncVars, peerVars, ghostVars>>

\* The peer gives the call up; a call that was not served may be lost.  After a failed
\* start call, or a replicate call, it only ends its write.
GiveUp ==
  /\ pc["peer"] \in StartStage \cup ReplicateStage
  /\ \/ /\ pc["late"] = "idle"
        /\ pc' = [pc EXCEPT !["late"] = pc["peer"], !["peer"] = "recorded"]
        /\ seen' = [seen EXCEPT !["late"] = seen["peer"], !["peer"] = 0]
        /\ entry' = [entry EXCEPT !["late"] = entry["peer"]]
     \/ /\ pc["peer"] \in {"start", "replicate"}
        /\ Goes("peer", "recorded") /\ UNCHANGED <<seen, entry>>
  /\ UNCHANGED <<time, log, keys, coordinatorVars, syncVars, peerVars, ghostVars>>

\* mark_remote_write_finished
MarkFinished(t) ==
  /\ ~Locked
  /\ Unmarks("peer")
  /\ finished' = finished \cup {entry[t][2]}
  /\ Rests(t)
  /\ UNCHANGED <<time, log, keys, writing, syncVars, peerVars, beside, begins>>

\* The peer's write ends here; the last call may be lost or late as well.
PeerFinishes ==
  /\ pc["peer"] = "recorded"
  /\ \/ MarkFinished("peer")
     \/ /\ Rests("peer")
        /\ UNCHANGED <<time, log, keys, coordinatorVars, syncVars, peerVars, ghostVars>>
     \/ /\ pc["late"] = "idle"
        /\ pc' = [pc EXCEPT !["late"] = "finish", !["peer"] = "idle"]
        /\ seen' = [seen EXCEPT !["peer"] = 0]
        /\ entry' = [entry EXCEPT !["late"] = entry["peer"], !["peer"] = NoEntry]
        /\ UNCHANGED <<time, log, keys, coordinatorVars, syncVars, peerVars, ghostVars>>

LateFinish == pc["late"] = "finish" /\ MarkFinished("late")

-----------------------------------------------------------------------------
(* A sync or a replay.                                                      *)

\* Entries of a peer's log: a write's from its first replicate call on, should a sync
\* there have ended its mark.  A replay takes the replica's own log.
Exported_Unguarded == {<<"peer", ts>> : ts \in begun}  \* variant for LogOnce
Exported == {<<"peer", ts>> : ts \in exported}

\* Whose mark the sync bears: the origin of its first entry
SourceOf(e) == IF e[1] = "peer" THEN Sources ELSE {"other"}

\* The first of S, as sorted orders them
IsFirst(e, S) == e \in S /\ \A f \in S : e[2] <= f[2]

BeginSync ==
  /\ pc["sync"] = "idle" /\ ~Locked /\ ~writing /\ marks = {}
  /\ Begins(1)
  /\ entries' \in SUBSET (Exported \cup LogSet) /\ entries' # {}
  /\ \E e \in entries' : IsFirst(e, entries') /\ source' \in SourceOf(e)
  /\ marks' = {source'}
  /\ Goes("sync", "next")
  /\ UNCHANGED <<time, log, keys, finished, writing, seen, entry, peerVars, unguarded, beside>>

\* The entries in the order of their timestamps
NextEntry ==
  /\ pc["sync"] = "next"
  /\ \E e \in entries :
       /\ IsFirst(e, entries)
       /\ entry' = [entry EXCEPT !["sync"] = e]
       /\ entries' = entries \ {e}
  /\ Load("sync", "store_sync")
  /\ UNCHANGED <<time, log, keys, coordinatorVars, source, peerVars, unguarded, begins>>

StoreSync ==
  /\ pc["sync"] = "store_sync"
  /\ time' = Updated(seen["sync"], entry["sync"][2])
  /\ Goes("sync", "record")
  /\ UNCHANGED <<log, keys, coordinatorVars, seen, entry, syncVars, peerVars, ghostVars>>

FinishSync ==
  /\ pc["sync"] = "next" /\ entries = {} /\ ~Locked
  /\ Unmarks(source)
  /\ source' = "other"
  /\ Rests("sync")
  /\ UNCHANGED <<time, log, keys, finished, writing, entries, peerVars, beside, begins>>

-----------------------------------------------------------------------------
(* _append_if_new, by whichever thread.                                     *)

\* What follows: the sync's next entry; a late handler ends.
Records(t) ==
  IF t = "late" THEN Rests(t)
  ELSE Goes(t, IF t = "sync" THEN "next" ELSE "recorded") /\ UNCHANGED <<seen, entry>>

TestKey(t) ==
  /\ pc[t] = "record"
  /\ IF entry[t] \in keys THEN Records(t) ELSE Goes(t, "append") /\ UNCHANGED <<seen, entry>>
  /\ UNCHANGED <<time, log, keys, coordinatorVars, syncVars, peerVars, ghostVars>>

AppendEntry(t) ==
  /\ pc[t] = "append"
  /\ keys' = keys \cup {entry[t]}
  /\ log' = Append(log, entry[t])
  /\ Records(t)
  /\ UNCHANGED <<time, coordinatorVars, syncVars, peerVars, ghostVars>>

-----------------------------------------------------------------------------
ClockNext ==
  \/ BeginLocal \/ LoadTick \/ StoreTick \/ TakeStamp \/ FinishLocal
  \/ PeerBegins \/ GiveUp \/ PeerFinishes \/ LateFinish
  \/ \E t \in Handlers : \/ LoadStart(t) \/ StoreStart(t) \/ MarkStarted(t) \/ StoreMarked(t)
                         \/ LoadReplicate(t) \/ StoreReplicate(t)
  \/ BeginSync \/ NextEntry \/ StoreSync \/ FinishSync
  \/ \E t \in Threads : TestKey(t) \/ AppendEntry(t)

ClockSpec == ClockInit /\ [][ClockNext]_clockThreadVars

-----------------------------------------------------------------------------
(* Properties.                                                              *)

\* Types; the log and the keys agree.
ClockTypeOK ==
  /\ time \in Nat /\ log \in Seq(Origins \X Nat) /\ keys = LogSet
  /\ marks \subseteq Sources /\ source \in Sources
  /\ writing \in BOOLEAN /\ beside \in BOOLEAN
  /\ finished \subseteq begun /\ exported \subseteq begun /\ begun \subseteq PeerTimes
  /\ \A t \in Threads : seen[t] \in Nat /\ entry[t] \in Origins \X Nat
  /\ entries \cup unguarded \subseteq Origins \X Nat

\* A local write's timestamp is newer than the replica's own entries, whatever start
\* calls, ends of writes and appends come between the load and the store of the clock:
\* those that use it beside a local write hold the coordinator's lock.  Syncs and
\* replicate calls do not; they are excepted when they do stand beside one.
OwnStampsIncrease ==
  pc["local"] \in {"record", "append"} /\ ~beside =>
    \A e \in LogSet : e[1] = "local" => e[2] < entry["local"][2]

\* The log has an entry once ("_append_if_new"), except one whose mark was taken away
\* while its replicate call went on: the peer had given the call up, or the end of a
\* sync or of an earlier write took the mark.
LogOnce == \A i, j \in DOMAIN log : log[i] = log[j] => i = j \/ log[i] \in unguarded

\* The clock is never behind an entry of the log.  A sync, or a replicate call that
\* was given up, stores an older time than it found.
ClockNeverBehind == \A e \in LogSet : e[2] <= time

=============================================================================
