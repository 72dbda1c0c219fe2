------------------------------- MODULE ObjectProofs -------------------------------
(***************************************************************************)
(* Proofs about the objects that handler threads share without a lock:     *)
(* ClockThreads, for any number of writes and syncs; FaultInjection, for   *)
(* any number of threads and calls; RegistryThreads, for any finite number *)
(* of members and any number of listers; and the three beside each other.  *)
(***************************************************************************)
EXTENDS MCUnlockedObjects, FiniteSetTheorems, TLAPS

-----------------------------------------------------------------------------
(* Clock and log: the types, and what the threads stand for.                *)

LocalLabel == {"idle", "tick", "store_tick", "take", "record", "append", "recorded"}
PeerLabel == {"idle", "recorded"} \cup StartStage \cup ReplicateStage
LateLabel == {"idle", "finish"} \cup StartStage \cup ReplicateStage
SyncLabel == {"idle", "next", "store_sync", "record", "append"}

Label == LocalLabel \cup PeerLabel \cup LateLabel \cup SyncLabel

Entries == Origins \X Nat

TimeTypes == time \in Nat /\ seen \in [Threads -> Nat] /\ begun \in SUBSET Nat

LogTypes == log \in Seq(Entries) /\ keys = LogSet

MarkTypes ==
  /\ marks \in SUBSET Sources /\ source \in Sources
  /\ writing \in BOOLEAN /\ beside \in BOOLEAN

PeerTypes ==
  /\ begun \in SUBSET PeerTimes /\ finished \in SUBSET begun /\ exported \in SUBSET begun

EntryTypes ==
  /\ entry \in [Threads -> Entries] /\ entries \in SUBSET Entries
  /\ unguarded \in SUBSET Entries

Types == TimeTypes /\ LogTypes /\ MarkTypes /\ PeerTypes /\ EntryTypes

Labels ==
  /\ pc \in [Threads -> Label]
  /\ pc["local"] \in LocalLabel /\ pc["peer"] \in PeerLabel
  /\ pc["late"] \in LateLabel /\ pc["sync"] \in SyncLabel

\* The handlers work on entries of the peer's writes, and on two of them.
PeersHeld ==
  \A t \in Handlers : pc[t] # "idle" => entry[t][1] = "peer" /\ entry[t][2] \in begun

Differ ==
  pc["peer"] \notin {"idle", "recorded"} /\ pc["late"] # "idle"
    => entry["peer"] # entry["late"]

\* A local write works on an entry of its own; only the peer's lose their mark.
Own ==
  /\ pc["local"] \in {"record", "append", "recorded"} => entry["local"][1] = "local"
  /\ \A e \in unguarded : e[1] = "peer"

\* The lock and the token: nobody marks a write while one is local.
Apart ==
  /\ writing <=> pc["local"] # "idle"
  /\ writing => pc["peer"] = "idle" /\ pc["late"] # "store_marked"

StateInv == Types /\ Labels /\ PeersHeld /\ Differ /\ Own /\ Apart

LEMMA LargestIs ==
  ASSUME NEW a \in Nat, NEW b \in Nat
  PROVE  Largest({a, b}) \in Nat /\ Largest({a, b}) >= a /\ Largest({a, b}) >= b
<1> DEFINE m == IF a <= b THEN b ELSE a
<1>1. m \in {a, b} /\ \A n \in {a, b} : n <= m
  OBVIOUS
<1> QED  BY <1>1 DEF Largest

LEMMA UpdatedIs ==
  ASSUME NEW a \in Nat, NEW b \in Nat
  PROVE  Updated(a, b) \in Nat /\ Updated(a, b) > a /\ Updated(a, b) > b
BY LargestIs DEF Updated

\* An appended entry is in the log, and in its place.
LEMMA Appended ==
  ASSUME log \in Seq(Entries), NEW e \in Entries, log' = Append(log, e)
  PROVE  /\ log' \in Seq(Entries) /\ LogSet' = LogSet \cup {e}
         /\ \A i, j \in DOMAIN log' :
              log'[i] = log'[j] /\ i # j =>
                \/ i \in DOMAIN log /\ j \in DOMAIN log /\ log[i] = log[j] /\ log'[i] = log[i]
                \/ log'[i] = e /\ e \in LogSet
<1>1. /\ log' \in Seq(Entries) /\ DOMAIN log' = 1..Len(log) + 1 /\ DOMAIN log = 1..Len(log)
      /\ log'[Len(log) + 1] = e /\ \A i \in 1..Len(log) : log'[i] = log[i]
      /\ Len(log) \in Nat
  OBVIOUS
<1>2. LogSet' = LogSet \cup {e}
  BY <1>1 DEF LogSet
<1> QED  BY <1>1, <1>2 DEF LogSet

LEMMA LogSame == ASSUME UNCHANGED log  PROVE LogSet' = LogSet
BY DEF LogSet

LEMMA LogSetTyped == ASSUME log \in Seq(Entries)  PROVE LogSet \in SUBSET Entries
<1>1. \A i \in DOMAIN log : log[i] \in Entries
  OBVIOUS
<1> QED  BY <1>1 DEF LogSet

LEMMA StateInit == ClockInit => StateInv
<1> SUFFICES ASSUME ClockInit  PROVE StateInv
  OBVIOUS
<1> USE DEF ClockInit, Threads, Handlers
<1>1. Labels
  BY DEF Labels, Label, LocalLabel, PeerLabel, LateLabel, SyncLabel
<1>2. LogSet = {} /\ log \in Seq(Entries)
  BY DEF LogSet
<1>3. Types
  BY <1>2, ClockAssumption DEF Types, TimeTypes, LogTypes, MarkTypes, PeerTypes, EntryTypes, NoEntry,
     Entries, Origins, Sources
<1>4. PeersHeld /\ Differ /\ Own /\ Apart
  BY DEF PeersHeld, Differ, Own, Apart
<1> QED  BY <1>1, <1>3, <1>4 DEF StateInv

LEMMA StateStep == StateInv /\ [ClockNext]_clockThreadVars => StateInv'
<1> SUFFICES ASSUME StateInv, [ClockNext]_clockThreadVars  PROVE StateInv'
  OBVIOUS
<1> USE ClockAssumption DEF StateInv, Goes, coordinatorVars, syncVars, peerVars, ghostVars,
        Threads, Handlers, Label, LocalLabel, PeerLabel, LateLabel, SyncLabel, StartStage, ReplicateStage
<1>1. CASE BeginLocal
  <2>1. TimeTypes'
    BY <1>1 DEF BeginLocal, Begins, Locked, Straying, Types, TimeTypes, EntryTypes,
       Entries, Labels
  <2>2. LogTypes'
    BY <1>1, LogSame DEF BeginLocal, Begins, Locked, Straying, Types, LogTypes
  <2>3. MarkTypes'
    BY <1>1 DEF BeginLocal, Begins, Locked, Straying, Types, MarkTypes, TimeTypes,
       Sources, Replicating, Labels
  <2>4. PeerTypes'
    BY <1>1 DEF BeginLocal, Begins, Locked, Straying, Types, PeerTypes, PeersHeld, Labels,
       EntryTypes, Entries
  <2>5. EntryTypes'
    BY <1>1 DEF BeginLocal, Begins, Locked, Straying, Types, EntryTypes, TimeTypes,
       Labels, NoEntry, Entries, Origins, Replicating
  <2>6. Labels'
    BY <1>1 DEF BeginLocal, Begins, Locked, Straying, Labels
  <2>7. PeersHeld'
    BY <1>1 DEF BeginLocal, Begins, Locked, Straying, PeersHeld, Labels, Types, EntryTypes,
       NoEntry
  <2>8. Differ'
    BY <1>1 DEF BeginLocal, Begins, Locked, Straying, Differ, Labels, PeersHeld, Types,
       EntryTypes, Apart
  <2>9. Own'
    BY <1>1 DEF BeginLocal, Begins, Locked, Straying, Own, Labels, PeersHeld, Types,
       EntryTypes, NoEntry, Replicating
  <2>10. Apart'
    BY <1>1 DEF BeginLocal, Begins, Locked, Straying, Apart, Labels
  <2> QED  BY <2>1, <2>2, <2>3, <2>4, <2>5, <2>6, <2>7, <2>8, <2>9, <2>10 DEF Types
<1>2. CASE LoadTick
  <2>1. TimeTypes'
    BY <1>2 DEF LoadTick, Load, Types, TimeTypes, EntryTypes, Entries, Labels
  <2>2. LogTypes'
    BY <1>2, LogSame DEF LoadTick, Load, Types, LogTypes
  <2>3. MarkTypes'
    BY <1>2 DEF LoadTick, Load, Types, MarkTypes, TimeTypes, Sources, Replicating, Labels
  <2>4. PeerTypes'
    BY <1>2 DEF LoadTick, Load, Types, PeerTypes, PeersHeld, Labels, EntryTypes, Entries
  <2>5. EntryTypes'
    BY <1>2 DEF LoadTick, Load, Types, EntryTypes, TimeTypes, Labels, NoEntry, Entries,
       Origins, Replicating
  <2>6. Labels'
    BY <1>2 DEF LoadTick, Load, Labels
  <2>7. PeersHeld'
    BY <1>2 DEF LoadTick, Load, PeersHeld, Labels, Types, EntryTypes, NoEntry
  <2>8. Differ'
    BY <1>2 DEF LoadTick, Load, Differ, Labels, PeersHeld, Types, EntryTypes, Apart
  <2>9. Own'
    BY <1>2 DEF LoadTick, Load, Own, Labels, PeersHeld, Types, EntryTypes, NoEntry, Replicating
  <2>10. Apart'
    BY <1>2 DEF LoadTick, Load, Apart, Labels
  <2> QED  BY <2>1, <2>2, <2>3, <2>4, <2>5, <2>6, <2>7, <2>8, <2>9, <2>10 DEF Types
<1>3. CASE StoreTick
  <2>1. TimeTypes'
    BY <1>3 DEF StoreTick, Ticked, Types, TimeTypes, EntryTypes, Entries, Labels
  <2>2. LogTypes'
    BY <1>3, LogSame DEF StoreTick, Ticked, Types, LogTypes
  <2>3. MarkTypes'
    BY <1>3 DEF StoreTick, Ticked, Types, MarkTypes, TimeTypes, Sources, Replicating,
       Labels
  <2>4. PeerTypes'
    BY <1>3 DEF StoreTick, Ticked, Types, PeerTypes, PeersHeld, Labels, EntryTypes, Entries
  <2>5. EntryTypes'
    BY <1>3 DEF StoreTick, Ticked, Types, EntryTypes, TimeTypes, Labels, NoEntry, Entries,
       Origins, Replicating
  <2>6. Labels'
    BY <1>3 DEF StoreTick, Ticked, Labels
  <2>7. PeersHeld'
    BY <1>3 DEF StoreTick, Ticked, PeersHeld, Labels, Types, EntryTypes, NoEntry
  <2>8. Differ'
    BY <1>3 DEF StoreTick, Ticked, Differ, Labels, PeersHeld, Types, EntryTypes, Apart
  <2>9. Own'
    BY <1>3 DEF StoreTick, Ticked, Own, Labels, PeersHeld, Types, EntryTypes, NoEntry,
       Replicating
  <2>10. Apart'
    BY <1>3 DEF StoreTick, Ticked, Apart, Labels
  <2> QED  BY <2>1, <2>2, <2>3, <2>4, <2>5, <2>6, <2>7, <2>8, <2>9, <2>10 DEF Types
<1>4. CASE TakeStamp
  <2>1. TimeTypes'
    BY <1>4 DEF TakeStamp, Types, TimeTypes, EntryTypes, Entries, Labels
  <2>2. LogTypes'
    BY <1>4, LogSame DEF TakeStamp, Types, LogTypes
  <2>3. MarkTypes'
    BY <1>4 DEF TakeStamp, Types, MarkTypes, TimeTypes, Sources, Replicating, Labels
  <2>4. PeerTypes'
    BY <1>4 DEF TakeStamp, Types, PeerTypes, PeersHeld, Labels, EntryTypes, Entries
  <2>5. EntryTypes'
    BY <1>4 DEF TakeStamp, Types, EntryTypes, TimeTypes, Labels, NoEntry, Entries,
       Origins, Replicating
  <2>6. Labels'
    BY <1>4 DEF TakeStamp, Labels
  <2>7. PeersHeld'
    BY <1>4 DEF TakeStamp, PeersHeld, Labels, Types, EntryTypes, NoEntry
  <2>8. Differ'
    BY <1>4 DEF TakeStamp, Differ, Labels, PeersHeld, Types, EntryTypes, Apart
  <2>9. Own'
    BY <1>4 DEF TakeStamp, Own, Labels, PeersHeld, Types, EntryTypes, NoEntry, Replicating
  <2>10. Apart'
    BY <1>4 DEF TakeStamp, Apart, Labels
  <2> QED  BY <2>1, <2>2, <2>3, <2>4, <2>5, <2>6, <2>7, <2>8, <2>9, <2>10 DEF Types
<1>5. CASE FinishLocal
  <2>1. TimeTypes'
    BY <1>5 DEF FinishLocal, Rests, Locked, Types, TimeTypes, EntryTypes, Entries, Labels
  <2>2. LogTypes'
    BY <1>5, LogSame DEF FinishLocal, Rests, Locked, Types, LogTypes
  <2>3. MarkTypes'
    BY <1>5 DEF FinishLocal, Rests, Locked, Types, MarkTypes, TimeTypes, Sources,
       Replicating, Labels
  <2>4. PeerTypes'
    BY <1>5 DEF FinishLocal, Rests, Locked, Types, PeerTypes, PeersHeld, Labels, EntryTypes,
       Entries
  <2>5. EntryTypes'
    BY <1>5 DEF FinishLocal, Rests, Locked, Types, EntryTypes, TimeTypes, Labels, NoEntry,
       Entries, Origins, Replicating
  <2>6. Labels'
    BY <1>5 DEF FinishLocal, Rests, Locked, Labels
  <2>7. PeersHeld'
    BY <1>5 DEF FinishLocal, Rests, Locked, PeersHeld, Labels, Types, EntryTypes, NoEntry
  <2>8. Differ'
    BY <1>5 DEF FinishLocal, Rests, Locked, Differ, Labels, PeersHeld, Types, EntryTypes, Apart
  <2>9. Own'
    BY <1>5 DEF FinishLocal, Rests, Locked, Own, Labels, PeersHeld, Types, EntryTypes, NoEntry,
       Replicating
  <2>10. Apart'
    BY <1>5 DEF FinishLocal, Rests, Locked, Apart, Labels
  <2> QED  BY <2>1, <2>2, <2>3, <2>4, <2>5, <2>6, <2>7, <2>8, <2>9, <2>10 DEF Types
<1>6. CASE PeerBegins
  <2>1. TimeTypes'
    BY <1>6 DEF PeerBegins, Begins, Types, TimeTypes, EntryTypes, Entries, Labels
  <2>2. LogTypes'
    BY <1>6, LogSame DEF PeerBegins, Begins, Types, LogTypes
  <2>3. MarkTypes'
    BY <1>6 DEF PeerBegins, Begins, Types, MarkTypes, TimeTypes, Sources, Replicating,
       Labels
  <2>4. PeerTypes'
    BY <1>6 DEF PeerBegins, Begins, Types, PeerTypes, PeersHeld, Labels, EntryTypes, Entries
  <2>5. EntryTypes'
    BY <1>6 DEF PeerBegins, Begins, Types, EntryTypes, TimeTypes, Labels, NoEntry,
       Entries, Origins, Replicating
  <2>6. Labels'
    BY <1>6 DEF PeerBegins, Begins, Labels
  <2>7. PeersHeld'
    BY <1>6 DEF PeerBegins, Begins, PeersHeld, Labels, Types, EntryTypes, NoEntry
  <2>8. Differ'
    BY <1>6 DEF PeerBegins, Begins, Differ, Labels, PeersHeld, Types, EntryTypes, Apart
  <2>9. Own'
    BY <1>6 DEF PeerBegins, Begins, Own, Labels, PeersHeld, Types, EntryTypes, NoEntry,
       Replicating
  <2>10. Apart'
    BY <1>6 DEF PeerBegins, Begins, Apart, Labels
  <2> QED  BY <2>1, <2>2, <2>3, <2>4, <2>5, <2>6, <2>7, <2>8, <2>9, <2>10 DEF Types
<1>7. CASE GiveUp
  <2>1. TimeTypes'
    BY <1>7 DEF GiveUp, Types, TimeTypes, EntryTypes, Entries, Labels
  <2>2. LogTypes'
    BY <1>7, LogSame DEF GiveUp, Types, LogTypes
  <2>3. MarkTypes'
    BY <1>7 DEF GiveUp, Types, MarkTypes, TimeTypes, Sources, Replicating, Labels
  <2>4. PeerTypes'
    BY <1>7 DEF GiveUp, Types, PeerTypes, PeersHeld, Labels, EntryTypes, Entries
  <2>5. EntryTypes'
    BY <1>7 DEF GiveUp, Types, EntryTypes, TimeTypes, Labels, NoEntry, Entries, Origins,
       Replicating
  <2>6. Labels'
    BY <1>7 DEF GiveUp, Labels
  <2>7. PeersHeld'
    BY <1>7 DEF GiveUp, PeersHeld, Labels, Types, EntryTypes, NoEntry
  <2>8. Differ'
    BY <1>7 DEF GiveUp, Differ, Labels, PeersHeld, Types, EntryTypes, Apart
  <2>9. Own'
    BY <1>7 DEF GiveUp, Own, Labels, PeersHeld, Types, EntryTypes, NoEntry, Replicating
  <2>10. Apart'
    BY <1>7 DEF GiveUp, Apart, Labels
  <2> QED  BY <2>1, <2>2, <2>3, <2>4, <2>5, <2>6, <2>7, <2>8, <2>9, <2>10 DEF Types
<1>8. CASE PeerFinishes
  <2>1. TimeTypes'
    <3>1. begun' = begun /\ time' = time /\ seen' = [seen EXCEPT !["peer"] = 0]
      BY <1>8 DEF PeerFinishes, MarkFinished, Unmarks, Rests
    <3> QED  BY <3>1 DEF Types, TimeTypes
  <2>2. LogTypes'
    BY <1>8, LogSame DEF PeerFinishes, MarkFinished, Unmarks, Rests, Types, LogTypes
  <2>3. MarkTypes'
    BY <1>8 DEF PeerFinishes, MarkFinished, Unmarks, Rests, Types, MarkTypes, TimeTypes,
       Sources, Replicating, Labels
  <2>4. PeerTypes'
    BY <1>8 DEF PeerFinishes, MarkFinished, Unmarks, Rests, Types, PeerTypes, PeersHeld,
       Labels, EntryTypes, Entries
  <2>5. EntryTypes'
    BY <1>8 DEF PeerFinishes, MarkFinished, Unmarks, Rests, Types, EntryTypes, TimeTypes,
       Labels, NoEntry, Entries, Origins, Replicating
  <2>6. Labels'
    BY <1>8 DEF PeerFinishes, MarkFinished, Unmarks, Rests, Labels
  <2>7. PeersHeld'
    BY <1>8 DEF PeerFinishes, MarkFinished, Unmarks, Rests, PeersHeld, Labels, Types,
       EntryTypes, NoEntry
  <2>8. Differ'
    BY <1>8 DEF PeerFinishes, MarkFinished, Unmarks, Rests, Differ, Labels, PeersHeld, Types,
       EntryTypes, Apart
  <2>9. Own'
    BY <1>8 DEF PeerFinishes, MarkFinished, Unmarks, Rests, Own, Labels, PeersHeld, Types,
       EntryTypes, NoEntry, Replicating
  <2>10. Apart'
    BY <1>8 DEF PeerFinishes, MarkFinished, Unmarks, Rests, Apart, Labels
  <2> QED  BY <2>1, <2>2, <2>3, <2>4, <2>5, <2>6, <2>7, <2>8, <2>9, <2>10 DEF Types
<1>9. CASE LateFinish
  <2>1. TimeTypes'
    BY <1>9 DEF LateFinish, MarkFinished, Unmarks, Rests, Locked, Types, TimeTypes,
       EntryTypes, Entries, Labels
  <2>2. LogTypes'
    BY <1>9, LogSame DEF LateFinish, MarkFinished, Unmarks, Rests, Locked, Types, LogTypes
  <2>3. MarkTypes'
    BY <1>9 DEF LateFinish, MarkFinished, Unmarks, Rests, Locked, Types, MarkTypes,
       TimeTypes, Sources, Replicating, Labels
  <2>4. PeerTypes'
    BY <1>9 DEF LateFinish, MarkFinished, Unmarks, Rests, Locked, Types, PeerTypes, PeersHeld,
       Labels, EntryTypes, Entries
  <2>5. EntryTypes'
    BY <1>9 DEF LateFinish, MarkFinished, Unmarks, Rests, Locked, Types, EntryTypes,
       TimeTypes, Labels, NoEntry, Entries, Origins, Replicating
  <2>6. Labels'
    BY <1>9 DEF LateFinish, MarkFinished, Unmarks, Rests, Locked, Labels
  <2>7. PeersHeld'
    BY <1>9 DEF LateFinish, MarkFinished, Unmarks, Rests, Locked, PeersHeld, Labels, Types,
       EntryTypes, NoEntry
  <2>8. Differ'
    BY <1>9 DEF LateFinish, MarkFinished, Unmarks, Rests, Locked, Differ, Labels, PeersHeld,
       Types, EntryTypes, Apart
  <2>9. Own'
    BY <1>9 DEF LateFinish, MarkFinished, Unmarks, Rests, Locked, Own, Labels, PeersHeld,
       Types, EntryTypes, NoEntry, Replicating
  <2>10. Apart'
    BY <1>9 DEF LateFinish, MarkFinished, Unmarks, Rests, Locked, Apart, Labels
  <2> QED  BY <2>1, <2>2, <2>3, <2>4, <2>5, <2>6, <2>7, <2>8, <2>9, <2>10 DEF Types
<1>10. ASSUME NEW t \in Handlers, LoadStart(t)  PROVE StateInv'
  <2>1. TimeTypes'
    BY <1>10 DEF LoadStart, Load, Locked, Types, TimeTypes, EntryTypes, Entries, Labels
  <2>2. LogTypes'
    BY <1>10, LogSame DEF LoadStart, Load, Locked, Types, LogTypes
  <2>3. MarkTypes'
    BY <1>10 DEF LoadStart, Load, Locked, Types, MarkTypes, TimeTypes, Sources,
       Replicating, Labels
  <2>4. PeerTypes'
    BY <1>10 DEF LoadStart, Load, Locked, Types, PeerTypes, PeersHeld, Labels, EntryTypes,
       Entries
  <2>5. EntryTypes'
    BY <1>10 DEF LoadStart, Load, Locked, Types, EntryTypes, TimeTypes, Labels, NoEntry,
       Entries, Origins, Replicating
  <2>6. Labels'
    BY <1>10 DEF LoadStart, Load, Locked, Labels
  <2>7. PeersHeld'
    BY <1>10 DEF LoadStart, Load, Locked, PeersHeld, Labels, Types, EntryTypes, NoEntry
  <2>8. Differ'
    BY <1>10 DEF LoadStart, Load, Locked, Differ, Labels, PeersHeld, Types, EntryTypes, Apart
  <2>9. Own'
    BY <1>10 DEF LoadStart, Load, Locked, Own, Labels, PeersHeld, Types, EntryTypes, NoEntry,
       Replicating
  <2>10. Apart'
    BY <1>10 DEF LoadStart, Load, Locked, Apart, Labels
  <2> QED  BY <2>1, <2>2, <2>3, <2>4, <2>5, <2>6, <2>7, <2>8, <2>9, <2>10 DEF Types
<1>11. ASSUME NEW t \in Handlers, StoreStart(t)  PROVE StateInv'
  <2>1. TimeTypes'
    BY <1>11, UpdatedIs DEF StoreStart, Types, TimeTypes, EntryTypes, Entries, Labels
  <2>2. LogTypes'
    BY <1>11, LogSame DEF StoreStart, Types, LogTypes
  <2>3. MarkTypes'
    BY <1>11 DEF StoreStart, Types, MarkTypes, TimeTypes, Sources, Replicating, Labels
  <2>4. PeerTypes'
    BY <1>11 DEF StoreStart, Types, PeerTypes, PeersHeld, Labels, EntryTypes, Entries
  <2>5. EntryTypes'
    BY <1>11 DEF StoreStart, Types, EntryTypes, TimeTypes, Labels, NoEntry, Entries,
       Origins, Replicating
  <2>6. Labels'
    BY <1>11 DEF StoreStart, Labels
  <2>7. PeersHeld'
    BY <1>11 DEF StoreStart, PeersHeld, Labels, Types, EntryTypes, NoEntry
  <2>8. Differ'
    BY <1>11 DEF StoreStart, Differ, Labels, PeersHeld, Types, EntryTypes, Apart
  <2>9. Own'
    BY <1>11 DEF StoreStart, Own, Labels, PeersHeld, Types, EntryTypes, NoEntry, Replicating
  <2>10. Apart'
    BY <1>11 DEF StoreStart, Apart, Labels
  <2> QED  BY <2>1, <2>2, <2>3, <2>4, <2>5, <2>6, <2>7, <2>8, <2>9, <2>10 DEF Types
<1>12. ASSUME NEW t \in Handlers, MarkStarted(t)  PROVE StateInv'
  <2>1. TimeTypes'
    BY <1>12 DEF MarkStarted, Load, Locked, Types, TimeTypes, EntryTypes, Entries, Labels
  <2>2. LogTypes'
    BY <1>12, LogSame DEF MarkStarted, Load, Locked, Types, LogTypes
  <2>3. MarkTypes'
    BY <1>12 DEF MarkStarted, Load, Locked, Types, MarkTypes, TimeTypes, Sources,
       Replicating, Labels
  <2>4. PeerTypes'
    BY <1>12 DEF MarkStarted, Load, Locked, Types, PeerTypes, PeersHeld, Labels, EntryTypes,
       Entries
  <2>5. EntryTypes'
    BY <1>12 DEF MarkStarted, Load, Locked, Types, EntryTypes, TimeTypes, Labels, NoEntry,
       Entries, Origins, Replicating
  <2>6. Labels'
    BY <1>12 DEF MarkStarted, Load, Locked, Labels
  <2>7. PeersHeld'
    BY <1>12 DEF MarkStarted, Load, Locked, PeersHeld, Labels, Types, EntryTypes, NoEntry
  <2>8. Differ'
    BY <1>12 DEF MarkStarted, Load, Locked, Differ, Labels, PeersHeld, Types, EntryTypes, Apart
  <2>9. Own'
    BY <1>12 DEF MarkStarted, Load, Locked, Own, Labels, PeersHeld, Types, EntryTypes, NoEntry,
       Replicating
  <2>10. Apart'
    BY <1>12 DEF MarkStarted, Load, Locked, Apart, Labels
  <2> QED  BY <2>1, <2>2, <2>3, <2>4, <2>5, <2>6, <2>7, <2>8, <2>9, <2>10 DEF Types
<1>13. ASSUME NEW t \in Handlers, StoreMarked(t)  PROVE StateInv'
  <2>1. TimeTypes'
    BY <1>13 DEF StoreMarked, Ticked, Rests, Types, TimeTypes, EntryTypes, Entries, Labels
  <2>2. LogTypes'
    BY <1>13, LogSame DEF StoreMarked, Ticked, Rests, Types, LogTypes
  <2>3. MarkTypes'
    BY <1>13 DEF StoreMarked, Ticked, Rests, Types, MarkTypes, TimeTypes, Sources,
       Replicating, Labels
  <2>4. PeerTypes'
    BY <1>13 DEF StoreMarked, Ticked, Rests, Types, PeerTypes, PeersHeld, Labels, EntryTypes,
       Entries
  <2>5. EntryTypes'
    BY <1>13 DEF StoreMarked, Ticked, Rests, Types, EntryTypes, TimeTypes, Labels,
       NoEntry, Entries, Origins, Replicating
  <2>6. Labels'
    BY <1>13 DEF StoreMarked, Ticked, Rests, Labels
  <2>7. PeersHeld'
    BY <1>13 DEF StoreMarked, Ticked, Rests, PeersHeld, Labels, Types, EntryTypes, NoEntry
  <2>8. Differ'
    BY <1>13 DEF StoreMarked, Ticked, Rests, Differ, Labels, PeersHeld, Types, EntryTypes,
       Apart
  <2>9. Own'
    BY <1>13 DEF StoreMarked, Ticked, Rests, Own, Labels, PeersHeld, Types, EntryTypes,
       NoEntry, Replicating
  <2>10. Apart'
    BY <1>13 DEF StoreMarked, Ticked, Rests, Apart, Labels
  <2> QED  BY <2>1, <2>2, <2>3, <2>4, <2>5, <2>6, <2>7, <2>8, <2>9, <2>10 DEF Types
<1>14. ASSUME NEW t \in Handlers, LoadReplicate(t)  PROVE StateInv'
  <2>1. TimeTypes'
    BY <1>14 DEF LoadReplicate, Load, Types, TimeTypes, EntryTypes, Entries, Labels
  <2>2. LogTypes'
    BY <1>14, LogSame DEF LoadReplicate, Load, Types, LogTypes
  <2>3. MarkTypes'
    BY <1>14 DEF LoadReplicate, Load, Types, MarkTypes, TimeTypes, Sources, Replicating,
       Labels
  <2>4. PeerTypes'
    BY <1>14 DEF LoadReplicate, Load, Types, PeerTypes, PeersHeld, Labels, EntryTypes, Entries
  <2>5. EntryTypes'
    BY <1>14 DEF LoadReplicate, Load, Types, EntryTypes, TimeTypes, Labels, NoEntry,
       Entries, Origins, Replicating
  <2>6. Labels'
    BY <1>14 DEF LoadReplicate, Load, Labels
  <2>7. PeersHeld'
    BY <1>14 DEF LoadReplicate, Load, PeersHeld, Labels, Types, EntryTypes, NoEntry
  <2>8. Differ'
    BY <1>14 DEF LoadReplicate, Load, Differ, Labels, PeersHeld, Types, EntryTypes, Apart
  <2>9. Own'
    BY <1>14 DEF LoadReplicate, Load, Own, Labels, PeersHeld, Types, EntryTypes, NoEntry,
       Replicating
  <2>10. Apart'
    BY <1>14 DEF LoadReplicate, Load, Apart, Labels
  <2> QED  BY <2>1, <2>2, <2>3, <2>4, <2>5, <2>6, <2>7, <2>8, <2>9, <2>10 DEF Types
<1>15. ASSUME NEW t \in Handlers, StoreReplicate(t)  PROVE StateInv'
  <2>1. TimeTypes'
    BY <1>15, UpdatedIs DEF StoreReplicate, Types, TimeTypes, EntryTypes, Entries, Labels
  <2>2. LogTypes'
    BY <1>15, LogSame DEF StoreReplicate, Types, LogTypes
  <2>3. MarkTypes'
    BY <1>15 DEF StoreReplicate, Types, MarkTypes, TimeTypes, Sources, Replicating, Labels
  <2>4. PeerTypes'
    BY <1>15 DEF StoreReplicate, Types, PeerTypes, PeersHeld, Labels, EntryTypes, Entries
  <2>5. EntryTypes'
    BY <1>15 DEF StoreReplicate, Types, EntryTypes, TimeTypes, Labels, NoEntry, Entries,
       Origins, Replicating
  <2>6. Labels'
    BY <1>15 DEF StoreReplicate, Labels
  <2>7. PeersHeld'
    BY <1>15 DEF StoreReplicate, PeersHeld, Labels, Types, EntryTypes, NoEntry
  <2>8. Differ'
    BY <1>15 DEF StoreReplicate, Differ, Labels, PeersHeld, Types, EntryTypes, Apart
  <2>9. Own'
    BY <1>15 DEF StoreReplicate, Own, Labels, PeersHeld, Types, EntryTypes, NoEntry,
       Replicating
  <2>10. Apart'
    BY <1>15 DEF StoreReplicate, Apart, Labels
  <2> QED  BY <2>1, <2>2, <2>3, <2>4, <2>5, <2>6, <2>7, <2>8, <2>9, <2>10 DEF Types
<1>16. CASE BeginSync
  <2>1. TimeTypes'
    BY <1>16 DEF BeginSync, Begins, SourceOf, IsFirst, Types, TimeTypes, EntryTypes,
       Entries, Labels
  <2>2. LogTypes'
    BY <1>16, LogSame DEF BeginSync, Begins, SourceOf, IsFirst, Types, LogTypes
  <2>3. MarkTypes'
    BY <1>16 DEF BeginSync, Begins, SourceOf, IsFirst, Types, MarkTypes, TimeTypes,
       Sources, Replicating, Labels
  <2>4. PeerTypes'
    BY <1>16 DEF BeginSync, Begins, SourceOf, IsFirst, Types, PeerTypes, PeersHeld, Labels,
       EntryTypes, Entries
  <2>5. EntryTypes'
    <3>1. entries' \subseteq Exported \cup LogSet /\ entry' = entry /\ unguarded' = unguarded
      BY <1>16 DEF BeginSync
    <3>2. LogSet \subseteq Entries
      BY LogSetTyped DEF Types, LogTypes
    <3>3. Exported \subseteq Entries
      BY DEF Types, PeerTypes, TimeTypes, Exported, Entries, Origins
    <3> QED  BY <3>1, <3>2, <3>3 DEF Types, EntryTypes
  <2>6. Labels'
    BY <1>16 DEF BeginSync, Begins, SourceOf, IsFirst, Labels
  <2>7. PeersHeld'
    BY <1>16 DEF BeginSync, Begins, SourceOf, IsFirst, PeersHeld, Labels, Types, EntryTypes,
       NoEntry
  <2>8. Differ'
    BY <1>16 DEF BeginSync, Begins, SourceOf, IsFirst, Differ, Labels, PeersHeld, Types,
       EntryTypes, Apart
  <2>9. Own'
    BY <1>16 DEF BeginSync, Begins, SourceOf, IsFirst, Own, Labels, PeersHeld, Types,
       EntryTypes, NoEntry, Replicating
  <2>10. Apart'
    BY <1>16 DEF BeginSync, Begins, SourceOf, IsFirst, Apart, Labels
  <2> QED  BY <2>1, <2>2, <2>3, <2>4, <2>5, <2>6, <2>7, <2>8, <2>9, <2>10 DEF Types
<1>17. CASE NextEntry
  <2>1. TimeTypes'
    BY <1>17 DEF NextEntry, Load, IsFirst, Types, TimeTypes, EntryTypes, Entries, Labels
  <2>2. LogTypes'
    BY <1>17, LogSame DEF NextEntry, Load, IsFirst, Types, LogTypes
  <2>3. MarkTypes'
    BY <1>17 DEF NextEntry, Load, IsFirst, Types, MarkTypes, TimeTypes, Sources,
       Replicating, Labels
  <2>4. PeerTypes'
    BY <1>17 DEF NextEntry, Load, IsFirst, Types, PeerTypes, PeersHeld, Labels, EntryTypes,
       Entries
  <2>5. EntryTypes'
    BY <1>17 DEF NextEntry, Load, IsFirst, Types, EntryTypes, TimeTypes, Labels, NoEntry,
       Entries, Origins, Replicating
  <2>6. Labels'
    BY <1>17 DEF NextEntry, Load, IsFirst, Labels
  <2>7. PeersHeld'
    BY <1>17 DEF NextEntry, Load, IsFirst, PeersHeld, Labels, Types, EntryTypes, NoEntry
  <2>8. Differ'
    BY <1>17 DEF NextEntry, Load, IsFirst, Differ, Labels, PeersHeld, Types, EntryTypes, Apart
  <2>9. Own'
    BY <1>17 DEF NextEntry, Load, IsFirst, Own, Labels, PeersHeld, Types, EntryTypes, NoEntry,
       Replicating
  <2>10. Apart'
    BY <1>17 DEF NextEntry, Load, IsFirst, Apart, Labels
  <2> QED  BY <2>1, <2>2, <2>3, <2>4, <2>5, <2>6, <2>7, <2>8, <2>9, <2>10 DEF Types
<1>18. CASE StoreSync
  <2>1. TimeTypes'
    BY <1>18, UpdatedIs DEF StoreSync, Types, TimeTypes, EntryTypes, Entries, Labels
  <2>2. LogTypes'
    BY <1>18, LogSame DEF StoreSync, Types, LogTypes
  <2>3. MarkTypes'
    BY <1>18 DEF StoreSync, Types, MarkTypes, TimeTypes, Sources, Replicating, Labels
  <2>4. PeerTypes'
    BY <1>18 DEF StoreSync, Types, PeerTypes, PeersHeld, Labels, EntryTypes, Entries
  <2>5. EntryTypes'
    BY <1>18 DEF StoreSync, Types, EntryTypes, TimeTypes, Labels, NoEntry, Entries,
       Origins, Replicating
  <2>6. Labels'
    BY <1>18 DEF StoreSync, Labels
  <2>7. PeersHeld'
    BY <1>18 DEF StoreSync, PeersHeld, Labels, Types, EntryTypes, NoEntry
  <2>8. Differ'
    BY <1>18 DEF StoreSync, Differ, Labels, PeersHeld, Types, EntryTypes, Apart
  <2>9. Own'
    BY <1>18 DEF StoreSync, Own, Labels, PeersHeld, Types, EntryTypes, NoEntry, Replicating
  <2>10. Apart'
    BY <1>18 DEF StoreSync, Apart, Labels
  <2> QED  BY <2>1, <2>2, <2>3, <2>4, <2>5, <2>6, <2>7, <2>8, <2>9, <2>10 DEF Types
<1>19. CASE FinishSync
  <2>1. TimeTypes'
    BY <1>19 DEF FinishSync, Unmarks, Rests, Locked, Types, TimeTypes, EntryTypes,
       Entries, Labels
  <2>2. LogTypes'
    BY <1>19, LogSame DEF FinishSync, Unmarks, Rests, Locked, Types, LogTypes
  <2>3. MarkTypes'
    BY <1>19 DEF FinishSync, Unmarks, Rests, Locked, Types, MarkTypes, TimeTypes, Sources,
       Replicating, Labels
  <2>4. PeerTypes'
    BY <1>19 DEF FinishSync, Unmarks, Rests, Locked, Types, PeerTypes, PeersHeld, Labels,
       EntryTypes, Entries
  <2>5. EntryTypes'
    BY <1>19 DEF FinishSync, Unmarks, Rests, Locked, Types, EntryTypes, TimeTypes, Labels,
       NoEntry, Entries, Origins, Replicating
  <2>6. Labels'
    BY <1>19 DEF FinishSync, Unmarks, Rests, Locked, Labels
  <2>7. PeersHeld'
    BY <1>19 DEF FinishSync, Unmarks, Rests, Locked, PeersHeld, Labels, Types, EntryTypes,
       NoEntry
  <2>8. Differ'
    BY <1>19 DEF FinishSync, Unmarks, Rests, Locked, Differ, Labels, PeersHeld, Types,
       EntryTypes, Apart
  <2>9. Own'
    BY <1>19 DEF FinishSync, Unmarks, Rests, Locked, Own, Labels, PeersHeld, Types, EntryTypes,
       NoEntry, Replicating
  <2>10. Apart'
    BY <1>19 DEF FinishSync, Unmarks, Rests, Locked, Apart, Labels
  <2> QED  BY <2>1, <2>2, <2>3, <2>4, <2>5, <2>6, <2>7, <2>8, <2>9, <2>10 DEF Types
<1>20. ASSUME NEW t \in Threads, TestKey(t)  PROVE StateInv'
  <2>1. TimeTypes'
    BY <1>20 DEF TestKey, Records, Rests, Types, TimeTypes, EntryTypes, Entries, Labels
  <2>2. LogTypes'
    BY <1>20, LogSame DEF TestKey, Records, Rests, Types, LogTypes
  <2>3. MarkTypes'
    BY <1>20 DEF TestKey, Records, Rests, Types, MarkTypes, TimeTypes, Sources,
       Replicating, Labels
  <2>4. PeerTypes'
    BY <1>20 DEF TestKey, Records, Rests, Types, PeerTypes, PeersHeld, Labels, EntryTypes,
       Entries
  <2>5. EntryTypes'
    BY <1>20 DEF TestKey, Records, Rests, Types, EntryTypes, TimeTypes, Labels, NoEntry,
       Entries, Origins, Replicating
  <2>6. Labels'
    BY <1>20 DEF TestKey, Records, Rests, Labels
  <2>7. PeersHeld'
    BY <1>20 DEF TestKey, Records, Rests, PeersHeld, Labels, Types, EntryTypes, NoEntry
  <2>8. Differ'
    BY <1>20 DEF TestKey, Records, Rests, Differ, Labels, PeersHeld, Types, EntryTypes, Apart
  <2>9. Own'
    BY <1>20 DEF TestKey, Records, Rests, Own, Labels, PeersHeld, Types, EntryTypes, NoEntry,
       Replicating
  <2>10. Apart'
    BY <1>20 DEF TestKey, Records, Rests, Apart, Labels
  <2> QED  BY <2>1, <2>2, <2>3, <2>4, <2>5, <2>6, <2>7, <2>8, <2>9, <2>10 DEF Types
<1>21. ASSUME NEW t \in Threads, AppendEntry(t)  PROVE StateInv'
  <2>1. TimeTypes'
    BY <1>21 DEF AppendEntry, Records, Rests, Types, TimeTypes, EntryTypes, Entries,
       Labels
  <2>2. LogTypes'
    <3>1. entry[t] \in Entries /\ log' = Append(log, entry[t]) /\ keys' = keys \cup {entry[t]}
      BY <1>21 DEF AppendEntry, Types, EntryTypes
    <3> QED  BY <3>1, Appended DEF Types, LogTypes
  <2>3. MarkTypes'
    BY <1>21 DEF AppendEntry, Records, Rests, Types, MarkTypes, TimeTypes, Sources,
       Replicating, Labels
  <2>4. PeerTypes'
    BY <1>21 DEF AppendEntry, Records, Rests, Types, PeerTypes, PeersHeld, Labels, EntryTypes,
       Entries
  <2>5. EntryTypes'
    BY <1>21 DEF AppendEntry, Records, Rests, Types, EntryTypes, TimeTypes, Labels,
       NoEntry, Entries, Origins, Replicating
  <2>6. Labels'
    BY <1>21 DEF AppendEntry, Records, Rests, Labels
  <2>7. PeersHeld'
    BY <1>21 DEF AppendEntry, Records, Rests, PeersHeld, Labels, Types, EntryTypes, NoEntry
  <2>8. Differ'
    BY <1>21 DEF AppendEntry, Records, Rests, Differ, Labels, PeersHeld, Types, EntryTypes,
       Apart
  <2>9. Own'
    BY <1>21 DEF AppendEntry, Records, Rests, Own, Labels, PeersHeld, Types, EntryTypes,
       NoEntry, Replicating
  <2>10. Apart'
    BY <1>21 DEF AppendEntry, Records, Rests, Apart, Labels
  <2> QED  BY <2>1, <2>2, <2>3, <2>4, <2>5, <2>6, <2>7, <2>8, <2>9, <2>10 DEF Types
<1>22. CASE UNCHANGED clockThreadVars
  BY <1>22, LogSame DEF clockThreadVars, Types, TimeTypes, LogTypes, MarkTypes, PeerTypes, EntryTypes,
     Labels, PeersHeld, Differ, Own, Apart
<1> QED
  BY <1>1, <1>2, <1>3, <1>4, <1>5, <1>6, <1>7, <1>8, <1>9, <1>10, <1>11, <1>12, <1>13,
     <1>14, <1>15, <1>16, <1>17, <1>18, <1>19, <1>20, <1>21, <1>22 DEF ClockNext

-----------------------------------------------------------------------------
(* Clock and log: an entry is appended once.                                *)

\* What the sync still applies
Pending ==
  entries \cup (IF pc["sync"] \in {"store_sync", "record", "append"}
                THEN {entry["sync"]} ELSE {})

\* It is known here or at a peer.
PendingKnown == Pending \subseteq keys \cup Exported

\* The peer's entries here are those of its writes.
KeysBegun == \A e \in keys : e[1] = "peer" => e[2] \in begun

\* A start call comes first.
StartsFirst ==
  pc["peer"] \in StartStage =>
    /\ entry["peer"] \notin keys
    /\ entry["peer"][2] \notin finished \cup exported
    /\ pc["peer"] = "store_marked" => "peer" \in marks

\* The mark stands while the replicate call goes on, and keeps the entry out of syncs.
MarkGuards ==
  \A t \in Handlers : pc[t] \in ReplicateStage /\ entry[t] \notin unguarded =>
    "peer" \in marks /\ entry[t] \notin Pending

\* Nobody appends what is there, as long as the mark stood.
AppendsNew ==
  \A t \in Threads : pc[t] = "append" => entry[t] \notin keys \/ entry[t] \in unguarded

OnceInv ==
  StateInv /\ PendingKnown /\ KeysBegun /\ StartsFirst /\ MarkGuards /\ AppendsNew /\ LogOnce

LEMMA OnceInit == ClockInit => OnceInv
<1> SUFFICES ASSUME ClockInit  PROVE OnceInv
  OBVIOUS
<1> USE DEF ClockInit, Threads, Handlers
<1>1. StateInv
  BY StateInit
<1>2. PendingKnown /\ KeysBegun /\ StartsFirst /\ MarkGuards /\ AppendsNew
  BY DEF PendingKnown, Pending, KeysBegun, StartsFirst, MarkGuards, AppendsNew, StartStage,
         ReplicateStage
<1>3. LogOnce
  BY DEF LogOnce
<1> QED  BY <1>1, <1>2, <1>3 DEF OnceInv

LEMMA LogOnceKept ==
  ASSUME LogOnce, UNCHANGED log, unguarded \subseteq unguarded'  PROVE LogOnce'
BY DEF LogOnce

LEMMA OnceStep == OnceInv /\ [ClockNext]_clockThreadVars => OnceInv'
<1> SUFFICES ASSUME OnceInv, [ClockNext]_clockThreadVars  PROVE OnceInv'
  OBVIOUS
<1>0. StateInv'
  BY StateStep DEF OnceInv
<1> USE ClockAssumption DEF OnceInv, StateInv, Types, Labels, PeersHeld, Goes, coordinatorVars, syncVars,
        peerVars, ghostVars, Threads, Handlers, Label, LocalLabel, PeerLabel, LateLabel,
        SyncLabel, StartStage, ReplicateStage
<1>1. CASE BeginLocal
  <2>1. PendingKnown'
    BY <1>1 DEF BeginLocal, Begins, Locked, Straying, PendingKnown, Pending, Exported,
       Replicating, EntryTypes, Entries, Origins
  <2>2. KeysBegun'
    BY <1>1 DEF BeginLocal, Begins, Locked, Straying, KeysBegun, PendingKnown, Pending,
       Exported, PeerTypes, Own, EntryTypes, Entries, Origins
  <2>3. StartsFirst'
    BY <1>1 DEF BeginLocal, Begins, Locked, Straying, StartsFirst, PendingKnown, Pending,
       Exported, KeysBegun, Differ, Apart, PeerTypes, Own, EntryTypes, Entries, Origins
  <2>4. MarkGuards'
    BY <1>1 DEF BeginLocal, Begins, Locked, Straying, MarkGuards, StartsFirst,
       PendingKnown, Pending, Exported, Replicating, Apart, EntryTypes, Entries, Origins
  <2>5. AppendsNew'
    BY <1>1 DEF BeginLocal, Begins, Locked, Straying, AppendsNew, MarkGuards, Pending,
       PendingKnown, Exported, Differ, Own, EntryTypes, Entries, Origins
  <2>6. LogOnce'
    BY <1>1, LogOnceKept DEF BeginLocal, Begins, Locked, Straying
  <2> QED  BY <1>0, <2>1, <2>2, <2>3, <2>4, <2>5, <2>6
<1>2. CASE LoadTick
  <2>1. PendingKnown'
    BY <1>2 DEF LoadTick, Load, PendingKnown, Pending, Exported, Replicating, EntryTypes,
       Entries, Origins
  <2>2. KeysBegun'
    BY <1>2 DEF LoadTick, Load, KeysBegun, PendingKnown, Pending, Exported, PeerTypes,
       Own, EntryTypes, Entries, Origins
  <2>3. StartsFirst'
    BY <1>2 DEF LoadTick, Load, StartsFirst, PendingKnown, Pending, Exported, KeysBegun,
       Differ, Apart, PeerTypes, Own, EntryTypes, Entries, Origins
  <2>4. MarkGuards'
    BY <1>2 DEF LoadTick, Load, MarkGuards, StartsFirst, PendingKnown, Pending, Exported,
       Replicating, Apart, EntryTypes, Entries, Origins
  <2>5. AppendsNew'
    BY <1>2 DEF LoadTick, Load, AppendsNew, MarkGuards, Pending, PendingKnown, Exported,
       Differ, Own, EntryTypes, Entries, Origins
  <2>6. LogOnce'
    BY <1>2, LogOnceKept DEF LoadTick, Load
  <2> QED  BY <1>0, <2>1, <2>2, <2>3, <2>4, <2>5, <2>6
<1>3. CASE StoreTick
  <2>1. PendingKnown'
    BY <1>3 DEF StoreTick, Ticked, PendingKnown, Pending, Exported, Replicating,
       EntryTypes, Entries, Origins
  <2>2. KeysBegun'
    BY <1>3 DEF StoreTick, Ticked, KeysBegun, PendingKnown, Pending, Exported, PeerTypes,
       Own, EntryTypes, Entries, Origins
  <2>3. StartsFirst'
    BY <1>3 DEF StoreTick, Ticked, StartsFirst, PendingKnown, Pending, Exported,
       KeysBegun, Differ, Apart, PeerTypes, Own, EntryTypes, Entries, Origins
  <2>4. MarkGuards'
    BY <1>3 DEF StoreTick, Ticked, MarkGuards, StartsFirst, PendingKnown, Pending,
       Exported, Replicating, Apart, EntryTypes, Entries, Origins
  <2>5. AppendsNew'
    BY <1>3 DEF StoreTick, Ticked, AppendsNew, MarkGuards, Pending, PendingKnown,
       Exported, Differ, Own, EntryTypes, Entries, Origins
  <2>6. LogOnce'
    BY <1>3, LogOnceKept DEF StoreTick, Ticked
  <2> QED  BY <1>0, <2>1, <2>2, <2>3, <2>4, <2>5, <2>6
<1>4. CASE TakeStamp
  <2>1. PendingKnown'
    BY <1>4 DEF TakeStamp, PendingKnown, Pending, Exported, Replicating, EntryTypes,
       Entries, Origins
  <2>2. KeysBegun'
    BY <1>4 DEF TakeStamp, KeysBegun, PendingKnown, Pending, Exported, PeerTypes, Own,
       EntryTypes, Entries, Origins
  <2>3. StartsFirst'
    BY <1>4 DEF TakeStamp, StartsFirst, PendingKnown, Pending, Exported, KeysBegun,
       Differ, Apart, PeerTypes, Own, EntryTypes, Entries, Origins
  <2>4. MarkGuards'
    BY <1>4 DEF TakeStamp, MarkGuards, StartsFirst, PendingKnown, Pending, Exported,
       Replicating, Apart, EntryTypes, Entries, Origins
  <2>5. AppendsNew'
    BY <1>4 DEF TakeStamp, AppendsNew, MarkGuards, Pending, PendingKnown, Exported,
       Differ, Own, EntryTypes, Entries, Origins
  <2>6. LogOnce'
    BY <1>4, LogOnceKept DEF TakeStamp
  <2> QED  BY <1>0, <2>1, <2>2, <2>3, <2>4, <2>5, <2>6
<1>5. CASE FinishLocal
  <2>1. PendingKnown'
    BY <1>5 DEF FinishLocal, Rests, Locked, PendingKnown, Pending, Exported, Replicating,
       EntryTypes, Entries, Origins
  <2>2. KeysBegun'
    BY <1>5 DEF FinishLocal, Rests, Locked, KeysBegun, PendingKnown, Pending, Exported,
       PeerTypes, Own, EntryTypes, Entries, Origins
  <2>3. StartsFirst'
    BY <1>5 DEF FinishLocal, Rests, Locked, StartsFirst, PendingKnown, Pending, Exported,
       KeysBegun, Differ, Apart, PeerTypes, Own, EntryTypes, Entries, Origins
  <2>4. MarkGuards'
    BY <1>5 DEF FinishLocal, Rests, Locked, MarkGuards, StartsFirst, PendingKnown,
       Pending, Exported, Replicating, Apart, EntryTypes, Entries, Origins
  <2>5. AppendsNew'
    BY <1>5 DEF FinishLocal, Rests, Locked, AppendsNew, MarkGuards, Pending, PendingKnown,
       Exported, Differ, Own, EntryTypes, Entries, Origins
  <2>6. LogOnce'
    BY <1>5, LogOnceKept DEF FinishLocal, Rests, Locked
  <2> QED  BY <1>0, <2>1, <2>2, <2>3, <2>4, <2>5, <2>6
<1>6. CASE PeerBegins
  <2>1. PendingKnown'
    BY <1>6 DEF PeerBegins, Begins, PendingKnown, Pending, Exported, Replicating,
       EntryTypes, Entries, Origins
  <2>2. KeysBegun'
    BY <1>6 DEF PeerBegins, Begins, KeysBegun, PendingKnown, Pending, Exported, PeerTypes,
       Own, EntryTypes, Entries, Origins
  <2>3. StartsFirst'
    BY <1>6 DEF PeerBegins, Begins, StartsFirst, PendingKnown, Pending, Exported,
       KeysBegun, Differ, Apart, PeerTypes, Own, EntryTypes, Entries, Origins
  <2>4. MarkGuards'
    BY <1>6 DEF PeerBegins, Begins, MarkGuards, StartsFirst, PendingKnown, Pending,
       Exported, Replicating, Apart, EntryTypes, Entries, Origins
  <2>5. AppendsNew'
    BY <1>6 DEF PeerBegins, Begins, AppendsNew, MarkGuards, Pending, PendingKnown,
       Exported, Differ, Own, EntryTypes, Entries, Origins
  <2>6. LogOnce'
    BY <1>6, LogOnceKept DEF PeerBegins, Begins
  <2> QED  BY <1>0, <2>1, <2>2, <2>3, <2>4, <2>5, <2>6
<1>7. CASE GiveUp
  <2>1. PendingKnown'
    BY <1>7 DEF GiveUp, PendingKnown, Pending, Exported, Replicating, EntryTypes, Entries,
       Origins
  <2>2. KeysBegun'
    BY <1>7 DEF GiveUp, KeysBegun, PendingKnown, Pending, Exported, PeerTypes, Own,
       EntryTypes, Entries, Origins
  <2>3. StartsFirst'
    BY <1>7 DEF GiveUp, StartsFirst, PendingKnown, Pending, Exported, KeysBegun, Differ,
       Apart, PeerTypes, Own, EntryTypes, Entries, Origins
  <2>4. MarkGuards'
    BY <1>7 DEF GiveUp, MarkGuards, StartsFirst, PendingKnown, Pending, Exported,
       Replicating, Apart, EntryTypes, Entries, Origins
  <2>5. AppendsNew'
    BY <1>7 DEF GiveUp, AppendsNew, MarkGuards, Pending, PendingKnown, Exported, Differ,
       Own, EntryTypes, Entries, Origins
  <2>6. LogOnce'
    BY <1>7, LogOnceKept DEF GiveUp
  <2> QED  BY <1>0, <2>1, <2>2, <2>3, <2>4, <2>5, <2>6
<1>8. CASE PeerFinishes
  <2>1. PendingKnown'
    BY <1>8 DEF PeerFinishes, MarkFinished, Unmarks, Rests, PendingKnown, Pending,
       Exported, Replicating, EntryTypes, Entries, Origins
  <2>2. KeysBegun'
    BY <1>8 DEF PeerFinishes, MarkFinished, Unmarks, Rests, KeysBegun, PendingKnown,
       Pending, Exported, PeerTypes, Own, EntryTypes, Entries, Origins
  <2>3. StartsFirst'
    BY <1>8 DEF PeerFinishes, MarkFinished, Unmarks, Rests, StartsFirst, PendingKnown,
       Pending, Exported, KeysBegun, Differ, Apart, PeerTypes, Own, EntryTypes, Entries,
       Origins
  <2>4. MarkGuards'
    BY <1>8 DEF PeerFinishes, MarkFinished, Unmarks, Rests, MarkGuards, StartsFirst,
       PendingKnown, Pending, Exported, Replicating, Apart, EntryTypes, Entries, Origins
  <2>5. AppendsNew'
    BY <1>8 DEF PeerFinishes, MarkFinished, Unmarks, Rests, AppendsNew, MarkGuards,
       Pending, PendingKnown, Exported, Differ, Own, EntryTypes, Entries, Origins
  <2>6. LogOnce'
    BY <1>8, LogOnceKept DEF PeerFinishes, MarkFinished, Unmarks, Rests
  <2> QED  BY <1>0, <2>1, <2>2, <2>3, <2>4, <2>5, <2>6
<1>9. CASE LateFinish
  <2>1. PendingKnown'
    BY <1>9 DEF LateFinish, MarkFinished, Unmarks, Rests, Locked, PendingKnown, Pending,
       Exported, Replicating, EntryTypes, Entries, Origins
  <2>2. KeysBegun'
    BY <1>9 DEF LateFinish, MarkFinished, Unmarks, Rests, Locked, KeysBegun, PendingKnown,
       Pending, Exported, PeerTypes, Own, EntryTypes, Entries, Origins
  <2>3. StartsFirst'
    BY <1>9 DEF LateFinish, MarkFinished, Unmarks, Rests, Locked, StartsFirst,
       PendingKnown, Pending, Exported, KeysBegun, Differ, Apart, PeerTypes, Own,
       EntryTypes, Entries, Origins
  <2>4. MarkGuards'
    BY <1>9 DEF LateFinish, MarkFinished, Unmarks, Rests, Locked, MarkGuards, StartsFirst,
       PendingKnown, Pending, Exported, Replicating, Apart, EntryTypes, Entries, Origins
  <2>5. AppendsNew'
    BY <1>9 DEF LateFinish, MarkFinished, Unmarks, Rests, Locked, AppendsNew, MarkGuards,
       Pending, PendingKnown, Exported, Differ, Own, EntryTypes, Entries, Origins
  <2>6. LogOnce'
    BY <1>9, LogOnceKept DEF LateFinish, MarkFinished, Unmarks, Rests, Locked
  <2> QED  BY <1>0, <2>1, <2>2, <2>3, <2>4, <2>5, <2>6
<1>10. ASSUME NEW t \in Handlers, LoadStart(t)  PROVE OnceInv'
  <2>1. PendingKnown'
    BY <1>10 DEF LoadStart, Load, Locked, PendingKnown, Pending, Exported, Replicating,
       EntryTypes, Entries, Origins
  <2>2. KeysBegun'
    BY <1>10 DEF LoadStart, Load, Locked, KeysBegun, PendingKnown, Pending, Exported,
       PeerTypes, Own, EntryTypes, Entries, Origins
  <2>3. StartsFirst'
    BY <1>10 DEF LoadStart, Load, Locked, StartsFirst, PendingKnown, Pending, Exported,
       KeysBegun, Differ, Apart, PeerTypes, Own, EntryTypes, Entries, Origins
  <2>4. MarkGuards'
    BY <1>10 DEF LoadStart, Load, Locked, MarkGuards, StartsFirst, PendingKnown, Pending,
       Exported, Replicating, Apart, EntryTypes, Entries, Origins
  <2>5. AppendsNew'
    BY <1>10 DEF LoadStart, Load, Locked, AppendsNew, MarkGuards, Pending, PendingKnown,
       Exported, Differ, Own, EntryTypes, Entries, Origins
  <2>6. LogOnce'
    BY <1>10, LogOnceKept DEF LoadStart, Load, Locked
  <2> QED  BY <1>0, <2>1, <2>2, <2>3, <2>4, <2>5, <2>6
<1>11. ASSUME NEW t \in Handlers, StoreStart(t)  PROVE OnceInv'
  <2>1. PendingKnown'
    BY <1>11 DEF StoreStart, PendingKnown, Pending, Exported, Replicating, EntryTypes,
       Entries, Origins
  <2>2. KeysBegun'
    BY <1>11 DEF StoreStart, KeysBegun, PendingKnown, Pending, Exported, PeerTypes, Own,
       EntryTypes, Entries, Origins
  <2>3. StartsFirst'
    BY <1>11 DEF StoreStart, StartsFirst, PendingKnown, Pending, Exported, KeysBegun,
       Differ, Apart, PeerTypes, Own, EntryTypes, Entries, Origins
  <2>4. MarkGuards'
    BY <1>11 DEF StoreStart, MarkGuards, StartsFirst, PendingKnown, Pending, Exported,
       Replicating, Apart, EntryTypes, Entries, Origins
  <2>5. AppendsNew'
    BY <1>11 DEF StoreStart, AppendsNew, MarkGuards, Pending, PendingKnown, Exported,
       Differ, Own, EntryTypes, Entries, Origins
  <2>6. LogOnce'
    BY <1>11, LogOnceKept DEF StoreStart
  <2> QED  BY <1>0, <2>1, <2>2, <2>3, <2>4, <2>5, <2>6
<1>12. ASSUME NEW t \in Handlers, MarkStarted(t)  PROVE OnceInv'
  <2>1. PendingKnown'
    BY <1>12 DEF MarkStarted, Load, Locked, PendingKnown, Pending, Exported, Replicating,
       EntryTypes, Entries, Origins
  <2>2. KeysBegun'
    BY <1>12 DEF MarkStarted, Load, Locked, KeysBegun, PendingKnown, Pending, Exported,
       PeerTypes, Own, EntryTypes, Entries, Origins
  <2>3. StartsFirst'
    BY <1>12 DEF MarkStarted, Load, Locked, StartsFirst, PendingKnown, Pending, Exported,
       KeysBegun, Differ, Apart, PeerTypes, Own, EntryTypes, Entries, Origins
  <2>4. MarkGuards'
    BY <1>12 DEF MarkStarted, Load, Locked, MarkGuards, StartsFirst, PendingKnown,
       Pending, Exported, Replicating, Apart, EntryTypes, Entries, Origins
  <2>5. AppendsNew'
    BY <1>12 DEF MarkStarted, Load, Locked, AppendsNew, MarkGuards, Pending, PendingKnown,
       Exported, Differ, Own, EntryTypes, Entries, Origins
  <2>6. LogOnce'
    BY <1>12, LogOnceKept DEF MarkStarted, Load, Locked
  <2> QED  BY <1>0, <2>1, <2>2, <2>3, <2>4, <2>5, <2>6
<1>13. ASSUME NEW t \in Handlers, StoreMarked(t)  PROVE OnceInv'
  <2>1. PendingKnown'
    BY <1>13 DEF StoreMarked, Ticked, Rests, PendingKnown, Pending, Exported, Replicating,
       EntryTypes, Entries, Origins
  <2>2. KeysBegun'
    BY <1>13 DEF StoreMarked, Ticked, Rests, KeysBegun, PendingKnown, Pending, Exported,
       PeerTypes, Own, EntryTypes, Entries, Origins
  <2>3. StartsFirst'
    BY <1>13 DEF StoreMarked, Ticked, Rests, StartsFirst, PendingKnown, Pending, Exported,
       KeysBegun, Differ, Apart, PeerTypes, Own, EntryTypes, Entries, Origins
  <2>4. MarkGuards'
    BY <1>13 DEF StoreMarked, Ticked, Rests, MarkGuards, StartsFirst, PendingKnown,
       Pending, Exported, Replicating, Apart, EntryTypes, Entries, Origins
  <2>5. AppendsNew'
    BY <1>13 DEF StoreMarked, Ticked, Rests, AppendsNew, MarkGuards, Pending,
       PendingKnown, Exported, Differ, Own, EntryTypes, Entries, Origins
  <2>6. LogOnce'
    BY <1>13, LogOnceKept DEF StoreMarked, Ticked, Rests
  <2> QED  BY <1>0, <2>1, <2>2, <2>3, <2>4, <2>5, <2>6
<1>14. ASSUME NEW t \in Handlers, LoadReplicate(t)  PROVE OnceInv'
  <2>1. PendingKnown'
    BY <1>14 DEF LoadReplicate, Load, PendingKnown, Pending, Exported, Replicating,
       EntryTypes, Entries, Origins
  <2>2. KeysBegun'
    BY <1>14 DEF LoadReplicate, Load, KeysBegun, PendingKnown, Pending, Exported,
       PeerTypes, Own, EntryTypes, Entries, Origins
  <2>3. StartsFirst'
    BY <1>14 DEF LoadReplicate, Load, StartsFirst, PendingKnown, Pending, Exported,
       KeysBegun, Differ, Apart, PeerTypes, Own, EntryTypes, Entries, Origins
  <2>4. MarkGuards'
    BY <1>14 DEF LoadReplicate, Load, MarkGuards, StartsFirst, PendingKnown, Pending,
       Exported, Replicating, Apart, EntryTypes, Entries, Origins
  <2>5. AppendsNew'
    BY <1>14 DEF LoadReplicate, Load, AppendsNew, MarkGuards, Pending, PendingKnown,
       Exported, Differ, Own, EntryTypes, Entries, Origins
  <2>6. LogOnce'
    BY <1>14, LogOnceKept DEF LoadReplicate, Load
  <2> QED  BY <1>0, <2>1, <2>2, <2>3, <2>4, <2>5, <2>6
<1>15. ASSUME NEW t \in Handlers, StoreReplicate(t)  PROVE OnceInv'
  <2>1. PendingKnown'
    BY <1>15 DEF StoreReplicate, PendingKnown, Pending, Exported, Replicating, EntryTypes,
       Entries, Origins
  <2>2. KeysBegun'
    BY <1>15 DEF StoreReplicate, KeysBegun, PendingKnown, Pending, Exported, PeerTypes,
       Own, EntryTypes, Entries, Origins
  <2>3. StartsFirst'
    BY <1>15 DEF StoreReplicate, StartsFirst, PendingKnown, Pending, Exported, KeysBegun,
       Differ, Apart, PeerTypes, Own, EntryTypes, Entries, Origins
  <2>4. MarkGuards'
    BY <1>15 DEF StoreReplicate, MarkGuards, StartsFirst, PendingKnown, Pending, Exported,
       Replicating, Apart, EntryTypes, Entries, Origins
  <2>5. AppendsNew'
    BY <1>15 DEF StoreReplicate, AppendsNew, MarkGuards, Pending, PendingKnown, Exported,
       Differ, Own, EntryTypes, Entries, Origins
  <2>6. LogOnce'
    BY <1>15, LogOnceKept DEF StoreReplicate
  <2> QED  BY <1>0, <2>1, <2>2, <2>3, <2>4, <2>5, <2>6
<1>16. CASE BeginSync
  <2>1. PendingKnown'
    BY <1>16 DEF BeginSync, PendingKnown, Pending, Exported, LogTypes
  <2>2. KeysBegun'
    BY <1>16 DEF BeginSync, Begins, SourceOf, IsFirst, KeysBegun, PendingKnown, Pending,
       Exported, PeerTypes, Own, EntryTypes, Entries, Origins
  <2>3. StartsFirst'
    BY <1>16 DEF BeginSync, Begins, SourceOf, IsFirst, StartsFirst, PendingKnown, Pending,
       Exported, KeysBegun, Differ, Apart, PeerTypes, Own, EntryTypes, Entries, Origins
  <2>4. MarkGuards'
    BY <1>16 DEF BeginSync, Begins, SourceOf, IsFirst, MarkGuards, StartsFirst,
       PendingKnown, Pending, Exported, Replicating, Apart, EntryTypes, Entries, Origins
  <2>5. AppendsNew'
    BY <1>16 DEF BeginSync, Begins, SourceOf, IsFirst, AppendsNew, MarkGuards, Pending,
       PendingKnown, Exported, Differ, Own, EntryTypes, Entries, Origins
  <2>6. LogOnce'
    BY <1>16, LogOnceKept DEF BeginSync, Begins, SourceOf, IsFirst
  <2> QED  BY <1>0, <2>1, <2>2, <2>3, <2>4, <2>5, <2>6
<1>17. CASE NextEntry
  <2>1. PendingKnown'
    BY <1>17 DEF NextEntry, Load, IsFirst, PendingKnown, Pending, Exported, Replicating,
       EntryTypes, Entries, Origins
  <2>2. KeysBegun'
    BY <1>17 DEF NextEntry, Load, IsFirst, KeysBegun, PendingKnown, Pending, Exported,
       PeerTypes, Own, EntryTypes, Entries, Origins
  <2>3. StartsFirst'
    BY <1>17 DEF NextEntry, Load, IsFirst, StartsFirst, PendingKnown, Pending, Exported,
       KeysBegun, Differ, Apart, PeerTypes, Own, EntryTypes, Entries, Origins
  <2>4. MarkGuards'
    BY <1>17 DEF NextEntry, Load, IsFirst, MarkGuards, StartsFirst, PendingKnown, Pending,
       Exported, Replicating, Apart, EntryTypes, Entries, Origins
  <2>5. AppendsNew'
    BY <1>17 DEF NextEntry, Load, IsFirst, AppendsNew, MarkGuards, Pending, PendingKnown,
       Exported, Differ, Own, EntryTypes, Entries, Origins
  <2>6. LogOnce'
    BY <1>17, LogOnceKept DEF NextEntry, Load, IsFirst
  <2> QED  BY <1>0, <2>1, <2>2, <2>3, <2>4, <2>5, <2>6
<1>18. CASE StoreSync
  <2>1. PendingKnown'
    BY <1>18 DEF StoreSync, PendingKnown, Pending, Exported, Replicating, EntryTypes,
       Entries, Origins
  <2>2. KeysBegun'
    BY <1>18 DEF StoreSync, KeysBegun, PendingKnown, Pending, Exported, PeerTypes, Own,
       EntryTypes, Entries, Origins
  <2>3. StartsFirst'
    BY <1>18 DEF StoreSync, StartsFirst, PendingKnown, Pending, Exported, KeysBegun,
       Differ, Apart, PeerTypes, Own, EntryTypes, Entries, Origins
  <2>4. MarkGuards'
    BY <1>18 DEF StoreSync, MarkGuards, StartsFirst, PendingKnown, Pending, Exported,
       Replicating, Apart, EntryTypes, Entries, Origins
  <2>5. AppendsNew'
    BY <1>18 DEF StoreSync, AppendsNew, MarkGuards, Pending, PendingKnown, Exported,
       Differ, Own, EntryTypes, Entries, Origins
  <2>6. LogOnce'
    BY <1>18, LogOnceKept DEF StoreSync
  <2> QED  BY <1>0, <2>1, <2>2, <2>3, <2>4, <2>5, <2>6
<1>19. CASE FinishSync
  <2>1. PendingKnown'
    BY <1>19 DEF FinishSync, Unmarks, Rests, Locked, PendingKnown, Pending, Exported,
       Replicating, EntryTypes, Entries, Origins
  <2>2. KeysBegun'
    BY <1>19 DEF FinishSync, Unmarks, Rests, Locked, KeysBegun, PendingKnown, Pending,
       Exported, PeerTypes, Own, EntryTypes, Entries, Origins
  <2>3. StartsFirst'
    BY <1>19 DEF FinishSync, Unmarks, Rests, Locked, StartsFirst, PendingKnown, Pending,
       Exported, KeysBegun, Differ, Apart, PeerTypes, Own, EntryTypes, Entries, Origins
  <2>4. MarkGuards'
    BY <1>19 DEF FinishSync, Unmarks, Rests, Locked, MarkGuards, StartsFirst,
       PendingKnown, Pending, Exported, Replicating, Apart, EntryTypes, Entries, Origins
  <2>5. AppendsNew'
    BY <1>19 DEF FinishSync, Unmarks, Rests, Locked, AppendsNew, MarkGuards, Pending,
       PendingKnown, Exported, Differ, Own, EntryTypes, Entries, Origins
  <2>6. LogOnce'
    BY <1>19, LogOnceKept DEF FinishSync, Unmarks, Rests, Locked
  <2> QED  BY <1>0, <2>1, <2>2, <2>3, <2>4, <2>5, <2>6
<1>20. ASSUME NEW t \in Threads, TestKey(t)  PROVE OnceInv'
  <2>1. PendingKnown'
    BY <1>20 DEF TestKey, Records, Rests, PendingKnown, Pending, Exported, Replicating,
       EntryTypes, Entries, Origins
  <2>2. KeysBegun'
    BY <1>20 DEF TestKey, Records, Rests, KeysBegun, PendingKnown, Pending, Exported,
       PeerTypes, Own, EntryTypes, Entries, Origins
  <2>3. StartsFirst'
    BY <1>20 DEF TestKey, Records, Rests, StartsFirst, PendingKnown, Pending, Exported,
       KeysBegun, Differ, Apart, PeerTypes, Own, EntryTypes, Entries, Origins
  <2>4. MarkGuards'
    BY <1>20 DEF TestKey, Records, Rests, MarkGuards, StartsFirst, PendingKnown, Pending,
       Exported, Replicating, Apart, EntryTypes, Entries, Origins
  <2>5. AppendsNew'
    BY <1>20 DEF TestKey, Records, Rests, AppendsNew, MarkGuards, Pending, PendingKnown,
       Exported, Differ, Own, EntryTypes, Entries, Origins
  <2>6. LogOnce'
    BY <1>20, LogOnceKept DEF TestKey, Records, Rests
  <2> QED  BY <1>0, <2>1, <2>2, <2>3, <2>4, <2>5, <2>6
<1>21. ASSUME NEW t \in Threads, AppendEntry(t)  PROVE OnceInv'
  <2>1. PendingKnown'
    BY <1>21 DEF AppendEntry, Records, Rests, PendingKnown, Pending, Exported,
       Replicating, EntryTypes, Entries, Origins
  <2>2. KeysBegun'
    BY <1>21 DEF AppendEntry, Records, Rests, KeysBegun, PendingKnown, Pending, Exported,
       PeerTypes, Own, EntryTypes, Entries, Origins
  <2>3. StartsFirst'
    BY <1>21 DEF AppendEntry, Records, Rests, StartsFirst, PendingKnown, Pending,
       Exported, KeysBegun, Differ, Apart, PeerTypes, Own, EntryTypes, Entries, Origins
  <2>4. MarkGuards'
    BY <1>21 DEF AppendEntry, Records, Rests, MarkGuards, StartsFirst, PendingKnown,
       Pending, Exported, Replicating, Apart, EntryTypes, Entries, Origins
  <2>5. AppendsNew'
    BY <1>21 DEF AppendEntry, Records, Rests, AppendsNew, MarkGuards, Pending,
       PendingKnown, Exported, Differ, Own, EntryTypes, Entries, Origins
  <2>6. LogOnce'
    <3>1. /\ entry[t] \in Entries /\ log' = Append(log, entry[t]) /\ unguarded' = unguarded
          /\ pc[t] = "append"
      BY <1>21 DEF AppendEntry, EntryTypes
    <3>2. entry[t] \in LogSet => entry[t] \in unguarded
      BY <3>1 DEF AppendsNew, LogTypes
    <3> QED  BY <3>1, <3>2, Appended DEF LogOnce, LogTypes
  <2> QED  BY <1>0, <2>1, <2>2, <2>3, <2>4, <2>5, <2>6
<1>22. CASE UNCHANGED clockThreadVars
  BY <1>0, <1>22, LogOnceKept DEF clockThreadVars, PendingKnown, Pending, Exported, KeysBegun,
     StartsFirst, MarkGuards, AppendsNew
<1> QED
  BY <1>1, <1>2, <1>3, <1>4, <1>5, <1>6, <1>7, <1>8, <1>9, <1>10, <1>11, <1>12, <1>13,
     <1>14, <1>15, <1>16, <1>17, <1>18, <1>19, <1>20, <1>21, <1>22 DEF ClockNext

\* An entry whose mark stood while its replicate call went on is in the log once
\* ("_append_if_new", sync_service.py, which locks nothing), whatever syncs, replays and
\* calls that were given up do at the same time.
THEOREM OnceTheorem == ClockSpec => []LogOnce
<1>1. ClockSpec => []OnceInv
  BY OnceInit, OnceStep, PTL DEF ClockSpec
<1>2. OnceInv => LogOnce
  BY DEF OnceInv
<1> QED  BY <1>1, <1>2, PTL

LEMMA ClockTypesShow == OnceInv => ClockTypeOK
<1> SUFFICES ASSUME OnceInv  PROVE ClockTypeOK
  OBVIOUS
<1> QED
  BY DEF OnceInv, StateInv, Types, TimeTypes, LogTypes, MarkTypes, PeerTypes, EntryTypes,
         Entries, ClockTypeOK

-----------------------------------------------------------------------------
(* The clock.                                                               *)

\* The timestamps of the replica's own entries
OwnTimes == {n \in Nat : <<"local", n>> \in keys}

\* A thread between the load and the store of the clock
Storing(t) == pc[t] \in {"store_tick", "store_start", "store_marked", "store_replicate", "store_sync"}

\* The time, and what any thread will store, is not before an own entry, and past it
\* before the next own timestamp is taken.
TimeCovers ==
  /\ \A n \in OwnTimes : n <= time
  /\ pc["local"] = "take" => \A n \in OwnTimes : n < time
  /\ pc["local"] \in {"record", "append"} =>
       entry["local"][2] <= time /\ \A n \in OwnTimes : n < entry["local"][2]

SeenCovers ==
  \A t \in Threads : Storing(t) /\ pc["local"] # "recorded" => \A n \in OwnTimes : n <= seen[t]

\* A start call may have loaded the time that a local write ticks: it stores no less.
TickBeside ==
  /\ writing => \A t \in Threads : pc[t] \notin {"store_replicate", "store_sync"}
  /\ pc["local"] = "store_tick" => seen["local"] <= time
  /\ writing /\ pc["late"] = "store_start" =>
       /\ time <= seen["late"] + 1
       /\ pc["local"] = "tick" => time <= seen["late"]
       /\ pc["local"] = "store_tick" => seen["local"] <= seen["late"]

OwnInv == ~beside => TimeCovers /\ SeenCovers /\ TickBeside

LEMMA OwnInit == ClockInit => OwnInv
BY DEF ClockInit, OwnInv, TimeCovers, SeenCovers, TickBeside, Storing, OwnTimes, Threads

LEMMA BesideStays == [ClockNext]_clockThreadVars /\ beside => beside'
BY DEF ClockNext, clockThreadVars, ghostVars, Load, BeginLocal, LoadTick, StoreTick, TakeStamp,
   FinishLocal, PeerBegins, GiveUp, PeerFinishes, MarkFinished, LateFinish, LoadStart,
   StoreStart, MarkStarted, StoreMarked, LoadReplicate, StoreReplicate, BeginSync, NextEntry,
   StoreSync, FinishSync, TestKey, AppendEntry

\* The own entries are those of the local writes.
LEMMA OwnTimesSame == keys' = keys => OwnTimes' = OwnTimes
BY DEF OwnTimes

LEMMA OwnTimesGrow ==
  ASSUME OnceInv, NEW t \in Threads, AppendEntry(t)
  PROVE  OwnTimes' = OwnTimes \cup (IF t = "local" THEN {entry["local"][2]} ELSE {})
<1> USE DEF OnceInv, StateInv, Types, LogTypes, EntryTypes, Entries, Origins, Threads, Handlers
<1>1. keys' = keys \cup {entry[t]} /\ pc[t] = "append" /\ entry[t] \in Entries
  BY DEF AppendEntry
<1>2. CASE t = "local"
  <2>1. entry["local"] = <<"local", entry["local"][2]>> /\ entry["local"][2] \in Nat
    BY <1>1, <1>2 DEF Own
  <2> QED  BY <1>1, <1>2, <2>1 DEF OwnTimes
<1>3. CASE t \in Handlers
  BY <1>1, <1>3 DEF OwnTimes, PeersHeld
<1>4. CASE t = "sync"
  <2>1. entry["sync"][1] = "local" => entry["sync"] \in keys
    BY <1>1, <1>4 DEF PendingKnown, Pending, Exported
  <2>2. \A n : entry["sync"] = <<"local", n>> => entry["sync"] \in keys
    BY <2>1
  <2> QED  BY <1>1, <1>4, <2>2 DEF OwnTimes
<1> QED  BY <1>2, <1>3, <1>4

LEMMA OwnStep == OnceInv /\ OwnInv /\ [ClockNext]_clockThreadVars => OwnInv'
<1> SUFFICES ASSUME OnceInv, OwnInv, [ClockNext]_clockThreadVars, ~beside'
             PROVE  (TimeCovers /\ SeenCovers /\ TickBeside)'
  BY DEF OwnInv
<1>0. /\ OwnTimes \subseteq Nat /\ time \in Nat /\ seen \in [Threads -> Nat] /\ Labels /\ Apart
      /\ entry \in [Threads -> Entries] /\ entry["local"][2] \in Nat
  BY DEF OwnTimes, OnceInv, StateInv, Types, TimeTypes, EntryTypes, Entries, Threads
<1>a. TimeCovers /\ SeenCovers /\ TickBeside
  BY BesideStays DEF OwnInv
<1> USE DEF Goes, coordinatorVars, syncVars, peerVars, ghostVars, Threads, Handlers, Label,
        LocalLabel, PeerLabel, LateLabel, SyncLabel, StartStage, ReplicateStage, Storing
<1>1. CASE BeginLocal
  <2>1. TimeCovers'
    BY <1>1, <1>0, <1>a, OwnTimesSame DEF BeginLocal, Begins, Locked, Straying,
       TimeCovers, SeenCovers, TickBeside, Apart, Labels
  <2>2. SeenCovers'
    BY <1>1, <1>0, <1>a, OwnTimesSame DEF BeginLocal, Begins, Locked, Straying,
       SeenCovers, TimeCovers, TickBeside, Apart, Labels, Straying, Locked
  <2>3. TickBeside'
    BY <1>1, <1>0, <1>a, OwnTimesSame DEF BeginLocal, Begins, Locked, Straying,
       TickBeside, TimeCovers, Apart, Labels, Straying, Locked
  <2> QED  BY <2>1, <2>2, <2>3
<1>2. CASE LoadTick
  <2>1. TimeCovers'
    BY <1>2, <1>0, <1>a, OwnTimesSame DEF LoadTick, Load, TimeCovers, SeenCovers,
       TickBeside, Apart, Labels
  <2>2. SeenCovers'
    BY <1>2, <1>0, <1>a, OwnTimesSame DEF LoadTick, Load, SeenCovers, TimeCovers,
       TickBeside, Apart, Labels, Straying, Locked
  <2>3. TickBeside'
    <3>1. /\ pc["local"] = "tick" /\ seen'["local"] = time /\ seen'["late"] = seen["late"]
          /\ pc' = [pc EXCEPT !["local"] = "store_tick"] /\ time' = time /\ writing' = writing
      BY <1>2, <1>0 DEF LoadTick, Load, Labels
    <3> QED  BY <1>0, <1>a, <3>1, OwnTimesSame DEF TickBeside, Apart, Labels
  <2> QED  BY <2>1, <2>2, <2>3
<1>3. CASE StoreTick
  <2>1. TimeCovers'
    <3>1. /\ time' = seen["local"] + 1 /\ pc'["local"] = "take" /\ keys' = keys
          /\ seen["local"] \in Nat /\ pc["local"] = "store_tick"
      BY <1>3, <1>0 DEF StoreTick, Ticked, Labels
    <3>2. OwnTimes' = OwnTimes
      BY <3>1, OwnTimesSame
    <3>3. \A n \in OwnTimes : n <= seen["local"]
      BY <1>a, <3>1 DEF SeenCovers
    <3> QED  BY <1>0, <3>1, <3>2, <3>3 DEF TimeCovers
  <2>2. SeenCovers'
    BY <1>3, <1>0, <1>a, OwnTimesSame DEF StoreTick, Ticked, SeenCovers, TimeCovers,
       TickBeside, Apart, Labels, Straying, Locked
  <2>3. TickBeside'
    BY <1>3, <1>0, <1>a, OwnTimesSame DEF StoreTick, Ticked, TickBeside, TimeCovers,
       Apart, Labels, Straying, Locked
  <2> QED  BY <2>1, <2>2, <2>3
<1>4. CASE TakeStamp
  <2>1. TimeCovers'
    <3>1. /\ time' = time /\ pc'["local"] = "record" /\ keys' = keys
          /\ entry'["local"][2] = time /\ pc["local"] = "take"
      BY <1>4, <1>0 DEF TakeStamp, Labels
    <3>2. OwnTimes' = OwnTimes
      BY <3>1, OwnTimesSame
    <3>3. \A n \in OwnTimes : n < time
      BY <1>a, <3>1 DEF TimeCovers
    <3> QED  BY <1>0, <3>1, <3>2, <3>3 DEF TimeCovers
  <2>2. SeenCovers'
    BY <1>4, <1>0, <1>a, OwnTimesSame DEF TakeStamp, SeenCovers, TimeCovers, TickBeside,
       Apart, Labels, Straying, Locked
  <2>3. TickBeside'
    BY <1>4, <1>0, <1>a, OwnTimesSame DEF TakeStamp, TickBeside, TimeCovers, Apart,
       Labels, Straying, Locked
  <2> QED  BY <2>1, <2>2, <2>3
<1>5. CASE FinishLocal
  <2>1. TimeCovers'
    BY <1>5, <1>0, <1>a, OwnTimesSame DEF FinishLocal, Rests, Locked, TimeCovers,
       SeenCovers, TickBeside, Apart, Labels
  <2>2. SeenCovers'
    BY <1>5, <1>0, <1>a, OwnTimesSame DEF FinishLocal, Rests, Locked, SeenCovers,
       TimeCovers, TickBeside, Apart, Labels, Straying, Locked
  <2>3. TickBeside'
    BY <1>5, <1>0, <1>a, OwnTimesSame DEF FinishLocal, Rests, Locked, TickBeside,
       TimeCovers, Apart, Labels, Straying, Locked
  <2> QED  BY <2>1, <2>2, <2>3
<1>6. CASE PeerBegins
  <2>1. TimeCovers'
    BY <1>6, <1>0, <1>a, OwnTimesSame DEF PeerBegins, Begins, TimeCovers, SeenCovers,
       TickBeside, Apart, Labels
  <2>2. SeenCovers'
    BY <1>6, <1>0, <1>a, OwnTimesSame DEF PeerBegins, Begins, SeenCovers, TimeCovers,
       TickBeside, Apart, Labels, Straying, Locked
  <2>3. TickBeside'
    BY <1>6, <1>0, <1>a, OwnTimesSame DEF PeerBegins, Begins, TickBeside, TimeCovers,
       Apart, Labels, Straying, Locked
  <2> QED  BY <2>1, <2>2, <2>3
<1>7. CASE GiveUp
  <2>1. TimeCovers'
    BY <1>7, <1>0, <1>a, OwnTimesSame DEF GiveUp, TimeCovers, SeenCovers, TickBeside,
       Apart, Labels
  <2>2. SeenCovers'
    BY <1>7, <1>0, <1>a, OwnTimesSame DEF GiveUp, SeenCovers, TimeCovers, TickBeside,
       Apart, Labels, Straying, Locked
  <2>3. TickBeside'
    BY <1>7, <1>0, <1>a, OwnTimesSame DEF GiveUp, TickBeside, TimeCovers, Apart, Labels,
       Straying, Locked
  <2> QED  BY <2>1, <2>2, <2>3
<1>8. CASE PeerFinishes
  <2>1. TimeCovers'
    <3>1. /\ time' = time /\ pc'["local"] = pc["local"] /\ keys' = keys
          /\ entry'["local"] = entry["local"]
      BY <1>8, <1>0 DEF PeerFinishes, MarkFinished, Unmarks, Rests, Labels
    <3> QED  BY <1>a, <3>1, OwnTimesSame DEF TimeCovers
  <2>2. SeenCovers'
    BY <1>8, <1>0, <1>a, OwnTimesSame DEF PeerFinishes, MarkFinished, Unmarks, Rests,
       SeenCovers, TimeCovers, TickBeside, Apart, Labels, Straying, Locked
  <2>3. TickBeside'
    BY <1>8, <1>0, <1>a, OwnTimesSame DEF PeerFinishes, MarkFinished, Unmarks, Rests,
       TickBeside, TimeCovers, Apart, Labels, Straying, Locked
  <2> QED  BY <2>1, <2>2, <2>3
<1>9. CASE LateFinish
  <2>1. TimeCovers'
    BY <1>9, <1>0, <1>a, OwnTimesSame DEF LateFinish, MarkFinished, Unmarks, Rests,
       Locked, TimeCovers, SeenCovers, TickBeside, Apart, Labels
  <2>2. SeenCovers'
    BY <1>9, <1>0, <1>a, OwnTimesSame DEF LateFinish, MarkFinished, Unmarks, Rests,
       Locked, SeenCovers, TimeCovers, TickBeside, Apart, Labels, Straying, Locked
  <2>3. TickBeside'
    BY <1>9, <1>0, <1>a, OwnTimesSame DEF LateFinish, MarkFinished, Unmarks, Rests,
       Locked, TickBeside, TimeCovers, Apart, Labels, Straying, Locked
  <2> QED  BY <2>1, <2>2, <2>3
<1>10. ASSUME NEW t \in Handlers, LoadStart(t)  PROVE (TimeCovers /\ SeenCovers /\ TickBeside)'
  <2>1. TimeCovers'
    BY <1>10, <1>0, <1>a, OwnTimesSame DEF LoadStart, Load, Locked, TimeCovers,
       SeenCovers, TickBeside, Apart, Labels
  <2>2. SeenCovers'
    BY <1>10, <1>0, <1>a, OwnTimesSame DEF LoadStart, Load, Locked, SeenCovers,
       TimeCovers, TickBeside, Apart, Labels, Straying, Locked
  <2>3. TickBeside'
    <3>1. /\ seen'[t] = time /\ \A u \in Threads : u # t => seen'[u] = seen[u]
          /\ pc' = [pc EXCEPT ![t] = "store_start"] /\ time' = time /\ writing' = writing
          /\ t \in Threads /\ t # "local" 
      BY <1>10, <1>0 DEF LoadStart, Load, Labels
    <3> QED  BY <1>0, <1>a, <3>1, OwnTimesSame DEF TickBeside, Apart, Labels
  <2> QED  BY <2>1, <2>2, <2>3
<1>11. ASSUME NEW t \in Handlers, StoreStart(t)  PROVE (TimeCovers /\ SeenCovers /\ TickBeside)'
  <2>1. TimeCovers'
    <3>1. /\ time' \in Nat /\ time' > seen[t] /\ keys' = keys /\ entry' = entry
          /\ pc' = [pc EXCEPT ![t] = "wait"] /\ pc'["local"] = pc["local"]
          /\ seen' = seen /\ writing' = writing /\ seen[t] \in Nat
      BY <1>11, <1>0, UpdatedIs DEF StoreStart, Labels, Entries
    <3>2. writing => t = "late" /\ time <= seen[t] + 1
      BY <1>11, <1>0, <1>a DEF StoreStart, TickBeside, Apart
    <3>3. ~writing => pc["local"] = "idle"
      BY <1>0 DEF Apart
    <3>4. pc["local"] # "recorded" => \A n \in OwnTimes : n <= seen[t]
      BY <1>11, <1>a DEF StoreStart, SeenCovers
    <3>5. writing => time <= time'
      BY <1>0, <3>1, <3>2
    <3>6. OwnTimes' = OwnTimes
      BY <3>1, OwnTimesSame
    <3>7. \A n \in OwnTimes : n <= time'
      <4>1. CASE pc["local"] # "recorded"
        BY <1>0, <3>1, <3>4, <4>1
      <4>2. CASE pc["local"] = "recorded"
        <5>1. time <= time' /\ \A n \in OwnTimes : n <= time
          BY <1>a, <3>3, <3>5, <4>2 DEF TimeCovers
        <5> QED  BY <1>0, <3>1, <5>1
      <4> QED  BY <4>1, <4>2
    <3>8. pc["local"] = "take" => \A n \in OwnTimes : n < time'
      BY <1>0, <3>1, <3>4
    <3>9. pc["local"] \in {"record", "append"} =>
            entry["local"][2] <= time' /\ \A n \in OwnTimes : n < entry["local"][2]
      BY <1>0, <1>a, <3>1, <3>3, <3>5 DEF TimeCovers
    <3> QED  BY <3>1, <3>6, <3>7, <3>8, <3>9 DEF TimeCovers
  <2>2. SeenCovers'
    BY <1>11, <1>0, <1>a, OwnTimesSame, UpdatedIs DEF StoreStart, SeenCovers, TimeCovers,
       TickBeside, Apart, Labels, Straying, Locked
  <2>3. TickBeside'
    <3>1. /\ time' \in Nat /\ time' > seen[t] /\ keys' = keys /\ entry' = entry
          /\ pc' = [pc EXCEPT ![t] = "wait"] /\ pc'["local"] = pc["local"]
          /\ seen' = seen /\ writing' = writing /\ seen[t] \in Nat
      BY <1>11, <1>0, UpdatedIs DEF StoreStart, Labels, Entries
    <3>2. writing => t = "late" /\ time <= seen[t] + 1
      BY <1>11, <1>0, <1>a DEF StoreStart, TickBeside, Apart
    <3>3. ~writing => pc["local"] = "idle"
      BY <1>0 DEF Apart
    <3>4. pc["local"] # "recorded" => \A n \in OwnTimes : n <= seen[t]
      BY <1>11, <1>a DEF StoreStart, SeenCovers
    <3>5. writing => time <= time'
      BY <1>0, <3>1, <3>2
    <3>6. pc["local"] = "store_tick" => seen["local"] <= time'
      <4> SUFFICES ASSUME pc["local"] = "store_tick"  PROVE seen["local"] <= time'
        OBVIOUS
      <4>1. writing /\ pc["late"] = "store_start"
        BY <1>11, <3>2, <3>3 DEF StoreStart
      <4>2. seen["local"] <= seen[t] /\ seen["local"] \in Nat
        BY <1>0, <1>a, <3>2, <4>1 DEF TickBeside
      <4> QED  BY <3>1, <4>2
    <3>7. writing' => pc'["late"] # "store_start"
      BY <1>0, <3>1, <3>2 DEF Labels
    <3>8. writing => \A u \in Threads : pc'[u] \notin {"store_replicate", "store_sync"}
      BY <1>0, <1>a, <3>1 DEF TickBeside, Labels
    <3> QED  BY <3>1, <3>6, <3>7, <3>8 DEF TickBeside
  <2> QED  BY <2>1, <2>2, <2>3
<1>12. ASSUME NEW t \in Handlers, MarkStarted(t)  PROVE (TimeCovers /\ SeenCovers /\ TickBeside)'
  <2>1. TimeCovers'
    BY <1>12, <1>0, <1>a, OwnTimesSame DEF MarkStarted, Load, Locked, TimeCovers,
       SeenCovers, TickBeside, Apart, Labels
  <2>2. SeenCovers'
    BY <1>12, <1>0, <1>a, OwnTimesSame DEF MarkStarted, Load, Locked, SeenCovers,
       TimeCovers, TickBeside, Apart, Labels, Straying, Locked
  <2>3. TickBeside'
    BY <1>12, <1>0, <1>a, OwnTimesSame DEF MarkStarted, Load, Locked, TickBeside,
       TimeCovers, Apart, Labels, Straying, Locked
  <2> QED  BY <2>1, <2>2, <2>3
<1>13. ASSUME NEW t \in Handlers, StoreMarked(t)  PROVE (TimeCovers /\ SeenCovers /\ TickBeside)'
  <2>1. TimeCovers'
    <3>1. /\ time' \in Nat /\ time' > seen[t] /\ keys' = keys /\ seen[t] \in Nat
          /\ pc'["local"] = pc["local"] /\ Storing(t)
      <4>1. seen[t] \in Nat /\ time' = seen[t] + 1 /\ keys' = keys /\ pc[t] = "store_marked"
        BY <1>13, <1>0 DEF StoreMarked, Ticked
      <4>2. pc'["local"] = pc["local"]
        BY <1>13, <1>0 DEF StoreMarked, Rests, Labels
      <4> QED  BY <4>1, <4>2
    <3>2. OwnTimes' = OwnTimes
      BY <3>1, OwnTimesSame
    <3>3. pc["local"] = "idle" /\ \A n \in OwnTimes : n <= seen[t]
      BY <1>13, <1>0, <1>a DEF StoreMarked, TickBeside, SeenCovers, Apart
    <3> QED  BY <1>0, <3>1, <3>2, <3>3 DEF TimeCovers
  <2>2. SeenCovers'
    BY <1>13, <1>0, <1>a, OwnTimesSame DEF StoreMarked, Ticked, Rests, SeenCovers,
       TimeCovers, TickBeside, Apart, Labels, Straying, Locked
  <2>3. TickBeside'
    BY <1>13, <1>0, <1>a, OwnTimesSame DEF StoreMarked, Ticked, Rests, TickBeside,
       TimeCovers, Apart, Labels, Straying, Locked
  <2> QED  BY <2>1, <2>2, <2>3
<1>14. ASSUME NEW t \in Handlers, LoadReplicate(t)  PROVE (TimeCovers /\ SeenCovers /\ TickBeside)'
  <2>1. TimeCovers'
    BY <1>14, <1>0, <1>a, OwnTimesSame DEF LoadReplicate, Load, TimeCovers, SeenCovers,
       TickBeside, Apart, Labels
  <2>2. SeenCovers'
    BY <1>14, <1>0, <1>a, OwnTimesSame DEF LoadReplicate, Load, SeenCovers, TimeCovers,
       TickBeside, Apart, Labels, Straying, Locked
  <2>3. TickBeside'
    BY <1>14, <1>0, <1>a, OwnTimesSame DEF LoadReplicate, Load, TickBeside, TimeCovers,
       Apart, Labels, Straying, Locked
  <2> QED  BY <2>1, <2>2, <2>3
<1>15. ASSUME NEW t \in Handlers, StoreReplicate(t)  PROVE (TimeCovers /\ SeenCovers /\ TickBeside)'
  <2>1. TimeCovers'
    <3>1. /\ time' \in Nat /\ time' > seen[t] /\ keys' = keys /\ seen[t] \in Nat
          /\ pc'["local"] = pc["local"] /\ Storing(t)
      BY <1>15, <1>0, UpdatedIs DEF StoreReplicate, Labels, Entries
    <3>2. OwnTimes' = OwnTimes
      BY <3>1, OwnTimesSame
    <3>3. pc["local"] = "idle" /\ \A n \in OwnTimes : n <= seen[t]
      BY <1>15, <1>0, <1>a DEF StoreReplicate, TickBeside, SeenCovers, Apart
    <3> QED  BY <1>0, <3>1, <3>2, <3>3 DEF TimeCovers
  <2>2. SeenCovers'
    BY <1>15, <1>0, <1>a, OwnTimesSame, UpdatedIs DEF StoreReplicate, SeenCovers,
       TimeCovers, TickBeside, Apart, Labels, Straying, Locked
  <2>3. TickBeside'
    BY <1>15, <1>0, <1>a, OwnTimesSame, UpdatedIs DEF StoreReplicate, TickBeside,
       TimeCovers, Apart, Labels, Straying, Locked
  <2> QED  BY <2>1, <2>2, <2>3
<1>16. CASE BeginSync
  <2>1. TimeCovers'
    BY <1>16, <1>0, <1>a, OwnTimesSame DEF BeginSync, Begins, SourceOf, IsFirst,
       TimeCovers, SeenCovers, TickBeside, Apart, Labels
  <2>2. SeenCovers'
    BY <1>16, <1>0, <1>a, OwnTimesSame DEF BeginSync, Begins, SourceOf, IsFirst,
       SeenCovers, TimeCovers, TickBeside, Apart, Labels, Straying, Locked
  <2>3. TickBeside'
    BY <1>16, <1>0, <1>a, OwnTimesSame DEF BeginSync, Begins, SourceOf, IsFirst,
       TickBeside, TimeCovers, Apart, Labels, Straying, Locked
  <2> QED  BY <2>1, <2>2, <2>3
<1>17. CASE NextEntry
  <2>1. TimeCovers'
    BY <1>17, <1>0, <1>a, OwnTimesSame DEF NextEntry, Load, IsFirst, TimeCovers,
       SeenCovers, TickBeside, Apart, Labels
  <2>2. SeenCovers'
    BY <1>17, <1>0, <1>a, OwnTimesSame DEF NextEntry, Load, IsFirst, SeenCovers,
       TimeCovers, TickBeside, Apart, Labels, Straying, Locked
  <2>3. TickBeside'
    BY <1>17, <1>0, <1>a, OwnTimesSame DEF NextEntry, Load, IsFirst, TickBeside,
       TimeCovers, Apart, Labels, Straying, Locked
  <2> QED  BY <2>1, <2>2, <2>3
<1>18. CASE StoreSync
  <2>1. TimeCovers'
    <3>1. /\ time' \in Nat /\ time' > seen["sync"] /\ keys' = keys /\ seen["sync"] \in Nat
          /\ pc'["local"] = pc["local"] /\ Storing("sync")
      BY <1>18, <1>0, UpdatedIs DEF StoreSync, Labels, Entries
    <3>2. OwnTimes' = OwnTimes
      BY <3>1, OwnTimesSame
    <3>3. pc["local"] = "idle" /\ \A n \in OwnTimes : n <= seen["sync"]
      BY <1>18, <1>0, <1>a DEF StoreSync, TickBeside, SeenCovers, Apart
    <3> QED  BY <1>0, <3>1, <3>2, <3>3 DEF TimeCovers
  <2>2. SeenCovers'
    BY <1>18, <1>0, <1>a, OwnTimesSame, UpdatedIs DEF StoreSync, SeenCovers, TimeCovers,
       TickBeside, Apart, Labels, Straying, Locked
  <2>3. TickBeside'
    BY <1>18, <1>0, <1>a, OwnTimesSame, UpdatedIs DEF StoreSync, TickBeside, TimeCovers,
       Apart, Labels, Straying, Locked
  <2> QED  BY <2>1, <2>2, <2>3
<1>19. CASE FinishSync
  <2>1. TimeCovers'
    BY <1>19, <1>0, <1>a, OwnTimesSame DEF FinishSync, Unmarks, Rests, Locked, TimeCovers,
       SeenCovers, TickBeside, Apart, Labels
  <2>2. SeenCovers'
    BY <1>19, <1>0, <1>a, OwnTimesSame DEF FinishSync, Unmarks, Rests, Locked, SeenCovers,
       TimeCovers, TickBeside, Apart, Labels, Straying, Locked
  <2>3. TickBeside'
    BY <1>19, <1>0, <1>a, OwnTimesSame DEF FinishSync, Unmarks, Rests, Locked, TickBeside,
       TimeCovers, Apart, Labels, Straying, Locked
  <2> QED  BY <2>1, <2>2, <2>3
<1>20. ASSUME NEW t \in Threads, TestKey(t)  PROVE (TimeCovers /\ SeenCovers /\ TickBeside)'
  <2>1. TimeCovers'
    BY <1>20, <1>0, <1>a, OwnTimesSame DEF TestKey, Records, Rests, TimeCovers,
       SeenCovers, TickBeside, Apart, Labels
  <2>2. SeenCovers'
    <3>1. /\ \A u \in Threads : u # t => pc'[u] = pc[u] /\ seen'[u] = seen[u]
          /\ ~Storing(t)'
      BY <1>20, <1>0 DEF TestKey, Records, Rests, Labels
    <3>2. pc'["local"] # "recorded" => OwnTimes' = OwnTimes /\ pc["local"] # "recorded"
      BY <1>20, <1>0, OwnTimesSame DEF TestKey, Records, Rests, Labels
    <3> QED  BY <1>a, <3>1, <3>2 DEF SeenCovers
  <2>3. TickBeside'
    BY <1>20, <1>0, <1>a, OwnTimesSame DEF TestKey, Records, Rests, TickBeside,
       TimeCovers, Apart, Labels, Straying, Locked
  <2> QED  BY <2>1, <2>2, <2>3
<1>21. ASSUME NEW t \in Threads, AppendEntry(t)  PROVE (TimeCovers /\ SeenCovers /\ TickBeside)'
  <2>1. TimeCovers'
    BY <1>21, <1>0, <1>a, OwnTimesGrow DEF AppendEntry, Records, Rests, TimeCovers,
       SeenCovers, TickBeside, Apart, Labels
  <2>2. SeenCovers'
    <3>1. /\ \A u \in Threads : u # t => pc'[u] = pc[u] /\ seen'[u] = seen[u]
          /\ ~Storing(t)'
      BY <1>21, <1>0 DEF AppendEntry, Records, Rests, Labels
    <3>2. pc'["local"] # "recorded" => OwnTimes' = OwnTimes /\ pc["local"] # "recorded"
      BY <1>21, <1>0, OwnTimesGrow DEF AppendEntry, Records, Rests, Labels
    <3> QED  BY <1>a, <3>1, <3>2 DEF SeenCovers
  <2>3. TickBeside'
    BY <1>21, <1>0, <1>a, OwnTimesGrow DEF AppendEntry, Records, Rests, TickBeside,
       TimeCovers, Apart, Labels, Straying, Locked
  <2> QED  BY <2>1, <2>2, <2>3
<1>22. CASE UNCHANGED clockThreadVars
  BY <1>22, <1>a DEF clockThreadVars, TimeCovers, SeenCovers, TickBeside, OwnTimes
<1> QED
  BY <1>1, <1>2, <1>3, <1>4, <1>5, <1>6, <1>7, <1>8, <1>9, <1>10, <1>11, <1>12, <1>13,
     <1>14, <1>15, <1>16, <1>17, <1>18, <1>19, <1>20, <1>21, <1>22 DEF ClockNext

\* A replica's own timestamps increase, whatever start calls, ends of writes and appends
\* come between the load and the store of the clock (LamportClock.tick and update, which
\* lock nothing), unless a sync or a replicate call stores the clock beside a local write.
THEOREM OwnTimestamps == ClockSpec => []OwnStampsIncrease
<1>1. ClockSpec => [](OnceInv /\ OwnInv)
  BY OnceInit, OnceStep, OwnInit, OwnStep, PTL DEF ClockSpec
<1>2. OnceInv /\ OwnInv => OwnStampsIncrease
  <2> SUFFICES ASSUME OnceInv, OwnInv, pc["local"] \in {"record", "append"}, ~beside,
                      NEW e \in LogSet, e[1] = "local"
               PROVE  e[2] < entry["local"][2]
    BY DEF OwnStampsIncrease
  <2>1. e = <<"local", e[2]>> /\ e[2] \in Nat /\ e \in keys
    BY LogSetTyped DEF OnceInv, StateInv, Types, LogTypes, Entries
  <2> QED  BY <2>1 DEF OwnInv, TimeCovers, OwnTimes
<1> QED  BY <1>1, <1>2, PTL

-----------------------------------------------------------------------------
(* The fault controller: the invariant.                                      *)

Fault == [mode : Mode, once : BOOLEAN, triggered : BOOLEAN]

Faults ==
  /\ fault \in Seq(Fault) /\ active \in 0..Len(fault) /\ elapsed \in BOOLEAN
  /\ gone \in SUBSET (1..Len(fault)) /\ active \notin gone

Calls == at \in [Thread -> Place] /\ op \in [Thread -> Operation]

Held == held \in [Thread -> 0..Len(fault)]

\* A request in trigger() has a fault, and a thread between calls has none.
HeldInCall ==
  \A x \in Thread :
    /\ at[x] \in {"trigger", "disarm", "disarmed", "apply", "pause"} => held[x] # 0
    /\ at[x] = "idle" => held[x] = 0

\* What a thread remembers as gone has gone, and it holds nothing of that.
Before ==
  /\ before \in [Thread -> SUBSET (1..Len(fault))]
  /\ \A x \in Thread : before[x] \subseteq gone /\ held[x] \notin before[x]

FaultInv == Faults /\ Calls /\ Held /\ HeldInCall /\ Before

LEMMA InvImplies == FaultInv => FaultTypeOK /\ GoneIsOver
<1> SUFFICES ASSUME FaultInv  PROVE FaultTypeOK /\ GoneIsOver
  OBVIOUS
<1>1. DOMAIN fault = 1..Len(fault)
  BY DEF FaultInv, Faults
<1> QED
  BY <1>1 DEF FaultInv, Faults, Fault, Calls, Held, HeldInCall, Before, FaultTypeOK, GoneIsOver

LEMMA FaultInit_Inv == FaultInit => FaultInv
<1> SUFFICES ASSUME FaultInit  PROVE FaultInv
  OBVIOUS
<1>1. Faults
  BY DEF FaultInit, Faults
<1>2. Calls
  BY DEF FaultInit, Calls, Place, Operation
<1>3. Held /\ HeldInCall /\ Before
  BY DEF FaultInit, Held, HeldInCall, Before
<1> QED  BY <1>1, <1>2, <1>3 DEF FaultInv

-----------------------------------------------------------------------------
(* The fault controller: the steps.                                         *)

LEMMA FaultInv_Step == FaultInv /\ [FaultNext]_faultVars => FaultInv'
<1> SUFFICES ASSUME FaultInv, [FaultNext]_faultVars  PROVE FaultInv'
  OBVIOUS
<1> USE DEF FaultInv, GoesTo
<1>1. ASSUME NEW x \in Thread, NEW o \in Operation, Begin(x, o)
      PROVE  FaultInv'
  <2>1. Faults'
    BY <1>1 DEF Begin, Faults, Held, HeldInCall
  <2>2. Calls'
    BY <1>1 DEF Begin, Calls, Place, Operation
  <2>3. Held'
    BY <1>1 DEF Begin, Held, Faults
  <2>4. HeldInCall'
    BY <1>1 DEF Begin, HeldInCall, Calls, Held
  <2>5. Before'
    BY <1>1 DEF Begin, Before, Faults, Held, HeldInCall
  <2> QED  BY <2>1, <2>2, <2>3, <2>4, <2>5
<1>2. ASSUME NEW x \in Thread, NEW mode \in Mode, NEW once \in BOOLEAN, Arm(x, mode, once)
      PROVE  FaultInv'
  <2>0. Len(fault') \in Nat /\ Len(fault) <= Len(fault') /\ fault' \in Seq(Fault) /\ Len(fault') = Len(fault) + 1
    BY <1>2 DEF Arm, Faults, Fault
  <2>1. Faults'
    BY <1>2, <2>0 DEF Arm, Activate, Faults, Held, HeldInCall
  <2>2. Calls'
    BY <1>2, <2>0 DEF Arm, Activate, Calls, Place, Operation
  <2>3. Held'
    BY <1>2, <2>0 DEF Arm, Activate, Held, Faults
  <2>4. HeldInCall'
    BY <1>2, <2>0 DEF Arm, Activate, HeldInCall, Calls, Held
  <2>5. Before'
    BY <1>2, <2>0 DEF Arm, Activate, Before, Faults, Held, HeldInCall
  <2> QED  BY <2>1, <2>2, <2>3, <2>4, <2>5
<1>3. ASSUME NEW x \in Thread, StampArmed(x)
      PROVE  FaultInv'
  <2>1. Faults'
    BY <1>3 DEF StampArmed, Faults, Held, HeldInCall
  <2>2. Calls'
    BY <1>3 DEF StampArmed, Calls, Place, Operation
  <2>3. Held'
    BY <1>3 DEF StampArmed, Held, Faults
  <2>4. HeldInCall'
    BY <1>3 DEF StampArmed, HeldInCall, Calls, Held
  <2>5. Before'
    BY <1>3 DEF StampArmed, Before, Faults, Held, HeldInCall
  <2> QED  BY <2>1, <2>2, <2>3, <2>4, <2>5
<1>4. ASSUME NEW x \in Thread, Current(x)
      PROVE  FaultInv'
  <2>1. Faults'
    BY <1>4 DEF Current, Faults, Held, HeldInCall
  <2>2. Calls'
    BY <1>4 DEF Current, Calls, Place, Operation
  <2>3. Held'
    BY <1>4 DEF Current, Held, Faults
  <2>4. HeldInCall'
    BY <1>4 DEF Current, HeldInCall, Calls, Held
  <2>5. Before'
    BY <1>4 DEF Current, Before, Faults, Held, HeldInCall
  <2> QED  BY <2>1, <2>2, <2>3, <2>4, <2>5
<1>5. ASSUME NEW x \in Thread, ReadTime(x)
      PROVE  FaultInv'
  <2>1. Faults'
    BY <1>5 DEF ReadTime, Faults, Held, HeldInCall
  <2>2. Calls'
    BY <1>5 DEF ReadTime, Calls, Place, Operation
  <2>3. Held'
    BY <1>5 DEF ReadTime, Held, Faults
  <2>4. HeldInCall'
    BY <1>5 DEF ReadTime, HeldInCall, Calls, Held
  <2>5. Before'
    BY <1>5 DEF ReadTime, Before, Faults, Held, HeldInCall
  <2> QED  BY <2>1, <2>2, <2>3, <2>4, <2>5
<1>6. ASSUME NEW x \in Thread, Compare(x)
      PROVE  FaultInv'
  <2>1. Faults'
    BY <1>6 DEF Compare, Faults, Held, HeldInCall
  <2>2. Calls'
    BY <1>6 DEF Compare, Calls, Place, Operation
  <2>3. Held'
    BY <1>6 DEF Compare, Held, Faults
  <2>4. HeldInCall'
    BY <1>6 DEF Compare, HeldInCall, Calls, Held
  <2>5. Before'
    BY <1>6 DEF Compare, Before, Faults, Held, HeldInCall
  <2> QED  BY <2>1, <2>2, <2>3, <2>4, <2>5
<1>7. ASSUME NEW x \in Thread, Expire(x)
      PROVE  FaultInv'
  <2>1. Faults'
    BY <1>7 DEF Expire, Activate, Faults, Held, HeldInCall
  <2>2. Calls'
    BY <1>7 DEF Expire, Activate, Calls, Place, Operation
  <2>3. Held'
    BY <1>7 DEF Expire, Activate, Held, Faults
  <2>4. HeldInCall'
    BY <1>7 DEF Expire, Activate, HeldInCall, Calls, Held
  <2>5. Before'
    BY <1>7 DEF Expire, Activate, Before, Faults, Held, HeldInCall
  <2> QED  BY <2>1, <2>2, <2>3, <2>4, <2>5
<1>8. ASSUME NEW x \in Thread, Unset(x)
      PROVE  FaultInv'
  <2>1. Faults'
    BY <1>8 DEF Unset, Faults, Held, HeldInCall
  <2>2. Calls'
    BY <1>8 DEF Unset, Calls, Place, Operation
  <2>3. Held'
    BY <1>8 DEF Unset, Held, Faults
  <2>4. HeldInCall'
    BY <1>8 DEF Unset, HeldInCall, Calls, Held
  <2>5. Before'
    BY <1>8 DEF Unset, Before, Faults, Held, HeldInCall
  <2> QED  BY <2>1, <2>2, <2>3, <2>4, <2>5
<1>9. ASSUME NEW x \in Thread, Return(x)
      PROVE  FaultInv'
  <2>1. Faults'
    BY <1>9 DEF Return, Faults, Held, HeldInCall
  <2>2. Calls'
    BY <1>9 DEF Return, Calls, Place, Operation
  <2>3. Held'
    BY <1>9 DEF Return, Held, Faults
  <2>4. HeldInCall'
    BY <1>9 DEF Return, HeldInCall, Calls, Held
  <2>5. Before'
    BY <1>9 DEF Return, Before, Faults, Held, HeldInCall
  <2> QED  BY <2>1, <2>2, <2>3, <2>4, <2>5
<1>10. ASSUME NEW x \in Thread, Trigger(x)
      PROVE  FaultInv'
  <2>0. fault' \in Seq(Fault) /\ Len(fault') = Len(fault) /\ Len(fault) \in Nat
    <3> DEFINE f == held[x]
    <3>1. f \in 1..Len(fault) /\ fault \in Seq(Fault) /\ fault[f] \in Fault
      BY <1>10 DEF Trigger, Faults, Held, HeldInCall
    <3>2. [fault[f] EXCEPT !.triggered = TRUE] \in Fault
      BY <3>1 DEF Fault
    <3>3. fault' = fault \/ fault' = [fault EXCEPT ![f] = [fault[f] EXCEPT !.triggered = TRUE]]
      BY <1>10 DEF Trigger
    <3> QED  BY <3>1, <3>2, <3>3
  <2>1. Faults'
    BY <1>10, <2>0 DEF Trigger, Faults, Held, HeldInCall
  <2>2. Calls'
    BY <1>10, <2>0 DEF Trigger, Calls, Place, Operation
  <2>3. Held'
    BY <1>10, <2>0 DEF Trigger, Held, Faults
  <2>4. HeldInCall'
    BY <1>10, <2>0 DEF Trigger, HeldInCall, Calls, Held
  <2>5. Before'
    BY <1>10, <2>0 DEF Trigger, Before, Faults, Held, HeldInCall
  <2> QED  BY <2>1, <2>2, <2>3, <2>4, <2>5
<1>11. ASSUME NEW x \in Thread, Disarm(x)
      PROVE  FaultInv'
  <2>1. Faults'
    BY <1>11 DEF Disarm, Activate, Faults, Held, HeldInCall
  <2>2. Calls'
    BY <1>11 DEF Disarm, Activate, Calls, Place, Operation
  <2>3. Held'
    BY <1>11 DEF Disarm, Activate, Held, Faults
  <2>4. HeldInCall'
    BY <1>11 DEF Disarm, Activate, HeldInCall, Calls, Held
  <2>5. Before'
    BY <1>11 DEF Disarm, Activate, Before, Faults, Held, HeldInCall
  <2> QED  BY <2>1, <2>2, <2>3, <2>4, <2>5
<1>12. ASSUME NEW x \in Thread, Apply(x)
      PROVE  FaultInv'
  <2>1. Faults'
    BY <1>12 DEF Apply, Faults, Held, HeldInCall
  <2>2. Calls'
    BY <1>12 DEF Apply, Calls, Place, Operation
  <2>3. Held'
    BY <1>12 DEF Apply, Held, Faults
  <2>4. HeldInCall'
    BY <1>12 DEF Apply, HeldInCall, Calls, Held
  <2>5. Before'
    BY <1>12 DEF Apply, Before, Faults, Held, HeldInCall
  <2> QED  BY <2>1, <2>2, <2>3, <2>4, <2>5
<1>13. ASSUME NEW x \in Thread, WakeUp(x)
      PROVE  FaultInv'
  <2>1. Faults'
    BY <1>13 DEF WakeUp, Faults, Held, HeldInCall
  <2>2. Calls'
    BY <1>13 DEF WakeUp, Calls, Place, Operation
  <2>3. Held'
    BY <1>13 DEF WakeUp, Held, Faults
  <2>4. HeldInCall'
    BY <1>13 DEF WakeUp, HeldInCall, Calls, Held
  <2>5. Before'
    BY <1>13 DEF WakeUp, Before, Faults, Held, HeldInCall
  <2> QED  BY <2>1, <2>2, <2>3, <2>4, <2>5
<1>14. ASSUME NEW x \in Thread, End(x)
      PROVE  FaultInv'
  <2>1. Faults'
    BY <1>14 DEF End, Faults, Held, HeldInCall
  <2>2. Calls'
    BY <1>14 DEF End, Calls, Place, Operation
  <2>3. Held'
    BY <1>14 DEF End, Held, Faults
  <2>4. HeldInCall'
    BY <1>14 DEF End, HeldInCall, Calls, Held
  <2>5. Before'
    BY <1>14 DEF End, Before, Faults, Held, HeldInCall
  <2> QED  BY <2>1, <2>2, <2>3, <2>4, <2>5
<1>15. CASE TimePasses
  BY <1>15 DEF TimePasses, Faults, Calls, Held, HeldInCall, Before
<1>16. CASE UNCHANGED faultVars
  BY <1>16 DEF faultVars, Faults, Calls, Held, HeldInCall, Before
<1> QED
  BY <1>1, <1>2, <1>3, <1>4, <1>5, <1>6, <1>7, <1>8, <1>9, <1>10, <1>11, <1>12, <1>13,
     <1>14, <1>15, <1>16 DEF FaultNext, Consult

\* Types; and a request in trigger() has a fault 
\* ("if fault is None: return None", faults.py:73-74).
THEOREM FaultTypesHold == FaultSpec => []FaultTypeOK
BY FaultInit_Inv, FaultInv_Step, InvImplies, PTL DEF FaultSpec

\* "Disarm immediately so subsequent requests are not affected" (faults.py:78): a
\* request never takes a fault that had gone when it began, although no thread locks
\* the controller.
THEOREM GoneStaysGone == FaultSpec => []GoneIsOver
BY FaultInit_Inv, FaultInv_Step, InvImplies, PTL DEF FaultSpec

-----------------------------------------------------------------------------
(* The registry: the invariant.                                             *)

HandlerTypes ==
  /\ RegistryTypeOK
  /\ registered \in [Member -> BOOLEAN] /\ knew \in [Caller -> BOOLEAN]

\* Who calls what; a handler never takes its caller for expired, and its locals go
\* with it.
CallKind(x) ==
  /\ step[x] # "idle" => (call[x] = "list" <=> x \in Lister)
  /\ step[x] \in {"store", "test", "insert", "touch", "view"} => x \in Member
  /\ step[x] = "each" => x \in Lister
  /\ step[x] \in {"idle", "answered", "drifted", "failed"} => expired[x] = {} /\ left[x] = {}
  /\ x \notin expired[x]

CallKinds == \A x \in Caller : CallKind(x)

\* A call that no other has met: it finds the dictionary as it left it.
Unmet(x) ==
  /\ \A y \in Caller : step[y] # "idle" => y = x
  /\ step[x] # "failed"
  /\ step[x] \in {"scan", "each"} => size[x] = Cardinality(Keys) /\ left[x] \subseteq Keys
  /\ step[x] \in {"touch", "view"} => x \in Keys
  /\ step[x] = "insert" => x \notin Keys
  /\ step[x] \in {"answered", "drifted"} /\ x \in Member => x \in Keys
  /\ knew[x] => x \in Keys /\ members[x].known

UnmetCalls == \A x \in Caller \ overlapped : step[x] # "idle" => Unmet(x)

\* A replica that takes itself for registered, or is about to, is held with its address.
AddressHeld ==
  \A r \in Member :
    (step[r] = "answered" \/ (step[r] = "idle" /\ registered[r])) /\ r \in Keys
      => members[r].known

RegistryInv == HandlerTypes /\ CallKinds /\ UnmetCalls /\ AddressHeld

LEMMA InvShows == RegistryInv => RegistryTypeOK /\ AloneSucceeds /\ RegistersAgain
<1> SUFFICES ASSUME RegistryInv  PROVE AloneSucceeds /\ RegistersAgain
  BY DEF RegistryInv, HandlerTypes
<1>1. ASSUME NEW x \in Caller \ overlapped
      PROVE  /\ step[x] # "failed"
             /\ step[x] \in {"answered", "drifted"} /\ x \in Member =>
                  x \in Keys /\ (knew[x] => members[x].known)
  <2>1. CASE step[x] = "idle"
    BY <2>1
  <2>2. CASE step[x] # "idle"
    <3>1. Unmet(x)
      BY <2>2 DEF RegistryInv, UnmetCalls
    <3> QED  BY <3>1 DEF Unmet
  <2> QED  BY <2>1, <2>2
<1> QED  BY <1>1 DEF RegistryInv, AddressHeld, AloneSucceeds, RegistersAgain

LEMMA KeysSize ==
  /\ Keys \subseteq Member /\ Cardinality(Member) \in Nat
  /\ Cardinality(Keys) \in 0..Cardinality(Member)
<1>1. Keys \subseteq Member /\ IsFiniteSet(Member)
  BY RegistryAssumption DEF Keys
<1>2. Cardinality(Keys) \in Nat /\ Cardinality(Member) \in Nat
      /\ Cardinality(Keys) <= Cardinality(Member)
  BY <1>1, FS_Subset, FS_CardinalityType
<1> QED  BY <1>1, <1>2

LEMMA EntryKnown ==
  ASSUME HandlerTypes, NEW r \in Keys
  PROVE  r \in Member /\ members[r] \in Entry
BY DEF HandlerTypes, RegistryTypeOK, Keys

\* Entries are not Absent: an entry that is stored makes its replica a key.
LEMMA StoredKey ==
  ASSUME HandlerTypes, NEW r \in Member, NEW e \in Entry, Stores(r, e)
  PROVE  /\ members' \in [Member -> Entry \cup {Absent}]
         /\ members'[r] = e /\ Keys' = Keys \cup {r}
         /\ \A q \in Member : q # r => members'[q] = members[q]
<1>1. e # Absent
  BY RegistryAssumption DEF Entry, Absent
<1>2. members' = [members EXCEPT ![r] = e] /\ members \in [Member -> Entry \cup {Absent}]
  BY DEF HandlerTypes, RegistryTypeOK, Stores
<1> QED  BY <1>1, <1>2 DEF Keys

\* A step of x's handler leaves the other handlers where they are.
HandlerOf(x) ==
  /\ step[x] # "idle" /\ step'[x] # "idle"
  /\ step' \in [Caller -> Step]
  /\ size' \in [Caller -> 0..Cardinality(Member)]
  /\ left' \in [Caller -> SUBSET Member] /\ expired' \in [Caller -> SUBSET Member]
  /\ \A y \in Caller \ {x} :
       /\ step'[y] = step[y] /\ size'[y] = size[y]
       /\ left'[y] = left[y] /\ expired'[y] = expired[y]
  /\ UNCHANGED <<call, registered, overlapped, knew>>

\* While a handler of x runs no other call is alone; it remains to show what x does.
LEMMA HandlerKeeps ==
  ASSUME RegistryInv, NEW x \in Caller, HandlerOf(x),
         members' \in [Member -> Entry \cup {Absent}], AddressHeld', CallKind(x)',
         x \notin overlapped => Unmet(x)'
  PROVE  RegistryInv'
<1>1. ASSUME NEW y \in Caller  PROVE CallKind(y)'
  BY DEF RegistryInv, CallKinds, CallKind, HandlerOf
<1>2. ASSUME NEW y \in Caller, y \notin overlapped, step'[y] # "idle"  PROVE Unmet(y)'
  <2>1. CASE y # x
    <3>1. step[y] # "idle"
      BY <1>2, <2>1 DEF HandlerOf
    <3>2. Unmet(y)
      BY <1>2, <3>1 DEF RegistryInv, UnmetCalls
    <3> QED  BY <2>1, <3>2 DEF Unmet, HandlerOf
  <2> QED  BY <1>2, <2>1
<1>3. RegistryTypeOK'
  BY <1>1 DEF RegistryInv, HandlerTypes, RegistryTypeOK, HandlerOf, CallKind
<1> QED
  BY <1>1, <1>2, <1>3
  DEF RegistryInv, HandlerTypes, HandlerOf, CallKinds, UnmetCalls

LEMMA OwnUnmet ==
  ASSUME RegistryInv, NEW x \in Caller, x \notin overlapped, HandlerOf(x)
  PROVE  Unmet(x) /\ \A y \in Caller : step'[y] # "idle" => y = x
BY DEF RegistryInv, UnmetCalls, Unmet, HandlerOf

LEMMA HandlerTyped ==
  ASSUME RegistryInv
  PROVE  /\ members \in [Member -> Entry \cup {Absent}]
         /\ step \in [Caller -> Step]
         /\ size \in [Caller -> 0..Cardinality(Member)] /\ 0 \in 0..Cardinality(Member)
         /\ left \in [Caller -> SUBSET Member] /\ expired \in [Caller -> SUBSET Member]
<1>1. 0 \in 0..Cardinality(Member)
  BY KeysSize
<1> QED  BY <1>1 DEF RegistryInv, HandlerTypes, RegistryTypeOK

-----------------------------------------------------------------------------
(* The registry: the steps.                                                 *)

LEMMA ScanKeeps ==
  ASSUME RegistryInv, NEW x \in Caller, Scan(x)
  PROVE  RegistryInv'
<1>0. /\ step[x] = "scan" /\ UNCHANGED <<members, call, registered, overlapped, knew>>
      /\ Keys' = Keys /\ CallKind(x)
  BY DEF Scan, Keys, RegistryInv, CallKinds
<1>1. HandlerOf(x)
  BY <1>0, HandlerTyped DEF Scan, Raises, Clears, Steps, HandlerOf, Step
<1>2. CallKind(x)'
  BY <1>0, HandlerTyped DEF Scan, Raises, Clears, Steps, CallKind, Exempt
<1>3. ASSUME x \notin overlapped  PROVE Unmet(x)'
  <2>1. Unmet(x) /\ \A y \in Caller : step'[y] # "idle" => y = x
    BY <1>1, <1>3, OwnUnmet
  <2>2. ~Disturbed(x)
    BY <1>0, <2>1 DEF Unmet, Disturbed
  <2>3. CASE Steps(x, "pop")
    BY <1>0, <2>1, <2>3, HandlerTyped DEF Steps, Unmet
  <2>4. CASE UNCHANGED <<step, size>> /\ \E r \in left[x] : left' = [left EXCEPT ![x] = @ \ {r}]
    BY <1>0, <2>1, <2>4, HandlerTyped DEF Unmet
  <2> QED  BY <2>2, <2>3, <2>4 DEF Scan
<1>4. AddressHeld'
  BY <1>0, HandlerTyped DEF Scan, Raises, Steps, RegistryInv, AddressHeld, Caller
<1> QED  BY <1>0, <1>1, <1>2, <1>3, <1>4, HandlerKeeps, HandlerTyped

LEMMA PruneKeeps ==
  ASSUME RegistryInv, NEW x \in Caller, AfterPrune(x)
  PROVE  RegistryInv'
<1>0. /\ step[x] = "pop" /\ UNCHANGED <<members, call, registered, overlapped, knew>>
      /\ Keys' = Keys /\ CallKind(x) /\ Keys \subseteq Member
      /\ Cardinality(Keys) \in 0..Cardinality(Member)
  BY KeysSize DEF AfterPrune, Keys, RegistryInv, CallKinds
<1>1. HandlerOf(x)
  BY <1>0, HandlerTyped DEF AfterPrune, IterateFrom, Steps, HandlerOf, Step
<1>2. CallKind(x)'
  BY <1>0, HandlerTyped DEF AfterPrune, IterateFrom, Steps, CallKind, Caller
<1>3. ASSUME x \notin overlapped  PROVE Unmet(x)'
  <2>1. Unmet(x) /\ \A y \in Caller : step'[y] # "idle" => y = x
    BY <1>1, <1>3, OwnUnmet
  <2> QED  BY <1>0, <2>1, HandlerTyped DEF AfterPrune, IterateFrom, Steps, Unmet
<1>4. AddressHeld'
  BY <1>0, HandlerTyped DEF AfterPrune, IterateFrom, Steps, RegistryInv, AddressHeld, Caller
<1> QED  BY <1>0, <1>1, <1>2, <1>3, <1>4, HandlerKeeps, HandlerTyped

LEMMA PopKeeps ==
  ASSUME RegistryInv, NEW x \in Caller, Pop(x)
  PROVE  RegistryInv'
<1>0. /\ step[x] = "pop" /\ UNCHANGED <<step, call, size, left, registered, overlapped, knew>>
      /\ CallKind(x)
  BY DEF Pop, RegistryInv, CallKinds
<1>1. PICK r \in expired[x] :
        Stores(r, Absent) /\ expired' = [expired EXCEPT ![x] = @ \ {r}]
  BY DEF Pop
<1>2. /\ r \in Member /\ r # x
      /\ members' \in [Member -> Entry \cup {Absent}]
      /\ members'[r] = Absent /\ \A q \in Member \ {r} : members'[q] = members[q]
      /\ Keys' = Keys \ {r}
  BY <1>0, <1>1, HandlerTyped DEF Stores, CallKind, Keys
<1>3. HandlerOf(x)
  BY <1>0, <1>1, <1>2, HandlerTyped DEF HandlerOf
<1>4. CallKind(x)'
  BY <1>0, <1>1, HandlerTyped DEF CallKind
<1>5. ASSUME x \notin overlapped  PROVE Unmet(x)'
  <2>1. Unmet(x) /\ \A y \in Caller : step'[y] # "idle" => y = x
    BY <1>3, <1>5, OwnUnmet
  <2>2. x \in Keys => x \in Keys' /\ members'[x] = members[x]
    BY <1>2 DEF Keys
  <2> QED  BY <1>0, <2>1, <2>2 DEF Unmet
<1>6. AddressHeld'
  BY <1>0, <1>2 DEF RegistryInv, AddressHeld
<1> QED  BY <1>2, <1>3, <1>4, <1>5, <1>6, HandlerKeeps

LEMMA StoreKeeps ==
  ASSUME RegistryInv, NEW x \in Caller, Register(x) \/ Insert(x) \/ Touch(x)
  PROVE  RegistryInv'
<1>0. /\ step[x] \in {"store", "insert", "touch"} /\ x \in Member
      /\ UNCHANGED <<call, registered, overlapped, knew>> /\ CallKind(x)
  BY DEF Register, Insert, Touch, RegistryInv, CallKinds, CallKind
<1>1. HandlerOf(x) /\ CallKind(x)'
  BY <1>0, HandlerTyped
  DEF Register, Insert, Touch, Raises, Clears, Steps, HandlerOf, CallKind, Step
<1>2. ASSUME NEW e \in Entry, Stores(x, e), Steps(x, "view"),
             x \notin overlapped /\ knew[x] => e.known
      PROVE  RegistryInv'
  <2>1. /\ members' \in [Member -> Entry \cup {Absent}] /\ members'[x] = e
        /\ x \in Keys' /\ \A q \in Member \ {x} : members'[q] = members[q]
        /\ \A q \in Member \ {x} : q \in Keys' <=> q \in Keys
    BY <1>0, <1>2, StoredKey DEF RegistryInv
  <2>2. step'[x] = "view" /\ \A y \in Caller : y # x => step'[y] = step[y]
    BY <1>2, HandlerTyped DEF Steps
  <2>3. ASSUME x \notin overlapped  PROVE Unmet(x)'
    <3>1. Unmet(x) /\ \A y \in Caller : step'[y] # "idle" => y = x
      BY <1>1, <2>3, OwnUnmet
    <3> QED  BY <1>0, <1>2, <2>1, <2>2, <2>3, <3>1 DEF Unmet
  <2>4. AddressHeld'
    BY <1>0, <2>1, <2>2 DEF RegistryInv, AddressHeld, Caller
  <2> QED  BY <1>1, <2>1, <2>3, <2>4, HandlerKeeps
<1>3. [known |-> TRUE, age |-> 0] \in Entry /\ [known |-> FALSE, age |-> 0] \in Entry
  BY RegistryAssumption DEF Entry
<1>4. CASE Register(x)
  BY <1>2, <1>3, <1>4 DEF Register
<1>5. CASE Insert(x)
  <2>1. x \notin overlapped => x \notin Keys /\ (knew[x] => x \in Keys)
    BY <1>5 DEF Insert, RegistryInv, UnmetCalls, Unmet
  <2> QED  BY <1>2, <1>3, <1>5, <2>1 DEF Insert
<1>6. CASE Touch(x) /\ x \in Keys
  <2> DEFINE e == [members[x] EXCEPT !.age = 0]
  <2>1. members[x] \in Entry
    BY <1>6, EntryKnown DEF RegistryInv
  <2>2. e \in Entry /\ e.known = members[x].known
    BY <2>1, RegistryAssumption DEF Entry
  <2>3. x \notin overlapped /\ knew[x] => e.known
    BY <1>6, <2>2 DEF Touch, RegistryInv, UnmetCalls, Unmet
  <2>4. Stores(x, e) /\ Steps(x, "view")
    BY <1>6 DEF Touch
  <2> HIDE DEF e
  <2> QED  BY <1>2, <2>2, <2>3, <2>4
<1>7. CASE Touch(x) /\ x \notin Keys
  <2>1. UNCHANGED members /\ Steps(x, "failed")
    BY <1>7 DEF Touch, Raises
  <2>2. x \in overlapped
    BY <1>7 DEF Touch, RegistryInv, UnmetCalls, Unmet
  <2>3. AddressHeld'
    BY <1>0, <2>1, HandlerTyped DEF Steps, Keys, RegistryInv, AddressHeld, Caller
  <2> QED  BY <1>1, <2>1, <2>2, <2>3, HandlerKeeps, HandlerTyped
<1> QED  BY <1>4, <1>5, <1>6, <1>7

LEMMA TestKeeps ==
  ASSUME RegistryInv, NEW x \in Caller, Test(x) \/ View(x)
  PROVE  RegistryInv'
<1>0. /\ step[x] \in {"test", "view"} /\ x \in Member /\ CallKind(x)
      /\ UNCHANGED <<members, call, registered, overlapped, knew>> /\ Keys' = Keys
  BY DEF Test, View, Keys, RegistryInv, CallKinds, CallKind
<1>1. HandlerOf(x) /\ CallKind(x)'
  BY <1>0, HandlerTyped DEF Test, View, Raises, Clears, Steps, HandlerOf, CallKind, Step
<1>2. ASSUME x \notin overlapped  PROVE Unmet(x)'
  <2>1. Unmet(x) /\ \A y \in Caller : step'[y] # "idle" => y = x
    BY <1>1, <1>2, OwnUnmet
  <2> QED  BY <1>0, <2>1, HandlerTyped DEF Test, View, Steps, Unmet
<1>3. AddressHeld'
  BY <1>0, HandlerTyped
  DEF Test, View, Drifted, Raises, Steps, RegistryInv, AddressHeld, Caller
<1> QED  BY <1>0, <1>1, <1>2, <1>3, HandlerKeeps, HandlerTyped

LEMMA EachKeeps ==
  ASSUME RegistryInv, NEW x \in Caller, Each(x)
  PROVE  RegistryInv'
<1>0. /\ step[x] = "each" /\ x \notin Member /\ CallKind(x)
      /\ UNCHANGED <<members, call, registered, overlapped, knew>> /\ Keys' = Keys
  BY RegistryAssumption DEF Each, Keys, RegistryInv, CallKinds, CallKind
<1>1. HandlerOf(x) /\ CallKind(x)'
  BY <1>0, HandlerTyped DEF Each, Raises, Clears, Steps, HandlerOf, CallKind, Step
<1>2. ASSUME x \notin overlapped  PROVE Unmet(x)'
  <2>1. Unmet(x) /\ \A y \in Caller : step'[y] # "idle" => y = x
    BY <1>1, <1>2, OwnUnmet
  <2>2. ~Disturbed(x) /\ left[x] \subseteq Keys
    BY <1>0, <2>1 DEF Unmet, Disturbed
  <2>3. CASE Steps(x, "answered")
    BY <1>0, <2>1, <2>3, HandlerTyped DEF Steps, Unmet
  <2>4. CASE UNCHANGED <<step, size>> /\ \E r \in left[x] : left' = [left EXCEPT ![x] = @ \ {r}]
    BY <1>0, <2>1, <2>2, <2>4, HandlerTyped DEF Unmet
  <2> QED  BY <2>2, <2>3, <2>4 DEF Each
<1>3. AddressHeld'
  <2>1. \A r \in Member : step'[r] = step[r]
    BY <1>0, <1>1 DEF HandlerOf, Caller
  <2> QED  BY <1>0, <2>1 DEF RegistryInv, AddressHeld
<1> QED  BY <1>0, <1>1, <1>2, <1>3, HandlerKeeps, HandlerTyped

\* A call that arrives meets every call that is under way.
LEMMA ArrivesKeeps ==
  ASSUME RegistryInv, NEW x \in Caller, Arrives(x)
  PROVE  RegistryInv'
<1>0. /\ step[x] = "idle" /\ UNCHANGED <<members, expired, registered>>
      /\ Keys' = Keys /\ CallKind(x) /\ Keys \subseteq Member
      /\ Cardinality(Keys) \in 0..Cardinality(Member)
      /\ call \in [Caller -> {"register", "heartbeat", "list"}] /\ knew \in [Caller -> BOOLEAN]
  BY KeysSize DEF Arrives, Keys, RegistryInv, CallKinds, HandlerTypes, RegistryTypeOK
<1>1. /\ step' = [step EXCEPT ![x] = "scan"] /\ size' = [size EXCEPT ![x] = Cardinality(Keys)]
      /\ left' = [left EXCEPT ![x] = Keys]
      /\ call' = [call EXCEPT ![x] =
           IF x \in Lister THEN "list" ELSE IF registered[x] THEN "heartbeat" ELSE "register"]
      /\ knew' = [knew EXCEPT ![x] = x \in Keys /\ members[x].known]
  BY DEF Arrives, IterateFrom, Steps
<1>2. \A y \in Caller : CallKind(y)'
  <2>1. CallKind(x)'
    BY <1>0, <1>1, HandlerTyped DEF CallKind
  <2>2. \A y \in Caller \ {x} : CallKind(y)'
    BY <1>0, <1>1, HandlerTyped DEF RegistryInv, CallKinds, CallKind
  <2> QED  BY <2>1, <2>2
<1>3. HandlerTypes'
  <2>1. (x \in Keys /\ members[x].known) \in BOOLEAN
    BY EntryKnown DEF RegistryInv, Entry
  <2>2. /\ step' \in [Caller -> Step] /\ size' \in [Caller -> 0..Cardinality(Member)]
        /\ left' \in [Caller -> SUBSET Member] /\ knew' \in [Caller -> BOOLEAN]
        /\ call' \in [Caller -> {"register", "heartbeat", "list"}]
    BY <1>0, <1>1, <2>1, HandlerTyped DEF Step
  <2> QED  BY <1>0, <1>2, <2>2 DEF RegistryInv, HandlerTypes, RegistryTypeOK, CallKind
<1>4. ASSUME NEW y \in Caller, y \notin overlapped', step'[y] # "idle"  PROVE Unmet(y)'
  <2>1. Active = {} /\ y = x
    BY <1>1, <1>4, HandlerTyped DEF Arrives, Active
  <2>2. \A z \in Caller : step'[z] # "idle" => z = x
    BY <1>1, <2>1, HandlerTyped DEF Active
  <2> QED  BY <1>0, <1>1, <2>1, <2>2, HandlerTyped DEF Unmet
<1>5. AddressHeld'
  BY <1>0, <1>1, HandlerTyped DEF RegistryInv, AddressHeld, Caller
<1> QED  BY <1>2, <1>3, <1>4, <1>5 DEF RegistryInv, CallKinds, UnmetCalls

LEMMA ReturnsKeeps ==
  ASSUME RegistryInv, NEW x \in Caller, Returns(x)
  PROVE  RegistryInv'
<1>0. /\ step[x] \in {"answered", "drifted", "failed"} /\ UNCHANGED <<members, size, left, expired>>
      /\ Keys' = Keys
      /\ call \in [Caller -> {"register", "heartbeat", "list"}] /\ knew \in [Caller -> BOOLEAN]
      /\ registered \in [Member -> BOOLEAN] /\ \A y \in Caller : CallKind(y)
  BY DEF Returns, Keys, RegistryInv, CallKinds, HandlerTypes, RegistryTypeOK
<1>1. /\ step' = [step EXCEPT ![x] = "idle"] /\ call' = [call EXCEPT ![x] = "list"]
      /\ knew' = [knew EXCEPT ![x] = FALSE] /\ overlapped' = overlapped \ {x}
      /\ registered' = [r \in Member |-> IF r = x THEN step[x] = "answered" ELSE registered[r]]
  BY DEF Returns, Steps
<1>2. \A y \in Caller : CallKind(y)'
  BY <1>0, <1>1, HandlerTyped DEF CallKind
<1>3. HandlerTypes'
  <2>1. /\ step' \in [Caller -> Step] /\ registered' \in [Member -> BOOLEAN]
        /\ call' \in [Caller -> {"register", "heartbeat", "list"}]
        /\ knew' \in [Caller -> BOOLEAN]
    BY <1>0, <1>1, HandlerTyped DEF Step
  <2> QED  BY <1>0, <1>2, <2>1, HandlerTyped
        DEF RegistryInv, HandlerTypes, RegistryTypeOK, CallKind
<1>4. ASSUME NEW y \in Caller, y \notin overlapped', step'[y] # "idle"  PROVE Unmet(y)'
  <2>1. y # x /\ step[y] # "idle" /\ y \notin overlapped
    BY <1>1, <1>4, HandlerTyped
  <2>2. Unmet(y)
    BY <2>1 DEF RegistryInv, UnmetCalls
  <2> QED  BY <1>0, <2>1, <2>2 DEF Unmet
<1>5. AddressHeld'
  BY <1>0, <1>1, HandlerTyped DEF RegistryInv, AddressHeld, Caller
<1> QED  BY <1>2, <1>3, <1>4, <1>5 DEF RegistryInv, CallKinds, UnmetCalls

LEMMA PassesKeeps ==
  ASSUME RegistryInv, Passes
  PROVE  RegistryInv'
<1>0. UNCHANGED <<handlerVars, registered, overlapped, knew>>
      /\ \A x \in Caller : step[x] = "idle"
  BY DEF Passes, Active
<1>1. ASSUME NEW r \in Member
      PROVE  /\ members'[r] \in Entry \cup {Absent}
             /\ r \in Keys' <=> r \in Keys
             /\ r \in Keys => members'[r].known = members[r].known
  <2>1. CASE r \in Keys /\ members[r].age < RemovalAfter
    <3>1. members[r] \in Entry
      BY <2>1, EntryKnown DEF RegistryInv
    <3>2. members'[r] = [members[r] EXCEPT !.age = @ + 1]
      BY <2>1 DEF Passes
    <3>3. members'[r] \in Entry /\ members'[r].known = members[r].known
      BY <2>1, <3>1, <3>2, RegistryAssumption DEF Entry
    <3>4. members'[r] # Absent
      BY <3>3, RegistryAssumption DEF Entry, Absent
    <3> QED  BY <2>1, <3>3, <3>4 DEF Keys
  <2>2. CASE ~(r \in Keys /\ members[r].age < RemovalAfter)
    <3>1. members'[r] = members[r]
      BY <2>2 DEF Passes
    <3> QED  BY <3>1, HandlerTyped DEF Keys
  <2> QED  BY <2>1, <2>2
<1>2. members' \in [Member -> Entry \cup {Absent}]
  BY <1>1 DEF Passes
<1>3. HandlerTypes' /\ CallKinds' /\ UnmetCalls'
  BY <1>0, <1>2
  DEF handlerVars, RegistryInv, HandlerTypes, RegistryTypeOK, CallKinds, CallKind, UnmetCalls
<1>4. AddressHeld'
  BY <1>0, <1>1 DEF handlerVars, RegistryInv, AddressHeld
<1> QED  BY <1>3, <1>4 DEF RegistryInv

LEMMA RegistryStep == RegistryInv /\ [RegistryNext]_registryVars => RegistryInv'
<1> SUFFICES ASSUME RegistryInv, [RegistryNext]_registryVars  PROVE RegistryInv'
  OBVIOUS
<1>1. ASSUME NEW x \in Caller, Arrives(x) \/ Handler(x)  PROVE RegistryInv'
  BY <1>1, ArrivesKeeps, ScanKeeps, PopKeeps, PruneKeeps, StoreKeeps, TestKeeps, EachKeeps,
     ReturnsKeeps DEF Handler
<1>2. CASE UNCHANGED registryVars
  <2>1. Keys' = Keys /\ UNCHANGED <<members, step, call, size, left, expired>>
        /\ UNCHANGED <<registered, overlapped, knew>>
    BY <1>2 DEF registryVars, handlerVars, Keys
  <2>2. HandlerTypes' /\ CallKinds'
    BY <2>1 DEF RegistryInv, HandlerTypes, RegistryTypeOK, CallKinds, CallKind
  <2>3. UnmetCalls'
    BY <2>1 DEF RegistryInv, UnmetCalls, Unmet
  <2>4. AddressHeld'
    BY <2>1 DEF RegistryInv, AddressHeld
  <2> QED  BY <2>2, <2>3, <2>4 DEF RegistryInv
<1> QED  BY <1>1, <1>2, PassesKeeps DEF RegistryNext

LEMMA RegistryStarts == RegistryInit => RegistryInv
<1> SUFFICES ASSUME RegistryInit  PROVE RegistryInv
  OBVIOUS
<1>1. 0 \in 0..Cardinality(Member)
  BY KeysSize
<1>2. HandlerTypes
  BY <1>1 DEF RegistryInit, HandlerTypes, RegistryTypeOK, Step
<1>3. CallKinds /\ UnmetCalls /\ AddressHeld
  BY DEF RegistryInit, CallKinds, CallKind, UnmetCalls, AddressHeld, Caller
<1> QED  BY <1>2, <1>3 DEF RegistryInv

\* A call that is alone in the registry is answered, never with 500, and a replica's own
\* heartbeat, however late, does not cost it its address (exclude_replica_id).
THEOREM AloneIsAnswered == RegistrySpec => []AloneSucceeds
BY RegistryStarts, RegistryStep, InvShows, PTL DEF RegistrySpec

\* Whatever other handlers pop, and whatever errors that makes, a replica that is held
\* without its address does not take itself for registered: its next call registers it.
THEOREM UnknownRegistersAgain == RegistrySpec => []RegistersAgain
BY RegistryStarts, RegistryStep, InvShows, PTL DEF RegistrySpec

-----------------------------------------------------------------------------
(* The three objects beside each other.                                     *)

ObjectsInv == FaultInv /\ OnceInv /\ RegistryInv

LEMMA ObjectsStep == ObjectsInv /\ [Next]_vars => ObjectsInv'
<1> SUFFICES ASSUME ObjectsInv, [Next]_vars  PROVE ObjectsInv'
  OBVIOUS
<1>1. /\ [FaultNext]_faultVars /\ [ClockNext]_clockThreadVars
      /\ [RegistryNext]_registryVars
  BY DEF Next, vars
<1> QED
  BY <1>1, FaultInv_Step, OnceStep, RegistryStep DEF ObjectsInv

\* The objects that handler threads share without a lock keep their types in every
\* schedule: no thread takes a fault that is None, the keys of the log are those of its
\* entries, and no handler of the registry keeps a part of an iteration that has ended.
THEOREM ObjectTypesHold == Spec => []ObjectsTypeOK
<1>1. Init => ObjectsInv
  BY FaultInit_Inv, OnceInit, RegistryStarts DEF Init, ObjectsInv
<1>2. ObjectsInv => ObjectsTypeOK
  BY InvImplies, ClockTypesShow, InvShows DEF ObjectsInv, ObjectsTypeOK
<1> QED  BY <1>1, <1>2, ObjectsStep, PTL DEF Spec

=============================================================================
