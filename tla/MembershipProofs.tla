--------------------------- MODULE MembershipProofs ---------------------------
(***************************************************************************)
(* Proofs about Membership, for every number of replicas, for all          *)
(* thresholds of the registry, and for any number of crashes, of restarts  *)
(* of the name service, of lost answers and of faults.                     *)
(***************************************************************************)
EXTENDS Membership, TLAPS

Entries == [Replica -> Member \cup {Unlisted}]

\* What a handler of the registry does to the members that did not call it
OthersFollow(r) == \A q \in Replica \ {r} : member'[q] \in {member[q], Unlisted}

LEMMA PrunedIs ==
  ASSUME TypeOK, NEW K
  PROVE  Pruned(K) \in Entries /\ \A q \in Replica : Pruned(K)[q] \in {member[q], Unlisted}
BY DEF Pruned, TypeOK, Entries

LEMMA FreshIs == \A b \in BOOLEAN : [known |-> b, age |-> 0] \in Member
BY MembershipAssumption DEF Member, Ages

LEMMA RegistersIs ==
  ASSUME TypeOK, NEW r \in Replica, Registers(r)
  PROVE  member' \in Entries /\ OthersFollow(r) /\ member'[r].known
<1>1. Pruned({r}) \in Entries /\ \A q \in Replica : Pruned({r})[q] \in {member[q], Unlisted}
  BY PrunedIs
<1>2. member' = [Pruned({r}) EXCEPT ![r] = [known |-> TRUE, age |-> 0]]
  BY DEF Registers
<1> QED  BY <1>1, <1>2, FreshIs DEF Entries, OthersFollow

LEMMA BeatsIs ==
  ASSUME TypeOK, NEW r \in Replica, Beats(r)
  PROVE  member' \in Entries /\ OthersFollow(r)
<1> DEFINE fresh == [known |-> Listed(r) /\ member[r].known, age |-> 0]
<1>1. Pruned({r}) \in Entries /\ \A q \in Replica : Pruned({r})[q] \in {member[q], Unlisted}
  BY PrunedIs
<1>2. member' = [Pruned({r}) EXCEPT ![r] = fresh]
  BY DEF Beats
<1>3. fresh \in Member
  <2>1. (Listed(r) /\ member[r].known) \in BOOLEAN
    BY DEF TypeOK, Member, Listed
  <2> QED  BY <2>1, FreshIs
<1> HIDE DEF fresh
<1> QED  BY <1>1, <1>2, <1>3 DEF Entries, OthersFollow

LEMMA ListsIs ==
  ASSUME TypeOK, Lists
  PROVE  member' \in Entries /\ \A q \in Replica : member'[q] \in {member[q], Unlisted}
BY PrunedIs DEF Lists

LEMMA SameMembers ==
  ASSUME TypeOK, UNCHANGED member
  PROVE  member' \in Entries /\ \A q \in Replica : member'[q] \in {member[q], Unlisted}
BY DEF TypeOK, Entries

-----------------------------------------------------------------------------
(* Types.                                                                   *)

SyncHasPeers ==
  \A r \in Replica : r \notin candidates[r] /\ (candidates[r] = {} <=> pc[r] # "sync")

LoopTypeOK ==
  /\ pc \in [Replica -> Label]
  /\ stage \in [Replica -> {"start", "loop", "recovery"}]
  /\ registered \in [Replica -> BOOLEAN] /\ bootstrapped \in [Replica -> BOOLEAN]
  /\ candidates \in [Replica -> SUBSET Replica]
  /\ SyncHasPeers
  /\ lag \in [Replica -> 0..SuspectAfter]

FaultTypeOK ==
  /\ recoveryNeeded \in [Replica -> BOOLEAN]
  /\ arming \in [Replica -> {"none"} \cup Mode] /\ faultActive \in [Replica -> BOOLEAN]
  /\ owed \in [Replica -> {"no", "yes", "syncing"}]

LEMMA TypeParts ==
  /\ TypeOK => member \in Entries /\ LoopTypeOK /\ FaultTypeOK
  /\ member' \in Entries /\ LoopTypeOK' /\ FaultTypeOK' => TypeOK'
BY DEF TypeOK, Entries, LoopTypeOK, FaultTypeOK, SyncHasPeers

\* A step of r's loop that ends outside a sync, or leaves r where it is
LEMMA LoopMoves ==
  ASSUME LoopTypeOK, NEW r \in Replica, NEW label \in Label \ {"sync"}, pc[r] # "sync",
         pc' = [pc EXCEPT ![r] = label], UNCHANGED candidates
  PROVE  pc' \in [Replica -> Label] /\ candidates' \in [Replica -> SUBSET Replica] /\ SyncHasPeers'
BY DEF LoopTypeOK, SyncHasPeers

LEMMA SyncLeaves ==
  ASSUME LoopTypeOK, NEW r \in Replica, NEW label \in Label \ {"sync"},
         pc' = [pc EXCEPT ![r] = label], candidates' = [candidates EXCEPT ![r] = {}]
  PROVE  pc' \in [Replica -> Label] /\ candidates' \in [Replica -> SUBSET Replica] /\ SyncHasPeers'
BY DEF LoopTypeOK, SyncHasPeers

LEMMA ReturnsIs ==
  ASSUME LoopTypeOK, FaultTypeOK, NEW r \in Replica, NEW completed \in BOOLEAN,
         Returns(r, completed)
  PROVE  /\ FaultTypeOK' /\ UNCHANGED registered
         /\ stage' \in [Replica -> {"start", "loop", "recovery"}]
         /\ bootstrapped' \in [Replica -> BOOLEAN]
         /\ lag' \in [Replica -> 0..SuspectAfter]
         /\ \E label \in {"list", "sleep"} : pc' = [pc EXCEPT ![r] = label]
<1>1. Recovers(r) \in BOOLEAN
  BY DEF LoopTypeOK, FaultTypeOK, Recovers
<1>2. FaultTypeOK'
  <2>1. recoveryNeeded' \in [Replica -> BOOLEAN]
    BY DEF Returns, FaultTypeOK
  <2>2. owed' \in [Replica -> {"no", "yes", "syncing"}]
    BY DEF Returns, FaultTypeOK
  <2> QED  BY <2>1, <2>2 DEF Returns, FaultTypeOK
<1>3. bootstrapped' \in [Replica -> BOOLEAN]
  BY <1>1 DEF Returns, LoopTypeOK
<1>4. lag' \in [Replica -> 0..SuspectAfter]
  BY MembershipAssumption DEF Returns, LoopTypeOK
<1>5. stage' \in [Replica -> {"start", "loop", "recovery"}]
  BY DEF Returns, LoopTypeOK
<1>6. \E label \in {"list", "sleep"} : pc' = [pc EXCEPT ![r] = label]
  BY DEF Returns, Goto
<1> QED  BY <1>2, <1>3, <1>4, <1>5, <1>6 DEF Returns

LEMMA LoopTypes ==
  ASSUME TypeOK, NEW r \in Replica, Start(r) \/ Loop(r)
  PROVE  TypeOK'
<1>0. member \in Entries /\ LoopTypeOK /\ FaultTypeOK
  BY TypeParts
<1>1. CASE Start(r) \/ Wake(r)
  <2>1. LoopTypeOK'
    <3>1. pc[r] # "sync" /\ UNCHANGED candidates
          /\ \E label \in {"boot", "wake"} : pc' = [pc EXCEPT ![r] = label]
      BY <1>1 DEF Start, Wake, Goto
    <3>2. SyncHasPeers' /\ pc' \in [Replica -> Label]
      BY <1>0, <3>1, LoopMoves DEF Label
    <3>3. lag' \in [Replica -> 0..SuspectAfter]
      BY <1>0, <1>1, MembershipAssumption DEF Start, Wake, LoopTypeOK
    <3> QED  BY <1>0, <1>1, <3>2, <3>3 DEF Start, Wake, LoopTypeOK
  <2> QED  BY <1>0, <1>1, <2>1, TypeParts DEF Start, Wake, faultVars, FaultTypeOK, Entries
<1>2. CASE Register(r)
  <2>1. member' \in Entries
    BY <1>2, RegistersIs, SameMembers DEF Register
  <2>2. LoopTypeOK'
    <3>1. pc[r] # "sync" /\ UNCHANGED candidates /\ pc' = [pc EXCEPT ![r] = "list"]
      BY <1>2 DEF Register, Goto
    <3>2. SyncHasPeers' /\ pc' \in [Replica -> Label]
      BY <1>0, <3>1, LoopMoves DEF Label
    <3> QED  BY <1>0, <1>2, <3>2 DEF Register, LoopTypeOK
  <2> QED  BY <1>0, <1>2, <2>1, <2>2, TypeParts DEF Register, faultVars, FaultTypeOK
<1>3. CASE Heartbeat(r) \/ HeartbeatFails(r)
  <2>1. member' \in Entries
    BY <1>3, BeatsIs, SameMembers DEF Heartbeat, HeartbeatFails
  <2>2. LoopTypeOK'
    <3>1. pc[r] # "sync" /\ UNCHANGED candidates
          /\ \E label \in {"drifted", "list", "sleep"} : pc' = [pc EXCEPT ![r] = label]
      BY <1>3 DEF Heartbeat, HeartbeatFails, Goto
    <3>2. SyncHasPeers' /\ pc' \in [Replica -> Label]
      BY <1>0, <3>1, LoopMoves DEF Label
    <3>3. lag' \in [Replica -> 0..SuspectAfter]
      BY <1>0, <1>3, MembershipAssumption DEF Heartbeat, HeartbeatFails, LoopTypeOK
    <3> QED  BY <1>0, <1>3, <3>2, <3>3 DEF Heartbeat, HeartbeatFails, LoopTypeOK
  <2> QED  BY <1>0, <1>3, <2>1, <2>2, TypeParts
        DEF Heartbeat, HeartbeatFails, faultVars, FaultTypeOK
<1>4. ASSUME member' \in Entries, NEW completed \in BOOLEAN, Returns(r, completed),
             \/ pc[r] # "sync" /\ UNCHANGED candidates
             \/ candidates' = [candidates EXCEPT ![r] = {}]
      PROVE  TypeOK'
  <2>1. PICK label \in {"list", "sleep"} : pc' = [pc EXCEPT ![r] = label]
    BY <1>0, <1>4, ReturnsIs
  <2>2. label \in Label \ {"sync"}
    BY DEF Label
  <2>3. /\ pc' \in [Replica -> Label] /\ candidates' \in [Replica -> SUBSET Replica]
        /\ SyncHasPeers'
    BY <1>0, <1>4, <2>1, <2>2, LoopMoves, SyncLeaves
  <2> QED  BY <1>0, <1>4, <2>3, ReturnsIs, TypeParts DEF LoopTypeOK
<1>5. CASE SkipBootstrap(r)
  <2>1. bootstrapped[r] \in BOOLEAN
    BY <1>0 DEF LoopTypeOK
  <2> QED  BY <1>0, <1>4, <1>5, <2>1 DEF SkipBootstrap, Entries
<1>6. CASE ListMembers(r)
  <2>1. member' \in Entries
    BY <1>6, ListsIs, SameMembers DEF ListMembers
  <2>2. CASE Returns(r, FALSE) /\ UNCHANGED candidates
    BY <1>4, <1>6, <2>1, <2>2 DEF ListMembers
  <2>3. CASE /\ Candidates(r) # {} /\ candidates' = [candidates EXCEPT ![r] = Candidates(r)]
             /\ Goto(r, "sync")
             /\ UNCHANGED <<stage, registered, bootstrapped, lag, faultVars, boundVars>>
    <3>1. Candidates(r) \in SUBSET (Replica \ {r})
      BY DEF Candidates
    <3>2. LoopTypeOK'
      BY <1>0, <2>3, <3>1 DEF LoopTypeOK, SyncHasPeers, Goto, Label
    <3> QED  BY <1>0, <2>1, <2>3, <3>2, TypeParts DEF faultVars, FaultTypeOK
  <2> QED  BY <1>6, <2>2, <2>3 DEF ListMembers
<1>7. CASE SyncEnds(r)
  BY <1>0, <1>4, <1>7 DEF SyncEnds, Entries
<1> QED  BY <1>1, <1>2, <1>3, <1>5, <1>6, <1>7 DEF Loop

LEMMA OtherTypes ==
  ASSUME TypeOK,
         \/ \E r \in Replica : \/ ArmController(r) \/ FaultEnds(r) \/ Crash(r)
                               \/ \E mode \in Mode : ArmFault(r, mode)
         \/ Forget \/ Tick
  PROVE  TypeOK'
<1>0. member \in Entries /\ LoopTypeOK /\ FaultTypeOK
  BY TypeParts
<1>1. ASSUME NEW r \in Replica,
             ArmController(r) \/ FaultEnds(r) \/ \E mode \in Mode : ArmFault(r, mode)
      PROVE  TypeOK'
  <2>1. UNCHANGED <<member, loopVars>>
    BY <1>1 DEF ArmController, FaultEnds, ArmFault
  <2>2. FaultTypeOK'
    BY <1>0, <1>1 DEF ArmController, FaultEnds, ArmFault, FaultTypeOK
  <2> QED  BY <1>0, <2>1, <2>2, TypeParts DEF loopVars, LoopTypeOK, SyncHasPeers, Entries
<1>2. ASSUME NEW r \in Replica, Crash(r)  PROVE TypeOK'
  <2>1. FaultTypeOK'
    BY <1>0, <1>2 DEF Crash, FaultTypeOK
  <2>2. SyncHasPeers' /\ pc' \in [Replica -> Label] /\ candidates' \in [Replica -> SUBSET Replica]
    BY <1>0, <1>2, SyncLeaves DEF Crash, Goto, Label
  <2>3. LoopTypeOK'
    BY <1>0, <1>2, <2>2, MembershipAssumption DEF Crash, LoopTypeOK
  <2> QED  BY <1>0, <1>2, <2>1, <2>3, TypeParts DEF Crash, Entries
<1>3. CASE Forget
  <2>1. member' \in Entries
    BY <1>3 DEF Forget, Entries
  <2> QED  BY <1>0, <1>3, <2>1, TypeParts
        DEF Forget, loopVars, faultVars, LoopTypeOK, FaultTypeOK, SyncHasPeers
<1>4. CASE Tick
  <2>1. member' \in Entries
    <3>1. ASSUME NEW r \in Replica, Listed(r), member[r].age < RemovalAfter
          PROVE  [member[r] EXCEPT !.age = @ + 1] \in Member
      <4>1. member[r] \in Member
        BY <1>0, <3>1 DEF Entries, Listed
      <4>2. member[r].age + 1 \in Ages
        BY <3>1, <4>1, MembershipAssumption DEF Member, Ages
      <4> QED  BY <4>1, <4>2 DEF Member
    <3> QED  BY <1>0, <1>4, <3>1 DEF Tick, Entries
  <2>2. lag' \in [Replica -> 0..SuspectAfter]
    BY <1>0, <1>4, MembershipAssumption DEF Tick, LoopTypeOK
  <2>3. LoopTypeOK'
    BY <1>0, <1>4, <2>2 DEF Tick, LoopTypeOK, SyncHasPeers
  <2> QED  BY <1>0, <1>4, <2>1, <2>3, TypeParts DEF Tick, faultVars, FaultTypeOK
<1> QED  BY <1>1, <1>2, <1>3, <1>4

LEMMA TypeStep == TypeOK /\ [Next]_memberVars => TypeOK'
<1> SUFFICES ASSUME TypeOK, [Next]_memberVars  PROVE TypeOK'
  OBVIOUS
<1>1. CASE Next
  BY <1>1, LoopTypes, OtherTypes DEF Next
<1>2. CASE UNCHANGED memberVars
  BY <1>2 DEF memberVars, loopVars, faultVars, TypeOK
<1> QED  BY <1>1, <1>2

\* Types hold; a sync has peers to try, and a replica never syncs from itself: the
\* candidates are taken from the list in the step that starts the sync and are
\* dropped in the step that ends it, a crash included.
THEOREM MemberTypes == Spec => []TypeOK
<1>1. Init => TypeOK
  <2> SUFFICES ASSUME Init  PROVE TypeOK
    OBVIOUS
  <2>1. SuspectAfter \in 0..SuspectAfter
    BY MembershipAssumption
  <2> QED  BY <2>1 DEF Init, TypeOK, Label
<1> QED  BY <1>1, TypeStep, PTL DEF Spec

-----------------------------------------------------------------------------
(* A registered replica is listed with its address.                         *)

\* The loop checks the answer of a heartbeat and registers again on a drift, so that
\* KnowsAddress holds from there on, not only while it sleeps.
AddressFromCheck ==
  \A r \in Replica :
    pc[r] \in {"list", "sync", "sleep"} /\ registered[r] /\ Listed(r) => member[r].known

\* A replica that has stopped sends no heartbeat: its entry is as old as its stop.
EntryAges == \A r \in Replica : pc[r] = "down" /\ Listed(r) => member[r].age >= lag[r]

MemberInv == TypeOK /\ AddressFromCheck /\ EntryAges

\* A replica that a step leaves where it is, and whose entry it does not touch
Stands(r) ==
  /\ member'[r] \in {member[r], Unlisted}
  /\ pc'[r] = pc[r] /\ registered'[r] = registered[r] /\ lag'[r] = lag[r]

LEMMA StandsKeeps ==
  ASSUME MemberInv, NEW r \in Replica, Stands(r)
  PROVE  /\ pc'[r] \in {"list", "sync", "sleep"} /\ registered'[r] /\ Listed(r)' => member'[r].known
         /\ pc'[r] = "down" /\ Listed(r)' => member'[r].age >= lag'[r]
BY DEF MemberInv, AddressFromCheck, EntryAges, Stands, Listed

\* What a step of replica r, and of no other, must do for both.
Agrees(r) ==
  /\ pc'[r] \in {"list", "sync", "sleep"} /\ registered'[r] /\ Listed(r)' => member'[r].known
  /\ pc'[r] = "down" /\ Listed(r)' => member'[r].age >= lag'[r]

LEMMA OneMoves ==
  ASSUME MemberInv, TypeOK', NEW r \in Replica, Agrees(r),
         \A q \in Replica \ {r} : Stands(q)
  PROVE  MemberInv'
<1>1. \A q \in Replica : Agrees(q)
  BY StandsKeeps DEF Agrees
<1> QED  BY <1>1 DEF MemberInv, AddressFromCheck, EntryAges, Agrees

LEMMA LoopAgrees ==
  ASSUME MemberInv, TypeOK', NEW r \in Replica, Start(r) \/ Loop(r)
  PROVE  MemberInv'
<1>0. TypeOK
  BY DEF MemberInv
<1> SUFFICES Agrees(r) /\ \A q \in Replica \ {r} : Stands(q)
  BY OneMoves
<1>1. CASE Start(r) \/ Wake(r)
  BY <1>0, <1>1 DEF Start, Wake, Goto, Agrees, Stands, TypeOK
<1>2. CASE Register(r)
  <2>1. member' = member \/ OthersFollow(r)
    BY <1>0, <1>2, RegistersIs DEF Register
  <2>2. Registers(r) => OthersFollow(r) /\ member'[r].known
    BY <1>0, RegistersIs
  <2>3. Agrees(r)
    BY <1>0, <1>2, <2>2 DEF Register, Goto, Agrees, TypeOK
  <2> QED  BY <1>0, <1>2, <2>1, <2>3 DEF Register, Goto, Stands, OthersFollow, TypeOK
<1>3. CASE Heartbeat(r)
  <2>1. OthersFollow(r)
    BY <1>0, <1>3, BeatsIs DEF Heartbeat
  <2>2. pc'[r] \in {"drifted", "list"} /\ (pc'[r] = "list" => member'[r].known)
    BY <1>0, <1>3 DEF Heartbeat, Goto, Drifted, TypeOK
  <2>3. Agrees(r)
    BY <2>2 DEF Agrees
  <2> QED  BY <1>0, <1>3, <2>1, <2>3 DEF Heartbeat, Goto, Stands, OthersFollow, TypeOK
<1>4. CASE HeartbeatFails(r)
  <2>1. OthersFollow(r)
    BY <1>0, <1>4, BeatsIs DEF HeartbeatFails, OthersFollow
  <2>2. pc'[r] = "sleep" /\ ~registered'[r]
    BY <1>0, <1>4 DEF HeartbeatFails, Goto, TypeOK
  <2>3. Agrees(r)
    BY <2>2 DEF Agrees
  <2> QED  BY <1>0, <1>4, <2>1, <2>3 DEF HeartbeatFails, Goto, Stands, OthersFollow, TypeOK
<1>5. ASSUME \A q \in Replica : member'[q] \in {member[q], Unlisted},
             pc[r] \in {"list", "sync"},
             \E label \in {"list", "sleep", "sync"} : pc' = [pc EXCEPT ![r] = label],
             UNCHANGED registered, \A q \in Replica \ {r} : lag'[q] = lag[q]
      PROVE  Agrees(r) /\ \A q \in Replica \ {r} : Stands(q)
  <2>1. pc'[r] \in {"list", "sleep", "sync"} /\ \A q \in Replica \ {r} : pc'[q] = pc[q]
    BY <1>0, <1>5 DEF TypeOK
  <2>2. Agrees(r)
    BY <1>5, <2>1 DEF MemberInv, AddressFromCheck, Agrees, Listed
  <2> QED  BY <1>5, <2>1, <2>2 DEF Stands
<1>6. ASSUME NEW completed, Returns(r, completed)
      PROVE  /\ \E label \in {"list", "sleep", "sync"} : pc' = [pc EXCEPT ![r] = label]
             /\ UNCHANGED registered /\ \A q \in Replica \ {r} : lag'[q] = lag[q]
  BY <1>0, <1>6 DEF Returns, Goto, TypeOK
<1>7. CASE SkipBootstrap(r) \/ SyncEnds(r)
  <2>1. UNCHANGED member /\ pc[r] \in {"list", "sync"} /\ \E c \in BOOLEAN : Returns(r, c)
    BY <1>0, <1>7 DEF SkipBootstrap, SyncEnds, TypeOK
  <2> QED  BY <1>5, <1>6, <2>1
<1>8. CASE ListMembers(r)
  <2>1. \A q \in Replica : member'[q] \in {member[q], Unlisted}
    BY <1>0, <1>8, ListsIs DEF ListMembers
  <2>2. CASE Returns(r, FALSE)
    BY <1>5, <1>6, <1>8, <2>1, <2>2 DEF ListMembers
  <2>3. CASE Goto(r, "sync") /\ UNCHANGED <<registered, lag>>
    BY <1>5, <1>8, <2>1, <2>3 DEF ListMembers, Goto
  <2> QED  BY <1>8, <2>2, <2>3 DEF ListMembers
<1> QED  BY <1>1, <1>2, <1>3, <1>4, <1>7, <1>8 DEF Loop

LEMMA TickAgrees ==
  ASSUME MemberInv, TypeOK', Tick
  PROVE  MemberInv'
<1>1. UNCHANGED <<pc, registered>> /\ TypeOK
  BY DEF Tick, MemberInv
<1>2. ASSUME NEW r \in Replica, Listed(r)'
      PROVE  /\ Listed(r) /\ member'[r].known = member[r].known
             /\ member[r].age \in Nat /\ member'[r].age \in Nat
             /\ \/ member'[r].age = member[r].age + 1
                \/ member'[r].age = member[r].age /\ member[r].age >= RemovalAfter
  <2>1. Listed(r)
    BY <1>2 DEF Tick, Listed
  <2>2. member[r] \in Member
    BY <1>1, <2>1 DEF TypeOK, Listed
  <2>3. member[r].age \in Nat /\ RemovalAfter \in Nat
    BY <2>2, MembershipAssumption DEF Member, Ages
  <2>4. CASE member[r].age < RemovalAfter
    <3>1. member'[r] = [member[r] EXCEPT !.age = @ + 1]
      BY <2>1, <2>4 DEF Tick
    <3> QED  BY <2>1, <2>2, <2>3, <3>1 DEF Member
  <2>5. CASE ~(member[r].age < RemovalAfter)
    <3>1. member'[r] = member[r]
      BY <2>5 DEF Tick
    <3> QED  BY <2>1, <2>3, <2>5, <3>1
  <2> QED  BY <2>4, <2>5
<1>3. AddressFromCheck'
  BY <1>1, <1>2 DEF MemberInv, AddressFromCheck
<1>4. ASSUME NEW r \in Replica, pc'[r] = "down", Listed(r)'
      PROVE  member'[r].age >= lag'[r]
  <2>1. /\ lag[r] \in 0..SuspectAfter /\ lag'[r] \in 0..SuspectAfter
        /\ lag'[r] = IF lag[r] < SuspectAfter THEN lag[r] + 1 ELSE lag[r]
    BY <1>1 DEF TypeOK, Tick
  <2>2. member[r].age >= lag[r]
    BY <1>1, <1>2, <1>4 DEF MemberInv, EntryAges
  <2>3. SuspectAfter \in Nat /\ RemovalAfter \in Nat /\ SuspectAfter <= RemovalAfter
    BY MembershipAssumption
  <2> QED  BY <1>2, <1>4, <2>1, <2>2, <2>3
<1> QED  BY <1>3, <1>4 DEF MemberInv, EntryAges

LEMMA MemberStep == MemberInv /\ [Next]_memberVars => MemberInv'
<1> SUFFICES ASSUME MemberInv, [Next]_memberVars  PROVE MemberInv'
  OBVIOUS
<1>0. TypeOK /\ TypeOK'
  BY TypeStep DEF MemberInv
<1>1. ASSUME UNCHANGED <<member, pc, registered, lag>>  PROVE MemberInv'
  BY <1>0, <1>1 DEF MemberInv, AddressFromCheck, EntryAges, Listed
<1>2. ASSUME NEW r \in Replica, Start(r) \/ Loop(r)  PROVE MemberInv'
  BY <1>0, <1>2, LoopAgrees
<1>3. ASSUME NEW r \in Replica,
             ArmController(r) \/ FaultEnds(r) \/ \E mode \in Mode : ArmFault(r, mode)
      PROVE  MemberInv'
  BY <1>1, <1>3 DEF ArmController, FaultEnds, ArmFault, loopVars
<1>4. ASSUME NEW r \in Replica, Crash(r)  PROVE MemberInv'
  <2>1. pc'[r] = "down" /\ lag'[r] = 0 /\ UNCHANGED member
    BY <1>0, <1>4 DEF Crash, Goto, TypeOK
  <2>2. Listed(r)' => member'[r].age >= 0
    BY <1>0, MembershipAssumption DEF TypeOK, Listed, Member, Ages
  <2>3. Agrees(r)
    BY <2>1, <2>2 DEF Agrees
  <2> QED  BY <1>0, <1>4, <2>1, <2>3, OneMoves DEF Crash, Goto, Stands, TypeOK
<1>5. CASE Forget
  BY <1>0, <1>5 DEF Forget, MemberInv, AddressFromCheck, EntryAges, Listed
<1>6. CASE UNCHANGED memberVars
  BY <1>1, <1>6 DEF memberVars, loopVars
<1> QED  BY <1>0, <1>2, <1>3, <1>4, <1>5, <1>6, TickAgrees DEF Next

LEMMA MemberInvHolds == Spec => []MemberInv
<1>1. Init => MemberInv
  <2>1. Init => AddressFromCheck /\ EntryAges
    BY DEF Init, AddressFromCheck, EntryAges, Listed
  <2>2. Init => TypeOK
    BY MembershipAssumption DEF Init, TypeOK, Label
  <2> QED  BY <2>1, <2>2 DEF MemberInv
<1> QED  BY <1>1, MemberStep, PTL DEF Spec

\* A replica that ended an iteration believing it is registered is listed with its
\* address, if it is listed at all: a heartbeat that lists it anew, after the name
\* service forgot or pruned it, shows that in its answer, and the loop registers
\* before it goes on.
THEOREM AddressKnown == Spec => []KnowsAddress
<1>1. MemberInv => KnowsAddress
  BY DEF MemberInv, AddressFromCheck, KnowsAddress
<1> QED  BY <1>1, MemberInvHolds, PTL

\* A replica that stopped SuspectAfter intervals ago is not listed as healthy: nothing
\* but its own calls makes its entry younger, a restart of the name service and the
\* registrations of others included.
THEOREM StoppedIsNotHealthy == Spec => []StoppedNotHealthy
<1>1. MemberInv => StoppedNotHealthy
  <2> SUFFICES ASSUME MemberInv, NEW r \in Replica, pc[r] = "down", lag[r] >= SuspectAfter,
                      Listed(r), Status(member[r]) = "healthy"
               PROVE  FALSE
    BY DEF StoppedNotHealthy, Healthy
  <2>1. member[r].age >= lag[r]
    BY DEF MemberInv, EntryAges
  <2>2. member[r].age \in Nat /\ lag[r] \in Nat /\ SuspectAfter \in Nat
    BY MembershipAssumption DEF MemberInv, TypeOK, Listed, Member, Ages
  <2>3. Status(member[r]) = IF UnhealthyAfter <= member[r].age THEN "unhealthy" ELSE "suspect"
    BY <2>1, <2>2, MembershipAssumption DEF Status
  <2> QED  BY <2>3
<1> QED  BY <1>1, MemberInvHolds, PTL

=============================================================================
