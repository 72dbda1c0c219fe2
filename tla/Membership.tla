------------------------------ MODULE Membership ------------------------------
(***************************************************************************)
(* The name service's registry (services/name_service/registry.py) and the *)
(* heartbeat loop of the replica managers that keep themselves listed in   *)
(* it, bootstrap from a listed peer and sync again after a fault           *)
(* (services/replica/manager.py).                                          *)
(*                                                                         *)
(* Time is counted in heartbeat intervals.  A handler of the registry ends *)
(* at once; a loop stands still at each of its awaits.                     *)
(***************************************************************************)
EXTENDS Integers, FiniteSets

CONSTANTS
  Replica,
  Unlisted,        \* "not in _members"
  SuspectAfter,    \* suspect_after_misses
  UnhealthyAfter,  \* unhealthy_after_misses
  RemovalAfter,    \* member_removal_timeout_sec, in intervals
  MaxLag,          \* assumption: intervals from one iteration's sleep to the next
  MaxTroubles,     \* bound: replicas that stop, restarts of the name service and
                   \* calls whose caller gets no answer, together
  MaxFaults        \* bound: armed faults

ASSUME MembershipAssumption ==
  /\ SuspectAfter \in Nat \ {0} /\ UnhealthyAfter \in Nat /\ RemovalAfter \in Nat
  /\ UnhealthyAfter >= SuspectAfter /\ RemovalAfter >= UnhealthyAfter
  /\ MaxLag \in 1..SuspectAfter

VARIABLES
  member,          \* [r]: the registry's entry of r, or Unlisted
  pc,              \* [r]: where r's start() or _heartbeat_loop stands
  stage,           \* [r]: who called _bootstrap_sync_if_needed
  registered,      \* [r]: _registered_with_name_service
  bootstrapped,    \* [r]: _bootstrap_sync_completed
  recoveryNeeded,  \* [r]: _recovery_sync_needed
  arming,          \* [r]: the mode an arm_fault in progress is about to arm, or "none"
  faultActive,     \* [r]: a fault is armed and not expired
  candidates,      \* [r]: the peers r's sync tries
  lag,             \* [r]: intervals since the loop began to sleep, or r stopped
  owed,            \* [r]: no sync since r's last fault
  troubles, faults

loopVars  == <<pc, stage, registered, bootstrapped, candidates, lag>>
faultVars == <<recoveryNeeded, arming, faultActive, owed>>
boundVars == <<troubles, faults>>
memberVars == <<member, loopVars, faultVars, boundVars>>

Ages == 0..RemovalAfter
Member == [known : BOOLEAN, age : Ages]
Mode == {"disabled", "error_response"}
Label == {"down", "boot", "sleep", "wake", "drifted", "list", "sync"}

Init ==
  /\ member = [r \in Replica |-> Unlisted]
  /\ pc = [r \in Replica |-> "down"]
  /\ stage = [r \in Replica |-> "start"]
  /\ registered = [r \in Replica |-> FALSE]
  /\ bootstrapped = [r \in Replica |-> FALSE]
  /\ recoveryNeeded = [r \in Replica |-> FALSE]
  /\ arming = [r \in Replica |-> "none"]
  /\ faultActive = [r \in Replica |-> FALSE]
  /\ candidates = [r \in Replica |-> {}]
  /\ lag = [r \in Replica |-> SuspectAfter]
  /\ owed = [r \in Replica |-> "no"]
  /\ troubles = 0 /\ faults = 0

\* FastAPI serves requests once start() has returned.
Serving(r) == pc[r] \notin {"down", "boot"} /\ stage[r] # "start"

-----------------------------------------------------------------------------
(* The registry.                                                            *)

\* _compute_status
Status_Late(m) ==  \* variant for StoppedNotHealthy: <= for <
  IF m.age <= SuspectAfter THEN "healthy"
  ELSE IF m.age < UnhealthyAfter THEN "suspect" ELSE "unhealthy"
Status(m) ==
  IF m.age < SuspectAfter THEN "healthy"
  ELSE IF m.age < UnhealthyAfter THEN "suspect" ELSE "unhealthy"

Listed(r) == member[r] # Unlisted
Healthy(r) == Listed(r) /\ Status(member[r]) = "healthy"

\* _prune_expired_members
Pruned(keep) ==
  [q \in Replica |->
     IF q \notin keep /\ Listed(q) /\ member[q].age = RemovalAfter
     THEN Unlisted ELSE member[q]]

Registers(r) == member' = [Pruned({r}) EXCEPT ![r] = [known |-> TRUE, age |-> 0]]

\* A heartbeat of an unknown replica lists it without an address.
Beats(r) ==
  member' = [Pruned({r}) EXCEPT ![r] =
               [known |-> Listed(r) /\ member[r].known, age |-> 0]]

Lists == member' = Pruned({})

-----------------------------------------------------------------------------
(* A replica's start() and heartbeat loop.                                  *)

Goto(r, label) == pc' = [pc EXCEPT ![r] = label]
Trouble == troubles < MaxTroubles /\ troubles' = troubles + 1

Start(r) ==
  /\ pc[r] = "down"
  /\ Goto(r, "boot")
  /\ lag' = [lag EXCEPT ![r] = 0]
  /\ UNCHANGED <<member, stage, registered, bootstrapped, candidates, faultVars,
                 boundVars>>

Wake(r) ==
  /\ pc[r] = "sleep" /\ lag[r] > 0
  /\ Goto(r, "wake")
  /\ UNCHANGED <<member, stage, registered, bootstrapped, candidates, lag,
                 faultVars, boundVars>>

\* _register, and the answer or the error it ends with
Register(r) ==
  /\ pc[r] \in {"boot", "drifted"} \/ (pc[r] = "wake" /\ ~registered[r])
  /\ \/ /\ Registers(r)
        /\ registered' = [registered EXCEPT ![r] = TRUE]
        /\ UNCHANGED troubles
     \/ /\ Trouble
        /\ Registers(r) \/ UNCHANGED member
        /\ registered' = [registered EXCEPT ![r] = FALSE]
  /\ Goto(r, "list")
  /\ stage' = [stage EXCEPT ![r] = IF pc[r] = "boot" THEN "start" ELSE "loop"]
  /\ UNCHANGED <<bootstrapped, candidates, lag, faultVars, faults>>

\* The answer shows the member; one without r's address makes r register again.
Drifted_Never(m) == FALSE  \* variant for KnowsAddress and Relisted
Drifted(m) == ~m.known

Heartbeat(r) ==
  /\ pc[r] = "wake" /\ registered[r]
  /\ Beats(r)
  /\ Goto(r, IF Drifted(member'[r]) THEN "drifted" ELSE "list")
  /\ stage' = [stage EXCEPT ![r] = "loop"]
  /\ UNCHANGED <<registered, bootstrapped, candidates, lag, faultVars, boundVars>>

\* The iteration ends with the error.
HeartbeatFails(r) ==
  /\ pc[r] = "wake" /\ registered[r]
  /\ Trouble
  /\ Beats(r) \/ UNCHANGED member
  /\ registered' = [registered EXCEPT ![r] = FALSE]
  /\ Goto(r, "sleep")
  /\ lag' = [lag EXCEPT ![r] = 0]
  /\ UNCHANGED <<stage, bootstrapped, candidates, faultVars, faults>>

\* _recover_from_fault_if_needed goes on to a second bootstrap sync.
Recovers(r) == stage[r] = "loop" /\ recoveryNeeded[r] /\ ~faultActive[r]

\* _bootstrap_sync_if_needed returns to whoever called it.  The loop goes on with
\* the recovery; a recovery that completed is no longer needed.
Returns_Done(r, completed) ==  \* variant for RecoveryFollows: the flag stays set
  /\ bootstrapped' = [bootstrapped EXCEPT ![r] = completed]
  /\ recoveryNeeded' = [recoveryNeeded EXCEPT
       ![r] = @ /\ ~(stage[r] = "recovery" /\ completed)]
  /\ owed' = [owed EXCEPT ![r] =
       IF Recovers(r) /\ @ = "yes" THEN "syncing"
       ELSE IF pc[r] = "sync" /\ completed /\ @ = "syncing" THEN "no" ELSE @]
  /\ stage' = [stage EXCEPT ![r] = IF Recovers(r) THEN "recovery" ELSE "loop"]
  /\ Goto(r, IF Recovers(r) THEN "list" ELSE "sleep")
  /\ lag' = [lag EXCEPT ![r] = IF Recovers(r) THEN @ ELSE 0]
  /\ UNCHANGED <<registered, arming, faultActive, faults>>
Returns(r, completed) ==
  /\ bootstrapped' = [bootstrapped EXCEPT ![r] = completed /\ ~Recovers(r)]
  /\ recoveryNeeded' = [recoveryNeeded EXCEPT
       ![r] = @ /\ ~(stage[r] = "recovery" /\ completed)]
  /\ owed' = [owed EXCEPT ![r] =
       IF Recovers(r) /\ @ = "yes" THEN "syncing"
       ELSE IF pc[r] = "sync" /\ completed /\ @ = "syncing" THEN "no" ELSE @]
  /\ stage' = [stage EXCEPT ![r] = IF Recovers(r) THEN "recovery" ELSE "loop"]
  /\ Goto(r, IF Recovers(r) THEN "list" ELSE "sleep")
  /\ lag' = [lag EXCEPT ![r] = IF Recovers(r) THEN @ ELSE 0]
  /\ UNCHANGED <<registered, arming, faultActive, faults>>

SkipBootstrap(r) ==
  /\ pc[r] = "list" /\ (bootstrapped[r] \/ ~registered[r])
  /\ Returns(r, bootstrapped[r])
  /\ UNCHANGED <<member, candidates, troubles>>

\* The healthy peers with an address
Candidates_Itself(r) ==  \* variant for TypeOK: the caller is not left out
  {q \in Replica : /\ member'[q] # Unlisted /\ member'[q].known
                   /\ Status(member'[q]) = "healthy"}
Candidates_Registered(r) ==  \* variant for Bootstraps: the docstring's first state
  {q \in Replica \ {r} : /\ member'[q] # Unlisted /\ member'[q].known
                         /\ Status(member'[q]) = "registered"}
Candidates(r) ==
  {q \in Replica \ {r} : /\ member'[q] # Unlisted /\ member'[q].known
                         /\ Status(member'[q]) = "healthy"}

ListMembers(r) ==
  /\ pc[r] = "list" /\ ~bootstrapped[r] /\ registered[r]
  /\ \/ /\ Lists /\ Candidates(r) # {}
        /\ candidates' = [candidates EXCEPT ![r] = Candidates(r)]
        /\ Goto(r, "sync")
        /\ UNCHANGED <<stage, registered, bootstrapped, lag, faultVars, boundVars>>
     \/ /\ Lists /\ Candidates(r) = {}
        /\ Returns(r, FALSE)
        /\ UNCHANGED <<candidates, troubles>>
     \/ /\ Trouble
        /\ Lists \/ UNCHANGED member
        /\ Returns(r, FALSE)
        /\ UNCHANGED candidates

\* The sync runs in a thread of its own and succeeds with the first candidate
\* that answers.
SyncEnds(r) ==
  LET answering == {q \in candidates[r] : Serving(q)} IN
  /\ pc[r] = "sync"
  /\ \/ /\ answering # {}
        /\ Returns(r, TRUE)
        /\ UNCHANGED troubles
     \/ /\ IF answering = {} THEN UNCHANGED troubles ELSE Trouble
        /\ Returns(r, FALSE)
  /\ candidates' = [candidates EXCEPT ![r] = {}]
  /\ UNCHANGED member

-----------------------------------------------------------------------------
(* Faults, crashes, the name service's restart, time.                       *)

\* arm_fault runs in a thread of its own: it notes that a recovery will be needed,
\* or no longer is, and arms the controller in a second step.
ArmFault(r, mode) ==
  /\ Serving(r) /\ arming[r] = "none" /\ faults < MaxFaults
  /\ faults' = faults + 1
  /\ recoveryNeeded' = [recoveryNeeded EXCEPT ![r] = mode # "disabled"]
  /\ arming' = [arming EXCEPT ![r] = mode]
  /\ UNCHANGED <<member, loopVars, faultActive, owed, troubles>>

\* A fault of mode "disabled" affects no request.
ArmController(r) ==
  /\ arming[r] # "none"
  /\ arming' = [arming EXCEPT ![r] = "none"]
  /\ faultActive' = [faultActive EXCEPT ![r] = TRUE]
  /\ owed' = [owed EXCEPT ![r] = IF arming[r] = "disabled" THEN @ ELSE "yes"]
  /\ UNCHANGED <<member, loopVars, recoveryNeeded, boundVars>>

\* It expires, or it was armed for one request and that has come.
FaultEnds(r) ==
  /\ faultActive[r]
  /\ faultActive' = [faultActive EXCEPT ![r] = FALSE]
  /\ UNCHANGED <<member, loopVars, recoveryNeeded, arming, owed, boundVars>>

\* Its fault and its flags are in memory: the next process has those of __init__.
Crash(r) ==
  /\ pc[r] # "down"
  /\ Trouble
  /\ Goto(r, "down")
  /\ stage' = [stage EXCEPT ![r] = "start"]
  /\ registered' = [registered EXCEPT ![r] = FALSE]
  /\ bootstrapped' = [bootstrapped EXCEPT ![r] = FALSE]
  /\ recoveryNeeded' = [recoveryNeeded EXCEPT ![r] = FALSE]
  /\ arming' = [arming EXCEPT ![r] = "none"]
  /\ faultActive' = [faultActive EXCEPT ![r] = FALSE]
  /\ candidates' = [candidates EXCEPT ![r] = {}]
  /\ owed' = [owed EXCEPT ![r] = "no"]
  /\ lag' = [lag EXCEPT ![r] = 0]
  /\ UNCHANGED <<member, faults>>

Forget ==
  /\ Trouble
  /\ member' = [r \in Replica |-> Unlisted]
  /\ UNCHANGED <<loopVars, faultVars, faults>>

\* A sync waits for readers and writers and may take any time; the rest of an
\* iteration takes a bounded one.
Tick ==
  /\ \A r \in Replica : pc[r] \notin {"down", "sync"} => lag[r] < MaxLag
  /\ member' = [r \in Replica |->
       IF Listed(r) /\ member[r].age < RemovalAfter
       THEN [member[r] EXCEPT !.age = @ + 1] ELSE member[r]]
  /\ lag' = [r \in Replica |-> IF lag[r] < SuspectAfter THEN lag[r] + 1 ELSE lag[r]]
  /\ UNCHANGED <<pc, stage, registered, bootstrapped, candidates, faultVars,
                 boundVars>>

-----------------------------------------------------------------------------
Loop(r) ==
  \/ Wake(r) \/ Register(r) \/ Heartbeat(r) \/ HeartbeatFails(r)
  \/ SkipBootstrap(r) \/ ListMembers(r) \/ SyncEnds(r)

Next ==
  \/ \E r \in Replica :
       \/ Start(r) \/ Loop(r) \/ ArmController(r) \/ FaultEnds(r) \/ Crash(r)
       \/ \E mode \in Mode : ArmFault(r, mode)
  \/ Forget
  \/ Tick

Spec == Init /\ [][Next]_memberVars

\* The event loop runs every task that can go on; the container of a replica
\* that stopped is started again; armed faults end; time passes.
FairSpec ==
  /\ Spec
  /\ \A r \in Replica :
       /\ WF_memberVars(Loop(r)) /\ WF_memberVars(Start(r))
       /\ WF_memberVars(ArmController(r)) /\ WF_memberVars(FaultEnds(r))
  /\ WF_memberVars(Tick)

-----------------------------------------------------------------------------
(* Properties.                                                              *)

\* Types; a sync has peers to try, and a replica never syncs from itself.
TypeOK ==
  /\ member \in [Replica -> Member \cup {Unlisted}]
  /\ pc \in [Replica -> Label]
  /\ stage \in [Replica -> {"start", "loop", "recovery"}]
  /\ registered \in [Replica -> BOOLEAN] /\ bootstrapped \in [Replica -> BOOLEAN]
  /\ recoveryNeeded \in [Replica -> BOOLEAN]
  /\ arming \in [Replica -> {"none"} \cup Mode] /\ faultActive \in [Replica -> BOOLEAN]
  /\ candidates \in [Replica -> SUBSET Replica]
  /\ \A r \in Replica : r \notin candidates[r] /\ (candidates[r] = {} <=> pc[r] # "sync")
  /\ lag \in [Replica -> 0..SuspectAfter]
  /\ owed \in [Replica -> {"no", "yes", "syncing"}]

\* A replica that ended an iteration believing it is registered is listed with
\* its address, if it is listed at all (the drift check of the loop): peers can
\* bootstrap from it and the gateway can reach it.
KnowsAddress ==
  \A r \in Replica :
    pc[r] = "sleep" /\ registered[r] /\ Listed(r) => member[r].known

\* A replica that stopped SuspectAfter intervals ago is not listed as healthy
\* (registry docstring, lines 3-7), whatever was lost before.
StoppedNotHealthy ==
  \A r \in Replica : pc[r] = "down" /\ lag[r] >= SuspectAfter => ~Healthy(r)

\* "Replicas keep retrying registration" and "register again automatically"
\* (README.md:446-447): a running replica is always listed with its address again,
\* after lost calls and restarts of the name service.
Relisted == \A r \in Replica : []<>(pc[r] = "down" \/ (Healthy(r) /\ member[r].known))

\* "Late replicas ... bootstrap sync from a healthy peer" (README.md:446).
Bootstraps == \A r \in Replica : Serving(r) ~> bootstrapped[r] \/ ~Serving(r)

\* "Automatic recovery sync after a faulted replica becomes healthy again"
\* (README.md:28): every fault is followed by a sync that began after it ended.
RecoveryHappens == \A r \in Replica : owed[r] # "no" ~> owed[r] = "no"

\* The part of it that holds: a fault armed while the note of it still stands and
\* no recovery is under way is followed by such a sync.
RecoveryFollows ==
  \A r \in Replica :
    owed[r] = "yes" /\ recoveryNeeded[r] /\ stage[r] # "recovery" ~> owed[r] = "no"

=============================================================================
