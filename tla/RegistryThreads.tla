----------------------------- MODULE RegistryThreads -----------------------------
(***************************************************************************)
(* The name service's registry (services/name_service/registry.py) under   *)
(* its handler threads.  _members is a dictionary without a lock: between  *)
(* any two accesses of one handler another one may insert, renew or pop.   *)
(* Membership has each handler as one step and the rest of a replica's     *)
(* loop; here the loop only registers and sends heartbeats.                *)
(***************************************************************************)
EXTENDS Naturals, FiniteSets

CONSTANTS
  Member,         \* replicas
  Lister,         \* clients that list the members: the gateway, bootstraps
  RemovalAfter    \* member_removal_timeout_sec, in intervals

ASSUME RegistryAssumption ==
  /\ IsFiniteSet(Member) /\ Member \cap Lister = {}
  /\ RemovalAfter \in Nat \ {0}

Caller == Member \cup Lister

VARIABLES
  members,     \* [r]: _members[r], or Absent
  step,        \* [x]: where the handler of x's call stands
  call,        \* [x]: what it was called for
  size,        \* [x]: the size of the dictionary when an iteration over it began
  left,        \* [x]: the keys the iteration has not come to
  expired,     \* [x]: expired_members, those not popped yet
  registered,  \* [r]: r believes that it is registered
  overlapped,  \* ghost: the callers whose call was not alone
  knew         \* ghost, [x]: r's address was known when its call began

handlerVars == <<step, call, size, left, expired>>
registryVars == <<members, handlerVars, registered, overlapped, knew>>

Absent == [known |-> FALSE, age |-> RemovalAfter + 1]
Entry == [known : BOOLEAN, age : 0..RemovalAfter]
Step == {"idle", "scan", "pop", "store", "test", "insert", "touch", "view", "each",
         "answered", "drifted", "failed"}

RegistryInit ==
  /\ members = [r \in Member |-> Absent]
  /\ step = [x \in Caller |-> "idle"]
  /\ call = [x \in Caller |-> "list"]
  /\ size = [x \in Caller |-> 0]
  /\ left = [x \in Caller |-> {}]
  /\ expired = [x \in Caller |-> {}]
  /\ registered = [r \in Member |-> FALSE]
  /\ overlapped = {}
  /\ knew = [x \in Caller |-> FALSE]

Keys == {r \in Member : members[r] # Absent}
Active == {x \in Caller : step[x] # "idle"}

Steps(x, s) == step' = [step EXCEPT ![x] = s]
Stores(r, entry) == members' = [members EXCEPT ![r] = entry]

-----------------------------------------------------------------------------
(* An iteration over the dictionary.  It raises RuntimeError when the size has *)
(* changed, and _public_view raises KeyError for a key that is gone.           *)

IterateFrom(x, s) ==
  /\ Steps(x, s)
  /\ size' = [size EXCEPT ![x] = Cardinality(Keys)]
  /\ left' = [left EXCEPT ![x] = Keys]

Disturbed(x) == Cardinality(Keys) # size[x]

\* The next step has the locals of x as they were.
Clears(x) ==
  /\ size' = [size EXCEPT ![x] = 0]
  /\ left' = [left EXCEPT ![x] = {}]
  /\ expired' = [expired EXCEPT ![x] = {}]

\* An exception: the server answers 500.
Raises(x) == Steps(x, "failed") /\ Clears(x)

-----------------------------------------------------------------------------
(* Handlers.  now is read at the start; handlers take no time on the scale of   *)
(* heartbeat intervals, so that ages are the same until they end.               *)

Arrives(x) ==
  /\ step[x] = "idle"
  /\ call' = [call EXCEPT ![x] =
       IF x \in Lister THEN "list" ELSE IF registered[x] THEN "heartbeat" ELSE "register"]
  /\ IterateFrom(x, "scan")
  /\ overlapped' = IF Active = {} THEN overlapped \ {x} ELSE overlapped \cup Active \cup {x}
  /\ knew' = [knew EXCEPT ![x] = x \in Keys /\ members[x].known]
  /\ UNCHANGED <<members, expired, registered>>

\* _prune_expired_members: a handler leaves out the replica it is called by.
Exempt_Nobody(x) == {}  \* variant for AloneSucceeds
Exempt(x) == {x}

Scan(x) ==
  /\ step[x] = "scan"
  /\ \/ Disturbed(x) /\ Raises(x)
     \/ /\ ~Disturbed(x)
        /\ \E r \in left[x] :
             /\ left' = [left EXCEPT ![x] = @ \ {r}]
             /\ expired' = [expired EXCEPT ![x] =
                  IF r \notin Exempt(x) /\ r \in Keys /\ members[r].age = RemovalAfter
                  THEN @ \cup {r} ELSE @]
        /\ UNCHANGED <<step, size>>
     \/ /\ ~Disturbed(x) /\ left[x] = {}
        /\ Steps(x, "pop")
        /\ UNCHANGED <<size, left, expired>>
  /\ UNCHANGED <<members, call, registered, overlapped, knew>>

Pop(x) ==
  /\ step[x] = "pop" /\ expired[x] # {}
  /\ \E r \in expired[x] :
       /\ Stores(r, Absent)
       /\ expired' = [expired EXCEPT ![x] = @ \ {r}]
  /\ UNCHANGED <<step, call, size, left, registered, overlapped, knew>>

\* What follows the pruning
AfterPrune(x) ==
  /\ step[x] = "pop" /\ expired[x] = {}
  /\ IF call[x] = "list" THEN IterateFrom(x, "each")
     ELSE /\ Steps(x, IF call[x] = "register" THEN "store" ELSE "test")
          /\ UNCHANGED <<size, left>>
  /\ UNCHANGED <<members, call, expired, registered, overlapped, knew>>

Register(x) ==
  /\ step[x] = "store"
  /\ Stores(x, [known |-> TRUE, age |-> 0])
  /\ Steps(x, "view")
  /\ UNCHANGED <<call, size, left, expired, registered, overlapped, knew>>

\* heartbeat: the test, and the insertion or the new time
Test(x) ==
  /\ step[x] = "test"
  /\ Steps(x, IF x \in Keys THEN "touch" ELSE "insert")
  /\ UNCHANGED <<members, call, size, left, expired, registered, overlapped, knew>>

Insert(x) ==
  /\ step[x] = "insert"
  /\ Stores(x, [known |-> FALSE, age |-> 0])
  /\ Steps(x, "view")
  /\ UNCHANGED <<call, size, left, expired, registered, overlapped, knew>>

Touch(x) ==
  /\ step[x] = "touch"
  /\ IF x \in Keys
     THEN /\ Stores(x, [members[x] EXCEPT !.age = 0])
          /\ Steps(x, "view") /\ UNCHANGED <<size, left, expired>>
     ELSE Raises(x) /\ UNCHANGED members
  /\ UNCHANGED <<call, registered, overlapped, knew>>

\* _public_view of the member, for the answer of register or heartbeat, which shows
\* the replica another address than its own (_member_registration_drifted)
Drifted_Never(r) == FALSE  \* variant for RegistersAgain
Drifted(r) == ~members[r].known

View(x) ==
  /\ step[x] = "view"
  /\ IF x \in Keys
     THEN Steps(x, IF Drifted(x) THEN "drifted" ELSE "answered") /\ Clears(x)
     ELSE Raises(x)
  /\ UNCHANGED <<members, call, registered, overlapped, knew>>

\* list_members
Each(x) ==
  /\ step[x] = "each"
  /\ \/ Disturbed(x) /\ Raises(x)
     \/ /\ ~Disturbed(x)
        /\ \E r \in left[x] :
             IF r \in Keys
             THEN left' = [left EXCEPT ![x] = @ \ {r}] /\ UNCHANGED <<step, size, expired>>
             ELSE Raises(x)
     \/ /\ ~Disturbed(x) /\ left[x] = {}
        /\ Steps(x, "answered") /\ Clears(x)
  /\ UNCHANGED <<members, call, registered, overlapped, knew>>

\* The caller has the answer; a replica registers again after an error or a drift.
Returns(x) ==
  /\ step[x] \in {"answered", "drifted", "failed"}
  /\ registered' = [r \in Member |-> IF r = x THEN step[x] = "answered" ELSE registered[r]]
  /\ Steps(x, "idle")
  /\ overlapped' = overlapped \ {x}
  /\ knew' = [knew EXCEPT ![x] = FALSE]
  /\ call' = [call EXCEPT ![x] = "list"]
  /\ UNCHANGED <<members, size, left, expired>>

\* An interval passes between the calls; a replica may be late by any number.
Passes ==
  /\ Active = {}
  /\ members' = [r \in Member |->
       IF r \in Keys /\ members[r].age < RemovalAfter
       THEN [members[r] EXCEPT !.age = @ + 1] ELSE members[r]]
  /\ UNCHANGED <<handlerVars, registered, overlapped, knew>>

-----------------------------------------------------------------------------
Handler(x) ==
  \/ Scan(x) \/ Pop(x) \/ AfterPrune(x) \/ Register(x) \/ Test(x) \/ Insert(x)
  \/ Touch(x) \/ View(x) \/ Each(x) \/ Returns(x)

RegistryNext == (\E x \in Caller : Arrives(x) \/ Handler(x)) \/ Passes

RegistrySpec == RegistryInit /\ [][RegistryNext]_registryVars

-----------------------------------------------------------------------------
(* Properties.                                                              *)

\* Types
RegistryTypeOK ==
  /\ members \in [Member -> Entry \cup {Absent}]
  /\ step \in [Caller -> Step] /\ call \in [Caller -> {"register", "heartbeat", "list"}]
  /\ size \in [Caller -> 0..Cardinality(Member)]
  /\ left \in [Caller -> SUBSET Member] /\ expired \in [Caller -> SUBSET Member]
  /\ \A x \in Caller : step[x] \in {"idle", "answered", "drifted", "failed"} =>
       expired[x] = {} /\ left[x] = {}

\* A call that is alone in the registry is answered, never with 500, and a replica's
\* own heartbeat, however late, does not cost it its address (exclude_replica_id).
AloneSucceeds ==
  \A x \in Caller \ overlapped :
    /\ step[x] # "failed"
    /\ step[x] \in {"answered", "drifted"} /\ x \in Member =>
         x \in Keys /\ (knew[x] => members[x].known)

\* Whatever other handlers pop, and whatever errors that makes, a replica that the
\* registry holds without its address does not take itself for registered: its next
\* call registers it ("late replicas register again automatically", README.md:445).
RegistersAgain ==
  \A r \in Member : step[r] = "idle" /\ registered[r] /\ r \in Keys => members[r].known

\* "any state ──new heartbeat──► healthy" (registry.py:7): a member that is removed has
\* been silent for the removal time.
OnlySilentRemoved ==
  [][\A r \in Keys : members'[r] = Absent => members[r].age = RemovalAfter]_registryVars

=============================================================================
