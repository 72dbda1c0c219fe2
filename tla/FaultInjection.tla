---------------------------- MODULE FaultInjection ----------------------------
(***************************************************************************)
(* The fault controller of a replica (shared/faults.py) and the threads    *)
(* that consult it (services/replica/fault_service.py): handlers of cache  *)
(* requests, of /admin/faults, and the heartbeat loop.  The controller has *)
(* no lock: they interleave between its reads and writes of _active_fault  *)
(* and _armed_at.                                                          *)
(***************************************************************************)
EXTENDS Integers, Sequences

CONSTANTS
  Thread,
  MaxCalls   \* bound: calls the threads make

VARIABLES
  fault,     \* the dicts arm() made, in order; a fault is its number here
  active,    \* _active_fault, 0 for None
  elapsed,   \* the time since _armed_at (or 0.0) is at least the duration
  at,        \* [x]: where thread x stands, "idle" between calls
  op,        \* [x]: what it was called for
  held,      \* [x]: the local variable fault
  gone,      \* ghost: the faults that were active and no longer are
  before,    \* ghost, [x]: those that had gone when x's call began
  calls

faultVars == <<fault, active, elapsed, at, op, held, gone, before, calls>>

\* check_and_apply, arm_fault, is_fault_active
Operation == {"request", "arm", "look"}
Mode == {"disabled", "error_response", "pause_node"}
Place == {"idle", "arm", "stamp", "current", "old", "fresh", "elapsed", "expire",
          "unset", "return", "trigger", "disarm", "disarmed", "apply", "pause",
          "serve", "fails"}

FaultInit ==
  /\ fault = <<>>
  /\ active = 0
  /\ elapsed = TRUE
  /\ at = [x \in Thread |-> "idle"]
  /\ op = [x \in Thread |-> "look"]
  /\ held = [x \in Thread |-> 0]
  /\ gone = {}
  /\ before = [x \in Thread |-> {}]
  /\ calls = 0

GoesTo(x, place) == at' = [at EXCEPT ![x] = place]

Begin(x, o) ==
  /\ at[x] = "idle" /\ calls < MaxCalls
  /\ calls' = calls + 1
  /\ GoesTo(x, IF o = "arm" THEN "arm" ELSE "current")
  /\ op' = [op EXCEPT ![x] = o]
  /\ before' = [before EXCEPT ![x] = gone]
  /\ UNCHANGED <<fault, active, elapsed, held, gone>>

\* The request is served or refused, or the answer or error returned.
End(x) ==
  /\ at[x] \in {"serve", "fails"}
  /\ GoesTo(x, "idle")
  /\ op' = [op EXCEPT ![x] = "look"]
  /\ held' = [held EXCEPT ![x] = 0]
  /\ before' = [before EXCEPT ![x] = {}]
  /\ UNCHANGED <<fault, active, elapsed, gone, calls>>

\* _active_fault is assigned.
Activate(f) ==
  /\ active' = f
  /\ gone' = gone \cup ({active} \ {0})

-----------------------------------------------------------------------------
\* arm, and the look at current() its answer takes
Arm(x, mode, once) ==
  /\ at[x] = "arm"
  /\ fault' = Append(fault, [mode |-> mode, once |-> once, triggered |-> FALSE])
  /\ Activate(Len(fault) + 1)
  /\ GoesTo(x, "stamp")
  /\ UNCHANGED <<elapsed, op, held, before, calls>>

StampArmed(x) ==
  /\ at[x] = "stamp"
  /\ elapsed' = FALSE
  /\ GoesTo(x, "current")
  /\ UNCHANGED <<fault, active, op, held, gone, before, calls>>

\* current
Current(x) ==
  /\ at[x] = "current"
  /\ GoesTo(x, IF active = 0 THEN "serve" ELSE "elapsed")
  /\ UNCHANGED <<fault, active, elapsed, op, held, gone, before, calls>>

ReadTime(x) ==
  /\ at[x] = "elapsed"
  /\ GoesTo(x, IF elapsed THEN "old" ELSE "fresh")
  /\ UNCHANGED <<fault, active, elapsed, op, held, gone, before, calls>>

\* A fault that is gone by now cannot be asked for its duration.
Compare(x) ==
  /\ at[x] \in {"old", "fresh"}
  /\ GoesTo(x, IF active = 0 THEN "fails"
               ELSE IF at[x] = "old" THEN "expire" ELSE "return")
  /\ UNCHANGED <<fault, active, elapsed, op, held, gone, before, calls>>

Expire(x) ==
  /\ at[x] = "expire"
  /\ Activate(0)
  /\ GoesTo(x, "unset")
  /\ UNCHANGED <<fault, elapsed, op, held, before, calls>>

Unset(x) ==
  /\ at[x] \in {"unset", "disarmed"}
  /\ elapsed' = TRUE
  /\ GoesTo(x, IF at[x] = "unset" THEN "serve" ELSE "apply")
  /\ UNCHANGED <<fault, active, op, held, gone, before, calls>>

Return_Unchecked(x) ==  \* variant for FaultTypeOK: trigger does not look for None
  /\ at[x] = "return"
  /\ held' = [held EXCEPT ![x] = IF op[x] = "request" THEN active ELSE 0]
  /\ GoesTo(x, IF op[x] = "request" THEN "trigger" ELSE "serve")
  /\ UNCHANGED <<fault, active, elapsed, op, gone, before, calls>>
Return(x) ==
  /\ at[x] = "return"
  /\ held' = [held EXCEPT ![x] = IF op[x] = "request" THEN active ELSE 0]
  /\ GoesTo(x, IF op[x] = "request" /\ active # 0 THEN "trigger" ELSE "serve")
  /\ UNCHANGED <<fault, active, elapsed, op, gone, before, calls>>

\* trigger
Trigger_WritesBack(x) ==  \* variant for GoneIsOver: the marked fault is assigned again
  LET f == held[x] IN
  /\ at[x] = "trigger"
  /\ fault' = [fault EXCEPT ![f].triggered = TRUE]
  /\ active' = f
  /\ GoesTo(x, IF fault[f].once /\ ~fault[f].triggered THEN "disarm" ELSE "apply")
  /\ UNCHANGED <<elapsed, op, held, gone, before, calls>>
Trigger(x) ==
  LET f == held[x] IN
  /\ at[x] = "trigger"
  /\ IF fault[f].once /\ ~fault[f].triggered
     THEN fault' = [fault EXCEPT ![f].triggered = TRUE] /\ GoesTo(x, "disarm")
     ELSE GoesTo(x, "apply") /\ UNCHANGED fault
  /\ UNCHANGED <<active, elapsed, op, held, gone, before, calls>>

Disarm(x) ==
  /\ at[x] = "disarm"
  /\ Activate(0)
  /\ GoesTo(x, "disarmed")
  /\ UNCHANGED <<fault, elapsed, op, held, before, calls>>

\* check_and_apply; slow_response sleeps like pause_node.
Apply(x) ==
  /\ at[x] = "apply"
  /\ GoesTo(x, CASE fault[held[x]].mode = "error_response" -> "fails"
                 [] fault[held[x]].mode = "pause_node" -> "pause"
                 [] OTHER -> "serve")
  /\ UNCHANGED <<fault, active, elapsed, op, held, gone, before, calls>>

WakeUp(x) ==
  /\ at[x] = "pause"
  /\ GoesTo(x, "serve")
  /\ UNCHANGED <<fault, active, elapsed, op, held, gone, before, calls>>

TimePasses ==
  /\ ~elapsed
  /\ elapsed' = TRUE
  /\ UNCHANGED <<fault, active, at, op, held, gone, before, calls>>

Consult(x) ==
  \/ \E o \in Operation : Begin(x, o)
  \/ \E mode \in Mode, once \in BOOLEAN : Arm(x, mode, once)
  \/ StampArmed(x) \/ Current(x) \/ ReadTime(x) \/ Compare(x) \/ Expire(x) \/ Unset(x)
  \/ Return(x) \/ Trigger(x) \/ Disarm(x) \/ Apply(x) \/ WakeUp(x) \/ End(x)

FaultNext == (\E x \in Thread : Consult(x)) \/ TimePasses

FaultSpec == FaultInit /\ [][FaultNext]_faultVars

-----------------------------------------------------------------------------
\* Types; a request in trigger() has a fault, and an active fault has not gone.
FaultTypeOK ==
  /\ fault \in Seq([mode : Mode, once : BOOLEAN, triggered : BOOLEAN])
  /\ active \in 0..Len(fault) /\ elapsed \in BOOLEAN
  /\ at \in [Thread -> Place] /\ op \in [Thread -> Operation]
  /\ held \in [Thread -> 0..Len(fault)]
  /\ gone \subseteq DOMAIN fault \ {active}
  /\ \A x \in Thread :
       at[x] \in {"trigger", "disarm", "disarmed", "apply", "pause"} => held[x] # 0

\* "Disarm immediately so subsequent requests are not affected" (faults.py:78), and
\* so with a fault that expired or was replaced: a request that began when a fault
\* was no longer active never takes it.
GoneIsOver == \A x \in Thread : held[x] \notin before[x]

\* "Disarms the fault on the first trigger so only a single request is affected"
\* (faults.py:69-70).
OnceAffectsOne ==
  \A x, y \in Thread :
    at[x] = "apply" /\ at[y] = "apply" /\ held[x] = held[y] /\ fault[held[x]].once
      => x = y

\* No thread asks None for its duration (faults.py:51).
NoneNotAsked == \A x \in Thread : at[x] \in {"old", "fresh"} => active # 0

=============================================================================
