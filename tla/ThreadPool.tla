------------------------------- MODULE ThreadPool -------------------------------
(***************************************************************************)
(* The threads a FastAPI server runs its handlers in.  Every handler of    *)
(* the services is a plain function: a request waits in line for one of a  *)
(* fixed number of threads and keeps it until the handler returns, or, in  *)
(* a streamed response, until the generator yields.                        *)
(***************************************************************************)
EXTENDS Naturals, Sequences, FiniteSets

CONSTANT Pool   \* the number of threads

ASSUME PoolAssumption == Pool \in Nat \ {0}

VARIABLES
  line,   \* the tasks without a thread, in the order they came
  busy    \* the tasks that have one

poolVars == <<line, busy>>

PoolInit == line = <<>> /\ busy = {}

Enqueue(t) == line' = Append(line, t) /\ UNCHANGED busy

Dispatch ==
  /\ line # <<>> /\ Cardinality(busy) < Pool
  /\ busy' = busy \cup {Head(line)}
  /\ line' = Tail(line)

Release(t) == busy' = busy \ {t} /\ UNCHANGED line

\* t goes away before it has a thread, if it is in line.
Leave(t) ==
  /\ LET at == {i \in DOMAIN line : line[i] = t}
         n == CHOOSE i \in at : TRUE
     IN line' = IF at = {} THEN line
                ELSE SubSeq(line, 1, n - 1) \o SubSeq(line, n + 1, Len(line))
  /\ UNCHANGED busy

\* The threads are enough, and a task is not in line while it has one.
PoolTypeOK(Task) ==
  /\ line \in Seq(Task) /\ busy \subseteq Task
  /\ Cardinality(busy) <= Pool
  /\ \A i \in DOMAIN line : line[i] \notin busy

=============================================================================
