--------------------------- MODULE ParallelRegion ---------------------------
(***************************************************************************)
(* What cpu::detail::dispatch promises its callers (backend/cpu/           *)
(* parallel.h): one region at a time; the tasks 0 .. n-1 are each executed *)
(* once, in any order and concurrently; the region ends when all have      *)
(* finished, with an error exactly when one of them threw.                 *)
(***************************************************************************)
EXTENDS Integers

CONSTANTS Callers, MaxTasks, None

VARIABLES
  region,    \* the caller whose region is open, or None
  todo,      \* indices not started
  running,   \* indices being executed
  failed,    \* has a task of this region thrown
  outcome    \* per caller, how its last region ended

vars == <<region, todo, running, failed, outcome>>

Init ==
  /\ region = None /\ todo = {} /\ running = {} /\ failed = FALSE
  /\ outcome = [c \in Callers |-> "none"]

Open(c, n) ==
  /\ region = None
  /\ region' = c /\ todo' = 0 .. n - 1 /\ failed' = FALSE
  /\ UNCHANGED <<running, outcome>>

\* The system refuses the threads the region needs: nothing is executed.
Refuse(c) ==
  /\ region = None
  /\ outcome' = [outcome EXCEPT ![c] = "noThread"]
  /\ UNCHANGED <<region, todo, running, failed>>

Start(i) ==
  /\ i \in todo
  /\ todo' = todo \ {i} /\ running' = running \cup {i}
  /\ UNCHANGED <<region, failed, outcome>>

Finish(i, throws) ==
  /\ i \in running
  /\ running' = running \ {i} /\ failed' = (failed \/ throws)
  /\ UNCHANGED <<region, todo, outcome>>

Close(c) ==
  /\ region = c /\ todo = {} /\ running = {}
  /\ region' = None /\ failed' = FALSE
  /\ outcome' = [outcome EXCEPT ![c] = IF failed THEN "error" ELSE "ok"]
  /\ UNCHANGED <<todo, running>>

Progress ==
  \/ \E i \in todo : Start(i)
  \/ \E i \in running, throws \in BOOLEAN : Finish(i, throws)
  \/ \E c \in Callers : Close(c)

Next ==
  \/ \E c \in Callers : Refuse(c) \/ \E n \in 2 .. MaxTasks : Open(c, n)
  \/ Progress

Safety == Init /\ [][Next]_vars
Spec == Safety /\ WF_vars(Progress)
=============================================================================
