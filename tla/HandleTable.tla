---------------------------- MODULE HandleTable ----------------------------
(***************************************************************************)
(* What dlopen and dlclose promise for each file, without names, waiting   *)
(* or dependencies: at most one instance at a time, counted references,    *)
(* the instance kept while one of them is left, and a new instance, never  *)
(* an old one, after the last has gone.  Package dl names the same         *)
(* contract for Open and Close (ROADMAP 6.3); Registry implements it.      *)
(***************************************************************************)
EXTENDS Integers

CONSTANTS Paths, Handles, None

VARIABLES
    inst,  \* [Paths -> Handles \cup {None}]: the instance of a file
    refs,  \* [Handles -> Int]: references to an instance
    used   \* SUBSET Handles: instances there are or were

vars == <<inst, refs, used>>

Init ==
    /\ inst = [p \in Paths |-> None]
    /\ refs = [h \in Handles |-> 0]
    /\ used = {}

\* The first Open of a file, or the first since it was unloaded
Load(p, h) ==
    /\ inst[p] = None /\ h \notin used
    /\ inst' = [inst EXCEPT ![p] = h]
    /\ refs' = [refs EXCEPT ![h] = 1]
    /\ used' = used \cup {h}

\* Open of a file that is loaded
Acquire(p) ==
    /\ inst[p] # None
    /\ refs' = [refs EXCEPT ![inst[p]] = @ + 1]
    /\ UNCHANGED <<inst, used>>

\* Close while others hold references
Release(p) ==
    /\ inst[p] # None /\ refs[inst[p]] > 1
    /\ refs' = [refs EXCEPT ![inst[p]] = @ - 1]
    /\ UNCHANGED <<inst, used>>

\* Close of the last reference
Unload(p) ==
    /\ inst[p] # None /\ refs[inst[p]] = 1
    /\ refs' = [refs EXCEPT ![inst[p]] = 0]
    /\ inst' = [inst EXCEPT ![p] = None]
    /\ UNCHANGED used

Next ==
    \E p \in Paths :
        \/ \E h \in Handles : Load(p, h)
        \/ Acquire(p)
        \/ Release(p)
        \/ Unload(p)

Spec == Init /\ [][Next]_vars
=============================================================================
