------------------------- MODULE MutationExclusion -------------------------
(***************************************************************************)
(* What orchestration_locking.py promises its callers, without files,      *)
(* descriptors or polling: at most one owner is inside a lock at a time,   *)
(* and no owner is ever inside the global workflow lock and a target lock  *)
(* together.  An owner is an (asyncio task, OS thread) pair of one         *)
(* process.  OrchestrationLock implements this specification.              *)
(***************************************************************************)
CONSTANTS Owners, Global, Domains

VARIABLE inside   \* inside[l]: the owners executing the body guarded by l

Locks == {Global} \cup Domains

\* Locks whose scope may not be held together with l by one owner.
Conflicting(l) == IF l = Global THEN Domains ELSE {Global}

Init == inside = [l \in Locks |-> {}]

(* o enters a free lock, holding nothing the canonical order forbids. *)
Enter(o, l) ==
    /\ inside[l] = {}
    /\ \A k \in Conflicting(l) : o \notin inside[k]
    /\ inside' = [inside EXCEPT ![l] = {o}]

(* o leaves the lock it is inside of. *)
Leave(o, l) ==
    /\ o \in inside[l]
    /\ inside' = [inside EXCEPT ![l] = {}]

(* The owners in S disappear: their task ends or their process dies. *)
Vanish(S) == inside' = [l \in Locks |-> inside[l] \ S]

Next ==
    \/ \E o \in Owners, l \in Locks : Enter(o, l) \/ Leave(o, l)
    \/ \E S \in SUBSET Owners : Vanish(S)

Spec == Init /\ [][Next]_inside
=============================================================================
