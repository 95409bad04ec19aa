------------------------ MODULE MCOrchestrationLock ------------------------
(***************************************************************************)
(* One server process whose event loop runs the tasks t1 and t2, and a     *)
(* second process (a deploy script) with the worker thread w1.             *)
(***************************************************************************)
EXTENDS OrchestrationLock, TLC

CONSTANTS p1, p2, loop, worker, t1, t2, w1, a1, a2, a3, b1, b2

(* The event loop of one process and a thread of another. *)
MCThreadOf == t1 :> loop @@ t2 :> loop @@ w1 :> worker
MCProcessOf == loop :> p1 @@ worker :> p2
MCOwnerOf == a1 :> t1 @@ a2 :> t1 @@ a3 :> t1 @@ b1 :> t2 @@ b2 :> w1

(* The event loop alone. *)
MCLoopThreadOf == t1 :> loop @@ t2 :> loop
MCLoopProcessOf == loop :> p1
MCLoopOwnerOf == a1 :> t1 @@ a2 :> t1 @@ b1 :> t2 @@ b2 :> t2

NestSymmetry == Permutations({a1, a2, a3})
=============================================================================
