------------------------- MODULE OrchestrationLock -------------------------
(***************************************************************************)
(* The lock primitives of orchestration_locking.py.                        *)
(*                                                                         *)
(* A context is one _FileLockContext object: one `with` or `async with`    *)
(* block.  Ownership of a lock is the kernel's flock on the descriptor a   *)
(* context opened; _HELD_LOCKS (here held) remembers, per lock path and    *)
(* owner, how many nested contexts of that owner are entered.  An owner is *)
(* the pair (current asyncio task or None, OS thread), so several owners   *)
(* may share one thread: the tasks of one event loop.                      *)
(*                                                                         *)
(* The deadline of a wait is the flag expired: time.monotonic() has passed *)
(* it.  A refused acquisition (LockOrderViolation) changes no state and is *)
(* a stuttering step.                                                      *)
(***************************************************************************)
EXTENDS Naturals, FiniteSets

CONSTANTS
    Processes, Threads, Owners,
    Tasks,        \* the owners whose first component is an asyncio task
    ThreadOf,     \* the thread of an owner
    ProcessOf,    \* the process of a thread
    Global,       \* the global workflow lock file
    Domains,      \* the target mutation lock files, one per mutation domain
    Contexts,     \* names for context objects, reused after they are closed
    OwnerOf,      \* the owner that enters a context
    NoContext

ASSUME ConstantsAssumption ==
    /\ ThreadOf \in [Owners -> Threads]
    /\ ProcessOf \in [Threads -> Processes]
    /\ Tasks \subseteq Owners
    /\ Global \notin Domains
    /\ IsFiniteSet(Contexts)
    /\ OwnerOf \in [Contexts -> Owners]
    /\ NoContext \notin Contexts

VARIABLES
    phase,    \* where each context is in its life
    ctx,      \* what a context was created with; Unused when it is closed
    expired,  \* the waiting contexts whose deadline has passed
    flock,    \* the kernel: the context whose descriptor holds each lock file
    held,     \* _HELD_LOCKS: the recorded depth of each (lock, owner)
    ended     \* tasks that finished leaving contexts open

vars == <<phase, ctx, expired, flock, held, ended>>

Locks == {Global} \cup Domains

Phases == {"closed", "waiting", "locked", "in", "releasing", "stranded"}

Unused == [lock |-> Global, async |-> FALSE, reentrant |-> FALSE, outer |-> {}]

Context == [lock : Locks, async : BOOLEAN, reentrant : BOOLEAN,
            outer : SUBSET Contexts]

(***************************************************************************)
(* Helpers                                                                 *)
(***************************************************************************)
Open(c) == phase[c] \in {"waiting", "locked", "in", "releasing"}

OpenOf(o) == {c \in Contexts : OwnerOf[c] = o /\ Open(c)}

(* Contexts of o that made an entry in held on l. *)
RecordedOn(o, l) ==
    {c \in Contexts : OwnerOf[c] = o /\ phase[c] = "in" /\ ctx[c].lock = l}

(* o is executing lock code that never yields its thread: the poll loop of *)
(* a synchronous wait, or the lines between flock and the return.          *)
Occupies(o) ==
    \E c \in OpenOf(o) :
        \/ phase[c] \in {"locked", "releasing"}
        \/ phase[c] = "waiting" /\ ~ctx[c].async

(* The tasks of one event loop share its thread. *)
CanRun(o) ==
    \A p \in Owners \ {o} : ThreadOf[p] = ThreadOf[o] => ~Occupies(p)

(* o is running the body of its innermost block, or no block at all. *)
InBody(o) == o \notin ended /\ CanRun(o) /\ \A c \in OpenOf(o) : phase[c] = "in"

Close(S) ==
    /\ phase' = [c \in Contexts |-> IF c \in S THEN "closed" ELSE phase[c]]
    /\ ctx' = [c \in Contexts |-> IF c \in S THEN Unused ELSE ctx[c]]
    /\ expired' = expired \ S

\* Mutant: the key of _HELD_LOCKS forgets the owner.
Reentrant_AnyOwner(o, l) ==
    \E p \in Owners : ProcessOf[ThreadOf[p]] = ProcessOf[ThreadOf[o]] /\ held[l][p] > 0

\* Mutant: only the acquisition of the global lock is checked.
OrderViolation_OneWay(o, l) == l = Global /\ \E d \in Domains : held[d][o] > 0

(* _check_order, lines 129-147: the two answers it can return. *)
Reentrant(o, l) == held[l][o] > 0

OrderViolation(o, l) ==
    IF l = Global THEN \E d \in Domains : held[d][o] > 0
                  ELSE held[Global][o] > 0

Init ==
    /\ phase = [c \in Contexts |-> "closed"]
    /\ ctx = [c \in Contexts |-> Unused]
    /\ expired = {}
    /\ flock = [l \in Locks |-> NoContext]
    /\ held = [l \in Locks |-> [o \in Owners |-> 0]]
    /\ ended = {}

(***************************************************************************)
(* Acquisition                                                             *)
(***************************************************************************)
NewContext(c, l, async, reentrant) ==
    /\ phase[c] = "closed"
    /\ async => OwnerOf[c] \in Tasks
    /\ ctx' = [ctx EXCEPT ![c] = [lock |-> l, async |-> async,
                                  reentrant |-> reentrant,
                                  outer |-> OpenOf(OwnerOf[c])]]

(* __enter__ / __aenter__ of a lock the owner already holds: only counted. *)
Reenter(c, l, async) ==
    /\ InBody(OwnerOf[c])
    /\ Reentrant(OwnerOf[c], l)
    /\ NewContext(c, l, async, TRUE)
    /\ phase' = [phase EXCEPT ![c] = "in"]
    /\ held' = [held EXCEPT ![l][OwnerOf[c]] = @ + 1]
    /\ UNCHANGED <<expired, flock, ended>>

(* __enter__ / __aenter__ otherwise: open a descriptor and start polling.  *)
(* A timeout of zero is expired from the start.                            *)
StartWait(c, l, async) ==
    /\ InBody(OwnerOf[c])
    /\ ~Reentrant(OwnerOf[c], l)
    /\ ~OrderViolation(OwnerOf[c], l)
    /\ NewContext(c, l, async, FALSE)
    /\ phase' = [phase EXCEPT ![c] = "waiting"]
    /\ \/ expired' = expired
       \/ expired' = expired \cup {c}
    /\ UNCHANGED <<flock, held, ended>>

(* time.monotonic() passes the deadline of a wait. *)
DeadlinePasses(c) ==
    /\ phase[c] = "waiting"
    /\ c \notin expired
    /\ expired' = expired \cup {c}
    /\ UNCHANGED <<phase, ctx, flock, held, ended>>

\* Mutant: the descriptor is locked LOCK_SH.
TryLock_Shared(c) ==
    /\ phase[c] = "waiting"
    /\ CanRun(OwnerOf[c])
    /\ flock' = [flock EXCEPT ![ctx[c].lock] = c]
    /\ phase' = [phase EXCEPT ![c] = "locked"]
    /\ expired' = expired \ {c}
    /\ UNCHANGED <<ctx, held, ended>>

(* One iteration of the poll loop in which flock succeeds. *)
TryLock(c) ==
    /\ phase[c] = "waiting"
    /\ CanRun(OwnerOf[c])
    /\ flock[ctx[c].lock] = NoContext
    /\ flock' = [flock EXCEPT ![ctx[c].lock] = c]
    /\ phase' = [phase EXCEPT ![c] = "locked"]
    /\ expired' = expired \ {c}
    /\ UNCHANGED <<ctx, held, ended>>

\* Mutant: the deadline is computed anew instead of raising.
TimeOut_Restarts(c) ==
    /\ phase[c] = "waiting"
    /\ CanRun(OwnerOf[c])
    /\ flock[ctx[c].lock] # NoContext
    /\ c \in expired
    /\ expired' = expired \ {c}
    /\ UNCHANGED <<phase, ctx, flock, held, ended>>

(* One iteration in which flock fails after the deadline: the descriptor   *)
(* is closed and OrchestrationLockTimeout is raised.                       *)
TimeOut(c) ==
    /\ phase[c] = "waiting"
    /\ CanRun(OwnerOf[c])
    /\ flock[ctx[c].lock] # NoContext
    /\ c \in expired
    /\ Close({c})
    /\ UNCHANGED <<flock, held, ended>>

(* CancelledError delivered at the sleep of an asynchronous wait. *)
Cancel(c) ==
    /\ phase[c] = "waiting"
    /\ ctx[c].async
    /\ CanRun(OwnerOf[c])
    /\ Close({c})
    /\ UNCHANGED <<flock, held, ended>>

(* _record_acquisition, and for a task the done callback is armed. *)
RecordAcquisition(c) ==
    /\ phase[c] = "locked"
    /\ phase' = [phase EXCEPT ![c] = "in"]
    /\ held' = [held EXCEPT ![ctx[c].lock][OwnerOf[c]] = @ + 1]
    /\ UNCHANGED <<ctx, expired, flock, ended>>

\* Mutant: __aenter__ forgets the descriptor, and does not release it.
RecordRaises_ForgetsFd(c) ==
    /\ phase[c] = "locked"
    /\ IF ctx[c].async
       THEN Close({c})
       ELSE /\ phase' = [phase EXCEPT ![c] = "stranded"]
            /\ UNCHANGED <<ctx, expired>>
    /\ UNCHANGED <<flock, held, ended>>

(* _record_acquisition raises, before it wrote the entry, after the        *)
(* descriptor was handed to the context.  __aenter__ releases it;          *)
(* __enter__ closes only the local variable, already -1, and strands the   *)
(* locked descriptor.  Between the entry and the return (lines 288-289)    *)
(* only the armed callback and asynchronous exceptions (KeyboardInterrupt) *)
(* could raise: not modelled.                                              *)
RecordRaises(c) ==
    /\ phase[c] = "locked"
    /\ IF ctx[c].async
       THEN /\ flock' = [flock EXCEPT ![ctx[c].lock] = NoContext]
            /\ Close({c})
       ELSE /\ phase' = [phase EXCEPT ![c] = "stranded"]
            /\ UNCHANGED <<flock, ctx, expired>>
    /\ UNCHANGED <<held, ended>>

(***************************************************************************)
(* Release                                                                 *)
(***************************************************************************)
\* Mutant: every level of nesting unlocks the file.
Unrecord_Unlocks(c) ==
    /\ held' = [held EXCEPT ![ctx[c].lock][OwnerOf[c]] = @ - 1]
    /\ flock' = [flock EXCEPT ![ctx[c].lock] = NoContext]
    /\ Close({c})
    /\ UNCHANGED ended

(* _force_release up to the descriptor: the depth is decremented; a        *)
(* reentrant context has no descriptor and is done.                        *)
Unrecord(c) ==
    /\ held' = [held EXCEPT ![ctx[c].lock][OwnerOf[c]] = @ - 1]
    /\ IF ctx[c].reentrant
       THEN Close({c})
       ELSE /\ phase' = [phase EXCEPT ![c] = "releasing"]
            /\ UNCHANGED <<ctx, expired>>
    /\ UNCHANGED <<flock, ended>>

(* __exit__ / __aexit__: the innermost block of a running owner ends. *)
Exit(c) ==
    /\ phase[c] = "in"
    /\ InBody(OwnerOf[c])
    /\ \A d \in OpenOf(OwnerOf[c]) : c \notin ctx[d].outer
    /\ Unrecord(c)

(* _release_fd: LOCK_UN and close. *)
ReleaseFd(c) ==
    /\ phase[c] = "releasing"
    /\ flock' = [flock EXCEPT ![ctx[c].lock] = NoContext]
    /\ Close({c})
    /\ UNCHANGED <<held, ended>>

(* A task finishes without leaving its asynchronous blocks. *)
TaskDone(o) ==
    /\ o \in Tasks
    /\ InBody(o)
    /\ OpenOf(o) # {}
    /\ \A c \in OpenOf(o) : ctx[c].async
    /\ ended' = ended \cup {o}
    /\ UNCHANGED <<phase, ctx, expired, flock, held>>

\* Mutant: only nested acquisitions arm the callback.
OwnerTaskDone_NestedOnly(c) ==
    /\ phase[c] = "in"
    /\ ctx[c].reentrant
    /\ OwnerOf[c] \in ended
    /\ CanRun(OwnerOf[c])
    /\ ctx[c].outer \cap OpenOf(OwnerOf[c]) = {}
    /\ Unrecord(c)

(* _owner_task_done: the done callbacks run in the order they were armed, *)
(* outermost block first.                                                  *)
OwnerTaskDone(c) ==
    /\ phase[c] = "in"
    /\ OwnerOf[c] \in ended
    /\ CanRun(OwnerOf[c])
    /\ ctx[c].outer \cap OpenOf(OwnerOf[c]) = {}
    /\ Unrecord(c)

(* All callbacks of a finished task have run; its name is free for a new   *)
(* task, which is a different owner to the code.                           *)
Collect(o) ==
    /\ o \in ended
    /\ OpenOf(o) = {}
    /\ ended' = ended \ {o}
    /\ UNCHANGED <<phase, ctx, expired, flock, held>>

(* Process p dies: the kernel closes its descriptors and its table is gone.*)
OwnersOf(p) == {o \in Owners : ProcessOf[ThreadOf[o]] = p}

ContextsOf(p) == {c \in Contexts : OwnerOf[c] \in OwnersOf(p)}

ProcessDies(p) ==
    /\ Close(ContextsOf(p))
    /\ flock' = [l \in Locks |->
                   IF flock[l] \in ContextsOf(p) THEN NoContext ELSE flock[l]]
    /\ held' = [l \in Locks |-> [o \in Owners |->
                   IF o \in OwnersOf(p) THEN 0 ELSE held[l][o]]]
    /\ ended' = ended \ OwnersOf(p)

(***************************************************************************)
(* Specification                                                           *)
(***************************************************************************)
Poll(c) == TryLock(c) \/ TimeOut(c)

Next ==
    \/ \E c \in Contexts, l \in Locks, async \in BOOLEAN :
          Reenter(c, l, async) \/ StartWait(c, l, async)
    \/ \E c \in Contexts :
          \/ DeadlinePasses(c) \/ TryLock(c) \/ TimeOut(c) \/ Cancel(c)
          \/ RecordAcquisition(c) \/ RecordRaises(c)
          \/ Exit(c) \/ ReleaseFd(c) \/ OwnerTaskDone(c)
    \/ \E o \in Owners : TaskDone(o) \/ Collect(o)
    \/ \E p \in Processes : ProcessDies(p)

Spec == Init /\ [][Next]_vars

(* Time passes; a thread that can run its lock code does; an event loop    *)
(* serves its ready queue in order, so a poller or a callback that is      *)
(* runnable again and again does run (strong fairness).  Nothing is        *)
(* assumed of the guarded bodies: they may never end.  An owner has at     *)
(* most one block in the poll loop or in the lines of a release at a time. *)
LockCode(c) == RecordAcquisition(c) \/ RecordRaises(c) \/ ReleaseFd(c)

Fairness ==
    \A o \in Owners : LET Of == {c \in Contexts : OwnerOf[c] = o} IN
        /\ WF_vars(\E c \in Of : DeadlinePasses(c))
        /\ SF_vars(\E c \in Of : Poll(c))
        /\ WF_vars(\E c \in Of : LockCode(c))
        /\ SF_vars(\E c \in Of : OwnerTaskDone(c))
        /\ WF_vars(Collect(o))

FairSpec == Spec /\ Fairness

(***************************************************************************)
(* Properties                                                              *)
(***************************************************************************)
TypeOK ==
    /\ phase \in [Contexts -> Phases]
    /\ ctx \in [Contexts -> Context]
    /\ expired \subseteq Contexts
    /\ flock \in [Locks -> Contexts \cup {NoContext}]
    /\ held \in [Locks -> [Owners -> Nat]]
    /\ ended \subseteq Tasks

(* The owners executing a body guarded by l. *)
Inside(l) == {o \in Owners \ ended : RecordedOn(o, l) # {}}

(* Two owners are never both inside a body guarded by the same lock,       *)
(* whatever mixture of tasks, threads, processes, nesting, timeouts,       *)
(* cancellations and crashes led there.                                    *)
MutualExclusion ==
    \A l \in Locks : \A o, p \in Inside(l) : o = p

(* The canonical order (module docstring, lines 7-16): a live owner inside *)
(* the global workflow lock neither holds nor waits for a target lock, and *)
(* an owner waiting for the global lock holds no target lock; hence the    *)
(* global lock is on no cycle of owners waiting for each other.            *)
CanonicalOrder ==
    \A o \in Owners \ ended : \A c, d \in OpenOf(o) :
        (ctx[c].lock = Global) <=> (ctx[d].lock = Global)

(* An entry in _HELD_LOCKS of a live owner is backed by the kernel: the    *)
(* flock belongs to one of that owner's open contexts.  A stale entry      *)
(* would let a later acquisition through without a lock at all.            *)
RecordedIsLocked ==
    \A o \in Owners \ ended, l \in Locks :
        held[l][o] > 0 => flock[l] \in RecordedOn(o, l)

(* The recorded depth is the number of blocks entered and not left, so the *)
(* entry disappears exactly with the last of them.                         *)
DepthIsNesting ==
    \A o \in Owners, l \in Locks : held[l][o] = Cardinality(RecordedOn(o, l))

(* "cancellation cannot strand an acquired fd" (lines 283-284): every lock *)
(* file held by the kernel belongs to an open context, which will release  *)
(* it, or to one whose synchronous __enter__ failed after flock; never to  *)
(* a closed context, nor to an asynchronous one that gave up.              *)
NothingStrandedByAsync ==
    \A l \in Locks : flock[l] # NoContext =>
        \/ Open(flock[l])
        \/ phase[flock[l]] = "stranded" /\ ~ctx[flock[l]].async

(* An owner waits in its innermost block only. *)
Waiting(o) == \E c \in OpenOf(o) : phase[c] = "waiting"

(* An acquisition attempt ends: acquired, timed out, cancelled or its      *)
(* process dead.  In particular two owners nesting target locks in         *)
(* opposite orders, or a task that polls synchronously on its event loop   *)
(* for a lock another task of that loop holds, do not wait for ever.       *)
WaitsResolve == \A o \in Owners : Waiting(o) ~> ~Waiting(o)

(* The locks of a task that ended without leaving its blocks are released. *)
AbandonedAreReleased ==
    \A o \in Tasks : o \in ended ~> o \notin ended

(* Every step is a step, or no step, of the abstract exclusion.            *)
Exclusion == INSTANCE MutationExclusion
    WITH inside <- [l \in Locks |-> Inside(l)]

ExclusionSpec == Exclusion!Spec
=============================================================================
