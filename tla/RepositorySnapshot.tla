------------------------- MODULE RepositorySnapshot -------------------------
(***************************************************************************)
(* orchestration_snapshot.py: each snapshot operation owns a directory     *)
(* with a marker, a lease file it keeps locked for its whole life and the  *)
(* snapshot; whoever creates a snapshot first reaps the stale directories  *)
(* of operations that died.                                                *)
(*                                                                         *)
(* An actor is a thread of any process.  It works on one directory at a    *)
(* time, through a descriptor it holds, as its creator or as a reaper.     *)
(* The lease is the kernel's lock on the inode of lease.lock, which        *)
(* outlives its name as long as a descriptor is open.  A directory is old  *)
(* when its mtime is behind the retention; a change of its entries makes   *)
(* it new.  The traversal of the repository and the zip it makes happen    *)
(* under the global workflow lock and are one step here.                   *)
(***************************************************************************)
EXTENDS Naturals

CONSTANTS
    Actors,
    Operations,   \* operation ids: uuids, never used twice
    MaxFaults,    \* bound: deaths, and calls that fail where nothing cleans up
    NoOperation, Nobody

ASSUME SnapshotAssumption ==
    /\ NoOperation \notin Operations
    /\ Nobody \notin Actors
    /\ MaxFaults \in Nat

VARIABLES
    dir,      \* where the directory of each operation is in its life
    names,    \* its entries
    marked,   \* the operations whose marker is completely written
    lease,    \* who has the lease of each operation locked
    old,      \* the operations whose directory is behind the retention
    pc,       \* where each actor is
    at,       \* the operation it works on
    strict,   \* whether its cleanup requires the marker
    faults,   \* how many of these happened
    cut       \* history: operations a fault left so that no reaper may take them

directory == <<dir, names, marked>>
ghosts == <<faults, cut>>
vars == <<directory, lease, old, pc, at, strict, ghosts>>

\* What _cleanup_operation_inode unlinks, turn by turn, and what follows a turn.
Unlinking == [unlink1 |-> "snapshot", unlink2 |-> "temp", unlink3 |-> "owner", unlink4 |-> "lease"]
NextUnlink == [unlink1 |-> "unlink2", unlink2 |-> "unlink3", unlink3 |-> "unlink4",
               unlink4 |-> "unlock"]

Entries == {"snapshot", "temp", "owner", "lease"}

Creating == {"mark", "markwrite", "lease", "flock", "temp", "rename", "finish"}
Leased == {"temp", "rename", "finish", "active"}
Reaping == {"look", "take"}
Cleaning == {"recheck", "unlink1", "unlink2", "unlink3", "unlink4", "unlock", "rmdir"}
PCs == {"idle", "active"} \cup Creating \cup Reaping \cup Cleaning

Init ==
    /\ dir = [o \in Operations |-> "none"]
    /\ names = [o \in Operations |-> {}]
    /\ marked = {}
    /\ lease = [o \in Operations |-> Nobody]
    /\ old = {}
    /\ pc = [a \in Actors |-> "idle"]
    /\ at = [a \in Actors |-> NoOperation]
    /\ strict = [a \in Actors |-> FALSE]
    /\ faults = 0
    /\ cut = {}

Goto(a, where) == pc' = [pc EXCEPT ![a] = where]

(* The entries of a's directory become S, which renews its mtime. *)
Change(a, S) ==
    /\ names' = [names EXCEPT ![at[a]] = S]
    /\ old' = old \ {at[a]}

(* What a reaper looks for. *)
Reapable(o) == o \in marked /\ "lease" \in names[o]

(* What a starts with _cleanup_operation_inode. *)
StartCleanup(a, requireMarker) ==
    /\ Goto(a, "recheck")
    /\ strict' = [strict EXCEPT ![a] = requireMarker]

(* What goes wrong leaves o to the reapers, if they may take it as it is.  *)
Fault(o) ==
    /\ faults < MaxFaults
    /\ faults' = faults + 1
    /\ cut' = IF Reapable(o) THEN cut ELSE cut \cup {o}

(***************************************************************************)
(* create_repository_snapshot                                              *)
(***************************************************************************)
(* mkdir, open and fstat (lines 439-446) come before the try block: when   *)
(* the open or the fstat fails, an empty directory stays.                  *)
OpenFails(a, o) ==
    /\ pc[a] = "idle"
    /\ dir[o] = "none"
    /\ dir' = [dir EXCEPT ![o] = "present"]
    /\ Fault(o)
    /\ UNCHANGED <<names, marked, lease, old, pc, at, strict>>

MakeDirectory(a, o) ==
    /\ pc[a] = "idle"
    /\ dir[o] = "none"
    /\ dir' = [dir EXCEPT ![o] = "present"]
    /\ at' = [at EXCEPT ![a] = o]
    /\ Goto(a, "mark")
    /\ UNCHANGED <<names, marked, lease, old, strict, ghosts>>

(* The marker is created empty ... *)
CreateMarker(a) ==
    /\ pc[a] = "mark"
    /\ Change(a, names[at[a]] \cup {"owner"})
    /\ Goto(a, "markwrite")
    /\ UNCHANGED <<dir, marked, lease, at, strict, ghosts>>

(* ... and then written. *)
WriteMarker(a) ==
    /\ pc[a] = "markwrite"
    /\ marked' = marked \cup {at[a]}
    /\ Goto(a, "lease")
    /\ UNCHANGED <<dir, names, lease, old, at, strict, ghosts>>

CreateLease(a) ==
    /\ pc[a] = "lease"
    /\ Change(a, names[at[a]] \cup {"lease"})
    /\ Goto(a, "flock")
    /\ UNCHANGED <<dir, marked, lease, at, strict, ghosts>>

\* Mutant: the creator does not lock its lease.
LockLease_Opened(a) ==
    /\ pc[a] = "flock"
    /\ Goto(a, "temp")
    /\ UNCHANGED <<directory, lease, old, at, strict, ghosts>>

(* Non-blocking: a lease a reaper has locked fails the creation. *)
LockLease(a) ==
    /\ pc[a] = "flock"
    /\ lease[at[a]] = Nobody
    /\ lease' = [lease EXCEPT ![at[a]] = a]
    /\ Goto(a, "temp")
    /\ UNCHANGED <<directory, old, at, strict, ghosts>>

(* Under the global workflow lock the zip is written to a temporary ... *)
WriteTemporary(a) ==
    /\ pc[a] = "temp"
    /\ dir[at[a]] = "present"
    /\ Change(a, names[at[a]] \cup {"temp"})
    /\ Goto(a, "rename")
    /\ UNCHANGED <<dir, marked, lease, at, strict, ghosts>>

(* ... and renamed; it is identified by its descriptor. *)
RenameTemporary(a) ==
    /\ pc[a] = "rename"
    /\ Change(a, (names[at[a]] \ {"temp"}) \cup {"snapshot"})
    /\ Goto(a, "finish")
    /\ UNCHANGED <<dir, marked, lease, at, strict, ghosts>>

(* The RepositorySnapshot is returned. *)
Deliver(a) ==
    /\ pc[a] = "finish"
    /\ Goto(a, "active")
    /\ UNCHANGED <<directory, lease, old, at, strict, ghosts>>

\* Mutant: a failed creation is cleaned only with its marker.
CreationFails_Strict(a) ==
    /\ pc[a] \in Creating
    /\ StartCleanup(a, TRUE)
    /\ UNCHANGED <<directory, lease, old, at, ghosts>>

(* Anything in the try block raises: the directory is cleaned without the  *)
(* marker.                                                                 *)
CreationFails(a) ==
    /\ pc[a] \in Creating
    /\ StartCleanup(a, FALSE)
    /\ UNCHANGED <<directory, lease, old, at, ghosts>>

(* RepositorySnapshot.close. *)
CloseSnapshot(a) ==
    /\ pc[a] = "active"
    /\ StartCleanup(a, TRUE)
    /\ UNCHANGED <<directory, lease, old, at, ghosts>>

(***************************************************************************)
(* reap_stale_operation_snapshots                                          *)
(***************************************************************************)
(* The directory is opened and its mtime is behind the cutoff. *)
FindOld(a, o) ==
    /\ pc[a] = "idle"
    /\ dir[o] = "present"
    /\ o \in old
    /\ at' = [at EXCEPT ![a] = o]
    /\ Goto(a, "look")
    /\ UNCHANGED <<directory, lease, old, strict, ghosts>>

Leave(a) ==
    /\ Goto(a, "idle")
    /\ at' = [at EXCEPT ![a] = NoOperation]
    /\ strict' = [strict EXCEPT ![a] = FALSE]

(* It has a lease file and a complete marker; the lease file is opened.    *)
Examine(a) ==
    /\ pc[a] = "look"
    /\ IF Reapable(at[a])
       THEN Goto(a, "take") /\ UNCHANGED <<at, strict>>
       ELSE Leave(a)
    /\ UNCHANGED <<directory, lease, old, ghosts>>

\* Mutant: the lease is opened and not locked.
TakeLease_NoFlock(a) ==
    /\ pc[a] = "take"
    /\ StartCleanup(a, TRUE)
    /\ UNCHANGED <<directory, lease, old, at, ghosts>>

(* The lease is free, or somebody is at work and the reaper goes on. *)
TakeLease(a) ==
    /\ pc[a] = "take"
    /\ IF lease[at[a]] = Nobody
       THEN /\ lease' = [lease EXCEPT ![at[a]] = a]
            /\ StartCleanup(a, TRUE)
            /\ UNCHANGED at
       ELSE Leave(a) /\ UNCHANGED lease
    /\ UNCHANGED <<directory, old, ghosts>>

(* A call of the sweep fails, or its process dies, before the lease is     *)
(* locked: the directory is left as it is.                                 *)
GiveUp(a) ==
    /\ pc[a] \in Reaping
    /\ faults < MaxFaults
    /\ faults' = faults + 1
    /\ Leave(a)
    /\ UNCHANGED <<directory, lease, old, cut>>

(***************************************************************************)
(* _cleanup_operation_inode                                                *)
(***************************************************************************)
Recheck(a) ==
    /\ pc[a] = "recheck"
    /\ Goto(a, IF strict[a] /\ at[a] \notin marked THEN "unlock" ELSE "unlink1")
    /\ UNCHANGED <<directory, lease, old, at, strict, ghosts>>

(* One turn of the unlink loop; a missing name is passed over. *)
Unlink(a) ==
    /\ pc[a] \in DOMAIN Unlinking
    /\ LET name == Unlinking[pc[a]] IN
          /\ IF name \in names[at[a]]
             THEN Change(a, names[at[a]] \ {name})
             ELSE UNCHANGED <<names, old>>
          /\ marked' = IF name = "owner" THEN marked \ {at[a]} ELSE marked
    /\ Goto(a, NextUnlink[pc[a]])
    /\ UNCHANGED <<dir, lease, at, strict, ghosts>>

(* The marker cannot be read, the directory cannot be listed, or an unlink *)
(* raises something other than FileNotFoundError: the rest is skipped.     *)
CleanupFails(a) ==
    /\ pc[a] \in {"recheck"} \cup DOMAIN Unlinking
    /\ Fault(at[a])
    /\ Goto(a, "unlock")
    /\ UNCHANGED <<directory, lease, old, at, strict>>

(* The finally block: the lease descriptor is unlocked and closed ... *)
Unlock(a) ==
    /\ pc[a] = "unlock"
    /\ lease' = IF lease[at[a]] = a THEN [lease EXCEPT ![at[a]] = Nobody] ELSE lease
    /\ Goto(a, "rmdir")
    /\ UNCHANGED <<directory, old, at, strict, ghosts>>

\* Mutant: the directory is not removed.
RemoveDirectory_Kept(a) ==
    /\ pc[a] = "rmdir"
    /\ Leave(a)
    /\ UNCHANGED <<directory, lease, old, ghosts>>

(* ... and the directory removed if nothing is left in it. *)
RemoveDirectory(a) ==
    /\ pc[a] = "rmdir"
    /\ IF dir[at[a]] = "present" /\ names[at[a]] = {}
       THEN /\ dir' = [dir EXCEPT ![at[a]] = "removed"]
            /\ old' = old \ {at[a]}
       ELSE UNCHANGED <<dir, old>>
    /\ Leave(a)
    /\ UNCHANGED <<names, marked, lease, ghosts>>

(* The unlock, the stat of the directory or the rmdir fails. *)
RemoveFails(a) ==
    /\ pc[a] = "rmdir"
    /\ Fault(at[a])
    /\ Leave(a)
    /\ UNCHANGED <<directory, lease, old>>

(***************************************************************************)
(* The environment                                                         *)
(***************************************************************************)
(* The retention passes without a change of the directory; it is longer    *)
(* than the few calls between mkdir and the lock of the lease can take.    *)
Age(o) ==
    /\ dir[o] = "present"
    /\ o \notin old
    /\ \A a \in Actors : at[a] = o => pc[a] \notin {"mark", "markwrite", "lease", "flock"}
    /\ old' = old \cup {o}
    /\ UNCHANGED <<directory, lease, pc, at, strict, ghosts>>

(* a's process dies: the kernel unlocks its lease and the entries stay.    *)
Die(a) ==
    /\ pc[a] \notin {"idle"} \cup Reaping
    /\ Fault(at[a])
    /\ lease' = [o \in Operations |-> IF lease[o] = a THEN Nobody ELSE lease[o]]
    /\ Leave(a)
    /\ UNCHANGED <<directory, old>>

CleanUp(a) == Recheck(a) \/ Unlink(a) \/ Unlock(a) \/ RemoveDirectory(a)

Next ==
    \/ \E a \in Actors :
          \/ \E o \in Operations :
                OpenFails(a, o) \/ MakeDirectory(a, o) \/ FindOld(a, o)
          \/ CreateMarker(a) \/ WriteMarker(a) \/ CreateLease(a) \/ LockLease(a)
          \/ WriteTemporary(a) \/ RenameTemporary(a) \/ Deliver(a)
          \/ CreationFails(a) \/ CloseSnapshot(a)
          \/ Examine(a) \/ TakeLease(a) \/ GiveUp(a)
          \/ Recheck(a) \/ Unlink(a) \/ Unlock(a) \/ RemoveDirectory(a)
          \/ CleanupFails(a) \/ RemoveFails(a) \/ Die(a)
    \/ \E o \in Operations : Age(o)

Spec == Init /\ [][Next]_vars

(* Time passes and creations keep coming, each with a sweep over all the   *)
(* directories; what an actor began it goes on with.                       *)
Fairness ==
    /\ \A o \in Operations : WF_vars(Age(o))
    /\ \A a \in Actors : WF_vars(Examine(a) \/ TakeLease(a) \/ CleanUp(a))
    /\ \A o \in Operations : SF_vars(\E a \in Actors : FindOld(a, o))

FairSpec == Spec /\ Fairness

(***************************************************************************)
(* Properties                                                              *)
(***************************************************************************)
TypeOK ==
    /\ dir \in [Operations -> {"none", "present", "removed"}]
    /\ names \in [Operations -> SUBSET Entries]
    /\ marked \subseteq Operations
    /\ lease \in [Operations -> Actors \cup {Nobody}]
    /\ old \subseteq Operations
    /\ pc \in [Actors -> PCs]
    /\ at \in [Actors -> Operations \cup {NoOperation}]
    /\ strict \in [Actors -> BOOLEAN]
    /\ faults \in 0..MaxFaults
    /\ cut \subseteq Operations

(* A snapshot in use stays whole: its file, marker and lease are in its    *)
(* directory until its owner closes it, however old it is and whoever      *)
(* sweeps, fails or dies meanwhile.                                        *)
ActiveIsKept ==
    \A a \in Actors : pc[a] = "active" =>
        names[at[a]] = {"snapshot", "owner", "lease"} /\ at[a] \in marked

(* "Reap only stale, marker-proven, inactive leased operation              *)
(* directories": who unlinks entries while another actor works on the same *)
(* operation as its creator is that creator.                               *)
ReapsOnlyInactive ==
    \A a, b \in Actors :
        /\ a # b
        /\ at[a] = at[b]
        /\ pc[a] \in Creating \cup {"active"}
        => pc[b] \notin DOMAIN Unlinking

(* A directory nobody works on any more is gone, or one a reaper may take, *)
(* or a fault left it without its marker or lease: a death, a failing call *)
(* between mkdir and the try block, or one of the cleanup itself.          *)
(* Creators that fail anywhere else or close, and the reapers they race,   *)
(* never leave it to each other.                                           *)
OnlyFaultsLeave ==
    \A o \in Operations :
        dir[o] = "present" /\ (\A a \in Actors : at[a] # o) =>
            o \in cut \/ Reapable(o)

(* A directory its creator left complete, dead or after a cleanup that     *)
(* failed early, is reaped in the end, unless another fault cuts the       *)
(* reaping short.                                                          *)
AbandonedIsReaped ==
    \A o \in Operations :
        dir[o] = "present" /\ Reapable(o) /\ (\A a \in Actors : at[a] # o)
            ~> dir[o] = "removed" \/ o \in cut
=============================================================================
