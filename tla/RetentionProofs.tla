--------------------------- MODULE RetentionProofs ---------------------------
(***************************************************************************)
(* What removes old things removes only what it may, for any number of     *)
(* processes. First the snapshots of operations: no reaper touches one     *)
(* that is in use, and no directory is left to nobody but by a fault. Then *)
(* the screenshots: the store stays bounded and serves only whole images,  *)
(* although every process cleans it by a listing that may be out of date.  *)
(***************************************************************************)
EXTENDS RepositorySnapshot, ScreenshotStore, FiniteSetTheorems, Integers, TLAPS

(***************************************************************************)
(* The snapshots. The creator of a directory is alone with it until it has *)
(* locked the lease, and meets none but reapers that have not locked it    *)
(* from then on, as long as it does not clean up itself. A directory no    *)
(* reaper may take has an actor that is going to finish or to remove it.   *)
(***************************************************************************)

Unleased == {"mark", "markwrite", "lease", "flock"}
Owning == Creating \cup {"active"}

(* Who is at work is at work on a directory that was made. *)
Placed == \A a \in Actors :
    IF pc[a] = "idle" THEN at[a] = NoOperation
    ELSE at[a] \in Operations /\ dir[at[a]] # "none"

Unmade == \A o \in Operations : dir[o] = "none" => names[o] = {} /\ o \notin old

(* A creator is alone until its lease is locked; then reapers may look on. *)
Alone == \A a, b \in Actors :
    a # b /\ at[a] = at[b] /\ pc[a] \in Owning => pc[b] \in Reaping /\ pc[a] \notin Unleased

Young == \A a \in Actors : pc[a] \in Unleased => at[a] \notin old

(* Its entries are the ones it has made so far. *)
Kept == \A a \in Actors : pc[a] \in Owning =>
    /\ dir[at[a]] = "present"
    /\ "owner" \in names[at[a]] <=> pc[a] # "mark"
    /\ pc[a] \notin {"mark", "markwrite"} => at[a] \in marked
    /\ "lease" \in names[at[a]] <=> pc[a] \notin {"mark", "markwrite", "lease"}
    /\ "temp" \in names[at[a]] <=> pc[a] = "rename"
    /\ "snapshot" \in names[at[a]] <=> pc[a] \in {"finish", "active"}

Locked == \A a \in Actors : pc[a] \in Leased => lease[at[a]] = a

(* What the unlink loop has passed is not there any more. *)
Passed == \A a \in Actors :
    /\ pc[a] \in {"unlink2", "unlink3", "unlink4"} => "snapshot" \notin names[at[a]]
    /\ pc[a] \in {"unlink3", "unlink4"} => "temp" \notin names[at[a]]
    /\ pc[a] = "unlink4" => "owner" \notin names[at[a]]

(* a will finish o's marker and lease, or remove everything of it. *)
Attends(a, o) ==
    /\ at[a] = o
    /\ \/ pc[a] \in {"mark", "markwrite", "lease"}
       \/ pc[a] = "recheck" /\ ~strict[a]
       \/ pc[a] \in DOMAIN Unlinking
       \/ pc[a] \in {"unlock", "rmdir"} /\ names[o] = {}

Unfinished(o) == dir[o] = "present" /\ o \notin cut /\ ~Reapable(o)

Attended == \A o \in Operations : Unfinished(o) => \E a \in Actors : Attends(a, o)

IInv == /\ TypeOK /\ Placed /\ Unmade /\ Alone /\ Young /\ Kept /\ Locked /\ Passed
        /\ Attended


-----------------------------------------------------------------------------
Unlinkers == {"unlink1", "unlink2", "unlink3", "unlink4"}

LEMMA UnlinkOrder ==
    /\ DOMAIN Unlinking = Unlinkers
    /\ Unlinking["unlink1"] = "snapshot" /\ NextUnlink["unlink1"] = "unlink2"
    /\ Unlinking["unlink2"] = "temp" /\ NextUnlink["unlink2"] = "unlink3"
    /\ Unlinking["unlink3"] = "owner" /\ NextUnlink["unlink3"] = "unlink4"
    /\ Unlinking["unlink4"] = "lease" /\ NextUnlink["unlink4"] = "unlock"
BY DEF Unlinking, NextUnlink, Unlinkers

LEMMA Start == Init => IInv
<1> SUFFICES ASSUME Init PROVE IInv
  OBVIOUS
<1> USE DEF Init
<1>1. TypeOK
  BY SnapshotAssumption DEF TypeOK, PCs
<1>2. Placed /\ Unmade /\ Alone /\ Young
  BY DEF Placed, Unmade, Alone, Young, Owning, Creating
<1>3. Kept /\ Locked /\ Passed
  BY DEF Kept, Locked, Passed, Owning, Creating, Leased
<1>4. Attended
  BY DEF Attended, Unfinished
<1>5. QED
  BY <1>1, <1>2, <1>3, <1>4 DEF IInv

(* Only actor a moves. *)
Only(a) == \A b \in Actors : b # a =>
    pc'[b] = pc[b] /\ at'[b] = at[b] /\ strict'[b] = strict[b]

(* Somebody else's care for an operation is not disturbed: only a creator  *)
(* adds entries, and beside a creator nobody cleans up.                    *)
LEMMA OthersAttend ==
    ASSUME IInv, NEW a \in Actors, Only(a), NEW o \in Operations,
           NEW b \in Actors, b # a, Attends(b, o),
           names'[o] \subseteq names[o] \/ (at[a] = o /\ pc[a] \in Owning)
    PROVE  Attends(b, o)'
<1>1. pc'[b] = pc[b] /\ at'[b] = at[b] /\ strict'[b] = strict[b]
  BY DEF Only
<1>2. CASE names'[o] \subseteq names[o]
  BY <1>1, <1>2 DEF Attends
<1>3. CASE at[a] = o /\ pc[a] \in Owning
  <2>1. pc[b] \in Reaping
    BY <1>3 DEF Attends, IInv, Alone
  <2>2. QED
    BY <2>1, UnlinkOrder DEF Attends, Reaping, Unlinkers
<1>4. QED
  BY <1>2, <1>3

(* So an operation stays attended when what a does leaves nothing new      *)
(* unfinished, and a does not leave what it attends.                       *)
LEMMA StaysAttended ==
    ASSUME IInv, NEW a \in Actors, Only(a),
           \A o \in Operations : names'[o] \subseteq names[o] \/ (at[a] = o /\ pc[a] \in Owning),
           \A o \in Operations : Unfinished(o)' => Unfinished(o) \/ Attends(a, o)',
           \A o \in Operations : Unfinished(o)' /\ Attends(a, o) => Attends(a, o)'
    PROVE  Attended'
<1> SUFFICES ASSUME NEW o \in Operations, Unfinished(o)'
             PROVE  \E b \in Actors : Attends(b, o)'
  BY DEF Attended
<1>1. CASE Attends(a, o)'
  BY <1>1
<1>2. CASE ~Attends(a, o)'
  <2>1. PICK b \in Actors : Attends(b, o)
    BY <1>2 DEF IInv, Attended
  <2>2. b # a
    BY <1>2, <2>1
  <2>3. QED
    BY <2>1, OthersAttend
<1>3. QED
  BY <1>2


-----------------------------------------------------------------------------
(* One lemma per action, as Next has them. *)
USE DEF Leased, Creating, Reaping, Cleaning, Owning, Unleased, Unlinkers

LEMMA MakeDirectoryKeeps ==
    ASSUME IInv, NEW a \in Actors, NEW o \in Operations, MakeDirectory(a, o)
    PROVE  IInv'
<1> USE SnapshotAssumption DEF IInv, TypeOK, Placed, directory, ghosts, Goto, MakeDirectory
<1>1. TypeOK'
  BY DEF PCs
<1>2. Placed' /\ Unmade' /\ Young'
  BY DEF Unmade, Young
<1>3. Alone' /\ Locked'
  BY DEF Alone, Locked
<1>4. Kept' /\ Passed'
  BY DEF Kept, Unmade, Passed
<1>5. Attended'
  <2>1. Only(a) /\ \A u \in Operations :
                      names'[u] \subseteq names[u] \/ (at[a] = u /\ pc[a] \in Owning)
    BY DEF Only
  <2>2. \A u \in Operations : Unfinished(u)' =>
           (Unfinished(u) \/ Attends(a, u)') /\ (Attends(a, u) => Attends(a, u)')
    BY DEF Unfinished, Attends, Reapable
  <2>3. QED
    BY <2>1, <2>2, StaysAttended
<1>6. QED
  BY <1>1, <1>2, <1>3, <1>4, <1>5

LEMMA OpenFailsKeeps ==
    ASSUME IInv, NEW a \in Actors, NEW o \in Operations, OpenFails(a, o)
    PROVE  IInv'
<1> USE SnapshotAssumption DEF IInv, TypeOK, Placed, directory, ghosts, Goto, OpenFails, Fault
<1>1. TypeOK'
  BY DEF PCs
<1>2. Placed' /\ Unmade' /\ Young'
  BY DEF Unmade, Young
<1>3. Alone' /\ Locked'
  BY DEF Alone, Locked
<1>4. Kept' /\ Passed'
  BY DEF Kept, Unmade, Passed
<1>5. Attended'
  <2>1. Only(a) /\ \A u \in Operations :
                      names'[u] \subseteq names[u] \/ (at[a] = u /\ pc[a] \in Owning)
    BY DEF Only
  <2>2. \A u \in Operations : Unfinished(u)' =>
           (Unfinished(u) \/ Attends(a, u)') /\ (Attends(a, u) => Attends(a, u)')
    BY DEF Unfinished, Attends, Reapable
  <2>3. QED
    BY <2>1, <2>2, StaysAttended
<1>6. QED
  BY <1>1, <1>2, <1>3, <1>4, <1>5

LEMMA CreateMarkerKeeps ==
    ASSUME IInv, NEW a \in Actors, CreateMarker(a)
    PROVE  IInv'
<1> USE SnapshotAssumption DEF IInv, TypeOK, Placed, directory, ghosts, Goto, CreateMarker, Change
<1>1. TypeOK'
  BY DEF PCs, Entries
<1>2. Placed' /\ Unmade' /\ Young'
  BY DEF Unmade, Young
<1>3. Alone' /\ Locked'
  BY DEF Alone, Locked
<1>4. Kept' /\ Passed'
  BY DEF Kept, Alone, Passed
<1>5. Attended'
  <2>1. Only(a) /\ \A u \in Operations :
                      names'[u] \subseteq names[u] \/ (at[a] = u /\ pc[a] \in Owning)
    BY DEF Only
  <2>2. \A u \in Operations : Unfinished(u)' =>
           (Unfinished(u) \/ Attends(a, u)') /\ (Attends(a, u) => Attends(a, u)')
    BY DEF Unfinished, Attends, Reapable
  <2>3. QED
    BY <2>1, <2>2, StaysAttended
<1>6. QED
  BY <1>1, <1>2, <1>3, <1>4, <1>5

LEMMA WriteMarkerKeeps ==
    ASSUME IInv, NEW a \in Actors, WriteMarker(a)
    PROVE  IInv'
<1> USE SnapshotAssumption DEF IInv, TypeOK, Placed, directory, ghosts, Goto, WriteMarker
<1>1. TypeOK'
  BY DEF PCs
<1>2. Placed' /\ Unmade' /\ Young'
  BY DEF Unmade, Young
<1>3. Alone' /\ Locked'
  BY DEF Alone, Locked
<1>4. Kept' /\ Passed'
  BY DEF Kept, Passed
<1>5. Attended'
  <2>1. Only(a) /\ \A u \in Operations :
                      names'[u] \subseteq names[u] \/ (at[a] = u /\ pc[a] \in Owning)
    BY DEF Only
  <2>2. \A u \in Operations : Unfinished(u)' =>
           (Unfinished(u) \/ Attends(a, u)') /\ (Attends(a, u) => Attends(a, u)')
    BY DEF Unfinished, Attends, Reapable
  <2>3. QED
    BY <2>1, <2>2, StaysAttended
<1>6. QED
  BY <1>1, <1>2, <1>3, <1>4, <1>5

LEMMA CreateLeaseKeeps ==
    ASSUME IInv, NEW a \in Actors, CreateLease(a)
    PROVE  IInv'
<1> USE SnapshotAssumption DEF IInv, TypeOK, Placed, directory, ghosts, Goto, CreateLease, Change
<1>1. TypeOK'
  BY DEF PCs, Entries
<1>2. Placed' /\ Unmade' /\ Young'
  BY DEF Unmade, Young
<1>3. Alone' /\ Locked'
  BY DEF Alone, Locked
<1>4. Kept' /\ Passed'
  BY DEF Kept, Alone, Passed
<1>5. Attended'
  <2>1. Only(a) /\ \A u \in Operations :
                      names'[u] \subseteq names[u] \/ (at[a] = u /\ pc[a] \in Owning)
    BY DEF Only
  <2>2. \A u \in Operations : Unfinished(u)' =>
           (Unfinished(u) \/ Attends(a, u)') /\ (Attends(a, u) => Attends(a, u)')
    BY DEF Unfinished, Attends, Reapable, Kept
  <2>3. QED
    BY <2>1, <2>2, StaysAttended
<1>6. QED
  BY <1>1, <1>2, <1>3, <1>4, <1>5

LEMMA LockLeaseKeeps ==
    ASSUME IInv, NEW a \in Actors, LockLease(a)
    PROVE  IInv'
<1> USE SnapshotAssumption DEF IInv, TypeOK, Placed, directory, ghosts, Goto, LockLease
<1>1. TypeOK'
  BY DEF PCs
<1>2. Placed' /\ Unmade' /\ Young'
  BY DEF Unmade, Young
<1>3. Alone' /\ Locked'
  BY DEF Alone, Locked
<1>4. Kept' /\ Passed'
  BY DEF Kept, Passed
<1>5. Attended'
  <2>1. Only(a) /\ \A u \in Operations :
                      names'[u] \subseteq names[u] \/ (at[a] = u /\ pc[a] \in Owning)
    BY DEF Only
  <2>2. \A u \in Operations : Unfinished(u)' =>
           (Unfinished(u) \/ Attends(a, u)') /\ (Attends(a, u) => Attends(a, u)')
    BY UnlinkOrder DEF Unfinished, Attends, Reapable
  <2>3. QED
    BY <2>1, <2>2, StaysAttended
<1>6. QED
  BY <1>1, <1>2, <1>3, <1>4, <1>5

LEMMA WriteTemporaryKeeps ==
    ASSUME IInv, NEW a \in Actors, WriteTemporary(a)
    PROVE  IInv'
<1> USE SnapshotAssumption DEF IInv, TypeOK, Placed, directory, ghosts, Goto, WriteTemporary, Change
<1>1. TypeOK'
  BY DEF PCs, Entries
<1>2. Placed' /\ Unmade' /\ Young'
  BY DEF Unmade, Young
<1>3. Alone' /\ Locked'
  BY DEF Alone, Locked
<1>4. Kept' /\ Passed'
  BY DEF Kept, Alone, Passed
<1>5. Attended'
  <2>1. Only(a) /\ \A u \in Operations :
                      names'[u] \subseteq names[u] \/ (at[a] = u /\ pc[a] \in Owning)
    BY DEF Only
  <2>2. \A u \in Operations : Unfinished(u)' =>
           (Unfinished(u) \/ Attends(a, u)') /\ (Attends(a, u) => Attends(a, u)')
    BY UnlinkOrder DEF Unfinished, Attends, Reapable
  <2>3. QED
    BY <2>1, <2>2, StaysAttended
<1>6. QED
  BY <1>1, <1>2, <1>3, <1>4, <1>5

LEMMA RenameTemporaryKeeps ==
    ASSUME IInv, NEW a \in Actors, RenameTemporary(a)
    PROVE  IInv'
<1> USE SnapshotAssumption DEF IInv, TypeOK, Placed, directory, ghosts, Goto, RenameTemporary, Change
<1>1. TypeOK'
  BY DEF PCs, Entries
<1>2. Placed' /\ Unmade' /\ Young'
  BY DEF Unmade, Young
<1>3. Alone' /\ Locked'
  BY DEF Alone, Locked
<1>4. Kept' /\ Passed'
  BY DEF Kept, Alone, Passed
<1>5. Attended'
  <2>1. Only(a) /\ \A u \in Operations :
                      names'[u] \subseteq names[u] \/ (at[a] = u /\ pc[a] \in Owning)
    BY DEF Only
  <2>2. \A u \in Operations : Unfinished(u)' =>
           (Unfinished(u) \/ Attends(a, u)') /\ (Attends(a, u) => Attends(a, u)')
    BY UnlinkOrder DEF Unfinished, Attends, Reapable
  <2>3. QED
    BY <2>1, <2>2, StaysAttended
<1>6. QED
  BY <1>1, <1>2, <1>3, <1>4, <1>5

LEMMA DeliverKeeps ==
    ASSUME IInv, NEW a \in Actors, Deliver(a)
    PROVE  IInv'
<1> USE SnapshotAssumption DEF IInv, TypeOK, Placed, directory, ghosts, Goto, Deliver
<1>1. TypeOK'
  BY DEF PCs
<1>2. Placed' /\ Unmade' /\ Young'
  BY DEF Unmade, Young
<1>3. Alone' /\ Locked'
  BY DEF Alone, Locked
<1>4. Kept' /\ Passed'
  BY DEF Kept, Passed
<1>5. Attended'
  <2>1. Only(a) /\ \A u \in Operations :
                      names'[u] \subseteq names[u] \/ (at[a] = u /\ pc[a] \in Owning)
    BY DEF Only
  <2>2. \A u \in Operations : Unfinished(u)' =>
           (Unfinished(u) \/ Attends(a, u)') /\ (Attends(a, u) => Attends(a, u)')
    BY UnlinkOrder DEF Unfinished, Attends, Reapable
  <2>3. QED
    BY <2>1, <2>2, StaysAttended
<1>6. QED
  BY <1>1, <1>2, <1>3, <1>4, <1>5

LEMMA CreationFailsKeeps ==
    ASSUME IInv, NEW a \in Actors, CreationFails(a)
    PROVE  IInv'
<1> USE SnapshotAssumption DEF IInv, TypeOK, Placed, directory, ghosts, Goto, CreationFails, StartCleanup
<1>1. TypeOK'
  BY DEF PCs
<1>2. Placed' /\ Unmade' /\ Young'
  BY DEF Unmade, Young
<1>3. Alone' /\ Locked'
  BY DEF Alone, Locked
<1>4. Kept' /\ Passed'
  BY DEF Kept, Passed
<1>5. Attended'
  <2>1. Only(a) /\ \A u \in Operations :
                      names'[u] \subseteq names[u] \/ (at[a] = u /\ pc[a] \in Owning)
    BY DEF Only
  <2>2. \A u \in Operations : Unfinished(u)' =>
           (Unfinished(u) \/ Attends(a, u)') /\ (Attends(a, u) => Attends(a, u)')
    BY DEF Unfinished, Attends, Reapable
  <2>3. QED
    BY <2>1, <2>2, StaysAttended
<1>6. QED
  BY <1>1, <1>2, <1>3, <1>4, <1>5

LEMMA CloseSnapshotKeeps ==
    ASSUME IInv, NEW a \in Actors, CloseSnapshot(a)
    PROVE  IInv'
<1> USE SnapshotAssumption DEF IInv, TypeOK, Placed, directory, ghosts, Goto, CloseSnapshot, StartCleanup
<1>1. TypeOK'
  BY DEF PCs
<1>2. Placed' /\ Unmade' /\ Young'
  BY DEF Unmade, Young
<1>3. Alone' /\ Locked'
  BY DEF Alone, Locked
<1>4. Kept' /\ Passed'
  BY DEF Kept, Passed
<1>5. Attended'
  <2>1. Only(a) /\ \A u \in Operations :
                      names'[u] \subseteq names[u] \/ (at[a] = u /\ pc[a] \in Owning)
    BY DEF Only
  <2>2. \A u \in Operations : Unfinished(u)' =>
           (Unfinished(u) \/ Attends(a, u)') /\ (Attends(a, u) => Attends(a, u)')
    BY UnlinkOrder DEF Unfinished, Attends, Reapable
  <2>3. QED
    BY <2>1, <2>2, StaysAttended
<1>6. QED
  BY <1>1, <1>2, <1>3, <1>4, <1>5

LEMMA FindOldKeeps ==
    ASSUME IInv, NEW a \in Actors, NEW o \in Operations, FindOld(a, o)
    PROVE  IInv'
<1> USE SnapshotAssumption DEF IInv, TypeOK, Placed, directory, ghosts, Goto, FindOld
<1>1. TypeOK'
  BY DEF PCs
<1>2. Placed' /\ Unmade' /\ Young'
  BY DEF Unmade, Young
<1>3. Alone' /\ Locked'
  BY DEF Alone, Locked, Young
<1>4. Kept' /\ Passed'
  BY DEF Kept, Passed
<1>5. Attended'
  <2>1. Only(a) /\ \A u \in Operations :
                      names'[u] \subseteq names[u] \/ (at[a] = u /\ pc[a] \in Owning)
    BY DEF Only
  <2>2. \A u \in Operations : Unfinished(u)' =>
           (Unfinished(u) \/ Attends(a, u)') /\ (Attends(a, u) => Attends(a, u)')
    BY DEF Unfinished, Attends, Reapable
  <2>3. QED
    BY <2>1, <2>2, StaysAttended
<1>6. QED
  BY <1>1, <1>2, <1>3, <1>4, <1>5

LEMMA ExamineKeeps ==
    ASSUME IInv, NEW a \in Actors, Examine(a)
    PROVE  IInv'
<1> USE SnapshotAssumption DEF IInv, TypeOK, Placed, directory, ghosts, Goto, Examine, Leave
<1>1. TypeOK'
  BY DEF PCs
<1>2. Placed' /\ Unmade' /\ Young'
  BY DEF Unmade, Young
<1>3. Alone' /\ Locked'
  BY DEF Alone, Locked
<1>4. Kept' /\ Passed'
  BY DEF Kept, Passed
<1>5. Attended'
  <2>1. Only(a) /\ \A u \in Operations :
                      names'[u] \subseteq names[u] \/ (at[a] = u /\ pc[a] \in Owning)
    BY DEF Only
  <2>2. \A u \in Operations : Unfinished(u)' =>
           (Unfinished(u) \/ Attends(a, u)') /\ (Attends(a, u) => Attends(a, u)')
    BY UnlinkOrder DEF Unfinished, Attends, Reapable
  <2>3. QED
    BY <2>1, <2>2, StaysAttended
<1>6. QED
  BY <1>1, <1>2, <1>3, <1>4, <1>5

LEMMA TakeLeaseKeeps ==
    ASSUME IInv, NEW a \in Actors, TakeLease(a)
    PROVE  IInv'
<1> USE SnapshotAssumption DEF IInv, TypeOK, Placed, directory, ghosts, Goto, TakeLease, Leave, StartCleanup
<1>1. TypeOK'
  <2>1. lease' \in [Operations -> Actors \cup {Nobody}]
    OBVIOUS
  <2>2. pc' \in [Actors -> PCs] /\ at' \in [Actors -> Operations \cup {NoOperation}]
    BY DEF PCs
  <2>3. QED
    BY <2>1, <2>2
<1>2. Placed' /\ Unmade' /\ Young'
  BY DEF Unmade, Young
<1>3. Alone' /\ Locked'
  BY DEF Alone, Locked
<1>4. Kept' /\ Passed'
  BY DEF Kept, Passed
<1>5. Attended'
  <2>1. Only(a) /\ \A u \in Operations :
                      names'[u] \subseteq names[u] \/ (at[a] = u /\ pc[a] \in Owning)
    BY DEF Only
  <2>2. \A u \in Operations : Unfinished(u)' =>
           (Unfinished(u) \/ Attends(a, u)') /\ (Attends(a, u) => Attends(a, u)')
    BY UnlinkOrder DEF Unfinished, Attends, Reapable
  <2>3. QED
    BY <2>1, <2>2, StaysAttended
<1>6. QED
  BY <1>1, <1>2, <1>3, <1>4, <1>5

LEMMA RecheckKeeps ==
    ASSUME IInv, NEW a \in Actors, Recheck(a)
    PROVE  IInv'
<1> USE SnapshotAssumption DEF IInv, TypeOK, Placed, directory, ghosts, Goto, Recheck
<1>1. TypeOK'
  BY DEF PCs
<1>2. Placed' /\ Unmade' /\ Young'
  BY DEF Unmade, Young
<1>3. Alone' /\ Locked'
  BY DEF Alone, Locked
<1>4. Kept' /\ Passed'
  BY DEF Kept, Passed
<1>5. Attended'
  <2>1. Only(a) /\ \A u \in Operations :
                      names'[u] \subseteq names[u] \/ (at[a] = u /\ pc[a] \in Owning)
    BY DEF Only
  <2>2. \A u \in Operations : Unfinished(u)' =>
           (Unfinished(u) \/ Attends(a, u)') /\ (Attends(a, u) => Attends(a, u)')
    BY UnlinkOrder DEF Unfinished, Attends, Reapable
  <2>3. QED
    BY <2>1, <2>2, StaysAttended
<1>6. QED
  BY <1>1, <1>2, <1>3, <1>4, <1>5

LEMMA UnlinkKeeps ==
    ASSUME IInv, NEW a \in Actors, Unlink(a)
    PROVE  IInv'
<1> USE UnlinkOrder, SnapshotAssumption DEF IInv, TypeOK, Placed, directory, ghosts, Goto, Unlink, Change
<1>1. TypeOK'
  BY DEF PCs
<1>2. Placed' /\ Unmade' /\ Young'
  BY DEF Unmade, Young
<1>3. Alone' /\ Locked'
  BY DEF Alone, Locked
<1>4. Kept' /\ Passed'
  BY DEF Kept, Alone, Passed
<1>5. Attended'
  <2>1. Only(a) /\ \A u \in Operations :
                      names'[u] \subseteq names[u] \/ (at[a] = u /\ pc[a] \in Owning)
    BY DEF Only
  <2>2. \A u \in Operations : Unfinished(u)' =>
           (Unfinished(u) \/ Attends(a, u)') /\ (Attends(a, u) => Attends(a, u)')
    BY DEF Unfinished, Attends, Reapable, Passed, Entries
  <2>3. QED
    BY <2>1, <2>2, StaysAttended
<1>6. QED
  BY <1>1, <1>2, <1>3, <1>4, <1>5

LEMMA UnlockKeeps ==
    ASSUME IInv, NEW a \in Actors, Unlock(a)
    PROVE  IInv'
<1> USE SnapshotAssumption DEF IInv, TypeOK, Placed, directory, ghosts, Goto, Unlock
<1>1. TypeOK'
  BY DEF PCs
<1>2. Placed' /\ Unmade' /\ Young'
  BY DEF Unmade, Young
<1>3. Alone' /\ Locked'
  BY DEF Alone, Locked
<1>4. Kept' /\ Passed'
  BY DEF Kept, Passed
<1>5. Attended'
  <2>1. Only(a) /\ \A u \in Operations :
                      names'[u] \subseteq names[u] \/ (at[a] = u /\ pc[a] \in Owning)
    BY DEF Only
  <2>2. \A u \in Operations : Unfinished(u)' =>
           (Unfinished(u) \/ Attends(a, u)') /\ (Attends(a, u) => Attends(a, u)')
    BY UnlinkOrder DEF Unfinished, Attends, Reapable
  <2>3. QED
    BY <2>1, <2>2, StaysAttended
<1>6. QED
  BY <1>1, <1>2, <1>3, <1>4, <1>5

LEMMA RemoveDirectoryKeeps ==
    ASSUME IInv, NEW a \in Actors, RemoveDirectory(a)
    PROVE  IInv'
<1> USE SnapshotAssumption DEF IInv, TypeOK, Placed, directory, ghosts, Goto, RemoveDirectory, Leave
<1>1. TypeOK'
  BY DEF PCs
<1>2. Placed' /\ Unmade' /\ Young'
  BY DEF Unmade, Young
<1>3. Alone' /\ Locked'
  BY DEF Alone, Locked
<1>4. Kept' /\ Passed'
  BY DEF Kept, Alone, Passed
<1>5. Attended'
  <2>1. Only(a) /\ \A u \in Operations :
                      names'[u] \subseteq names[u] \/ (at[a] = u /\ pc[a] \in Owning)
    BY DEF Only
  <2>2. \A u \in Operations : Unfinished(u)' =>
           (Unfinished(u) \/ Attends(a, u)') /\ (Attends(a, u) => Attends(a, u)')
    BY UnlinkOrder DEF Unfinished, Attends, Reapable
  <2>3. QED
    BY <2>1, <2>2, StaysAttended
<1>6. QED
  BY <1>1, <1>2, <1>3, <1>4, <1>5

LEMMA GiveUpKeeps ==
    ASSUME IInv, NEW a \in Actors, GiveUp(a)
    PROVE  IInv'
<1> USE SnapshotAssumption DEF IInv, TypeOK, Placed, directory, ghosts, Goto, GiveUp, Leave
<1>1. TypeOK'
  BY DEF PCs
<1>2. Placed' /\ Unmade' /\ Young'
  BY DEF Unmade, Young
<1>3. Alone' /\ Locked'
  BY DEF Alone, Locked
<1>4. Kept' /\ Passed'
  BY DEF Kept, Passed
<1>5. Attended'
  <2>1. Only(a) /\ \A u \in Operations :
                      names'[u] \subseteq names[u] \/ (at[a] = u /\ pc[a] \in Owning)
    BY DEF Only
  <2>2. \A u \in Operations : Unfinished(u)' =>
           (Unfinished(u) \/ Attends(a, u)') /\ (Attends(a, u) => Attends(a, u)')
    BY UnlinkOrder DEF Unfinished, Attends, Reapable
  <2>3. QED
    BY <2>1, <2>2, StaysAttended
<1>6. QED
  BY <1>1, <1>2, <1>3, <1>4, <1>5

LEMMA CleanupFailsKeeps ==
    ASSUME IInv, NEW a \in Actors, CleanupFails(a)
    PROVE  IInv'
<1> USE UnlinkOrder, SnapshotAssumption DEF IInv, TypeOK, Placed, directory, ghosts, Goto, CleanupFails, Fault
<1>1. TypeOK'
  BY DEF PCs
<1>2. Placed' /\ Unmade' /\ Young'
  BY DEF Unmade, Young
<1>3. Alone' /\ Locked'
  BY DEF Alone, Locked
<1>4. Kept' /\ Passed'
  BY DEF Kept, Passed
<1>5. Attended'
  <2>1. Only(a) /\ \A u \in Operations :
                      names'[u] \subseteq names[u] \/ (at[a] = u /\ pc[a] \in Owning)
    BY DEF Only
  <2>2. \A u \in Operations : Unfinished(u)' =>
           (Unfinished(u) \/ Attends(a, u)') /\ (Attends(a, u) => Attends(a, u)')
    BY DEF Unfinished, Attends, Reapable
  <2>3. QED
    BY <2>1, <2>2, StaysAttended
<1>6. QED
  BY <1>1, <1>2, <1>3, <1>4, <1>5

LEMMA RemoveFailsKeeps ==
    ASSUME IInv, NEW a \in Actors, RemoveFails(a)
    PROVE  IInv'
<1> USE SnapshotAssumption DEF IInv, TypeOK, Placed, directory, ghosts, Goto, RemoveFails, Fault, Leave
<1>1. TypeOK'
  BY DEF PCs
<1>2. Placed' /\ Unmade' /\ Young'
  BY DEF Unmade, Young
<1>3. Alone' /\ Locked'
  BY DEF Alone, Locked
<1>4. Kept' /\ Passed'
  BY DEF Kept, Passed
<1>5. Attended'
  <2>1. Only(a) /\ \A u \in Operations :
                      names'[u] \subseteq names[u] \/ (at[a] = u /\ pc[a] \in Owning)
    BY DEF Only
  <2>2. \A u \in Operations : Unfinished(u)' =>
           (Unfinished(u) \/ Attends(a, u)') /\ (Attends(a, u) => Attends(a, u)')
    BY UnlinkOrder DEF Unfinished, Attends, Reapable
  <2>3. QED
    BY <2>1, <2>2, StaysAttended
<1>6. QED
  BY <1>1, <1>2, <1>3, <1>4, <1>5

LEMMA DieKeeps ==
    ASSUME IInv, NEW a \in Actors, Die(a)
    PROVE  IInv'
<1> USE SnapshotAssumption DEF IInv, TypeOK, Placed, directory, ghosts, Goto, Die, Fault, Leave
<1>1. TypeOK'
  BY DEF PCs
<1>2. Placed' /\ Unmade' /\ Young'
  BY DEF Unmade, Young
<1>3. Alone' /\ Locked'
  BY DEF Alone, Locked
<1>4. Kept' /\ Passed'
  BY DEF Kept, Passed
<1>5. Attended'
  <2>1. Only(a) /\ \A u \in Operations :
                      names'[u] \subseteq names[u] \/ (at[a] = u /\ pc[a] \in Owning)
    BY DEF Only
  <2>2. \A u \in Operations : Unfinished(u)' =>
           (Unfinished(u) \/ Attends(a, u)') /\ (Attends(a, u) => Attends(a, u)')
    BY UnlinkOrder DEF Unfinished, Attends, Reapable
  <2>3. QED
    BY <2>1, <2>2, StaysAttended
<1>6. QED
  BY <1>1, <1>2, <1>3, <1>4, <1>5

LEMMA AgeKeeps == ASSUME IInv, NEW o \in Operations, Age(o) PROVE IInv'
<1> USE DEF IInv, TypeOK, Placed, directory, ghosts, Age
<1>1. TypeOK' /\ Placed' /\ Unmade' /\ Young'
  BY DEF Unmade, Young
<1>2. Alone' /\ Locked' /\ Kept' /\ Passed'
  BY DEF Alone, Locked, Kept, Passed
<1>3. Attended'
  BY DEF Attended, Unfinished, Attends, Reapable
<1>4. QED
  BY <1>1, <1>2, <1>3

LEMMA StutterKeeps == ASSUME IInv, UNCHANGED vars PROVE IInv'
<1> USE DEF vars, directory, ghosts
<1>1. TypeOK' /\ Placed' /\ Unmade' /\ Young'
  BY DEF IInv, TypeOK, Placed, Unmade, Young
<1>2. Alone' /\ Locked' /\ Kept' /\ Passed'
  BY DEF IInv, Alone, Locked, Kept, Passed
<1>3. Attended'
  BY DEF IInv, Attended, Unfinished, Attends, Reapable
<1>4. QED
  BY <1>1, <1>2, <1>3 DEF IInv

LEMMA Invariant == Spec => []IInv
<1>1. Init => IInv
  BY Start
<1>2. IInv /\ [Next]_vars => IInv'
  <2>1. SUFFICES ASSUME IInv, [Next]_vars PROVE IInv'
    OBVIOUS
  <2>2. CASE UNCHANGED vars
    BY <2>1, <2>2, StutterKeeps
  <2>3. ASSUME NEW o \in Operations, Age(o) PROVE IInv'
    BY <2>1, <2>3, AgeKeeps
  <2>4. ASSUME NEW a \in Actors, NEW o \in Operations,
               OpenFails(a, o) \/ MakeDirectory(a, o) \/ FindOld(a, o)
        PROVE  IInv'
    BY <2>1, <2>4, OpenFailsKeeps, MakeDirectoryKeeps, FindOldKeeps
  <2>5. ASSUME NEW a \in Actors,
               \/ CreateMarker(a) \/ WriteMarker(a) \/ CreateLease(a) \/ LockLease(a)
               \/ WriteTemporary(a) \/ RenameTemporary(a) \/ Deliver(a)
               \/ CreationFails(a) \/ CloseSnapshot(a)
        PROVE  IInv'
    BY <2>1, <2>5, CreateMarkerKeeps, WriteMarkerKeeps, CreateLeaseKeeps, LockLeaseKeeps,
       WriteTemporaryKeeps, RenameTemporaryKeeps, DeliverKeeps, CreationFailsKeeps,
       CloseSnapshotKeeps
  <2>6. ASSUME NEW a \in Actors,
               \/ Examine(a) \/ TakeLease(a) \/ GiveUp(a) \/ Recheck(a) \/ Unlink(a) \/ Unlock(a)
               \/ RemoveDirectory(a) \/ CleanupFails(a) \/ RemoveFails(a) \/ Die(a)
        PROVE  IInv'
    BY <2>1, <2>6, ExamineKeeps, TakeLeaseKeeps, GiveUpKeeps, RecheckKeeps, UnlinkKeeps, UnlockKeeps,
       RemoveDirectoryKeeps, CleanupFailsKeeps, RemoveFailsKeeps, DieKeeps
  <2>7. QED
    BY <2>1, <2>2, <2>3, <2>4, <2>5, <2>6 DEF Next
<1>3. QED
  BY <1>1, <1>2, PTL DEF Spec

-----------------------------------------------------------------------------
(* orchestration_snapshot.py keeps its files, marks and leases of the      *)
(* kinds they are, and no actor works in a directory it did not open.      *)
THEOREM TypeCorrect == Spec => []TypeOK
BY Invariant, PTL DEF IInv

(* RepositorySnapshot: until it is closed, the snapshot, its marker and    *)
(* its lease stay, whoever sweeps.                                         *)
THEOREM InUseIsKept == Spec => []ActiveIsKept
<1>1. IInv => ActiveIsKept
  <2>1. SUFFICES ASSUME IInv, NEW a \in Actors, pc[a] = "active"
                 PROVE  /\ names[at[a]] = {"snapshot", "owner", "lease"}
                        /\ at[a] \in marked
    BY DEF ActiveIsKept
  <2>2. names[at[a]] \subseteq Entries
    BY <2>1 DEF IInv, TypeOK, Placed
  <2>3. /\ {"snapshot", "owner", "lease"} \subseteq names[at[a]]
        /\ "temp" \notin names[at[a]] /\ at[a] \in marked
    BY <2>1 DEF IInv, Kept
  <2>4. QED
    BY <2>2, <2>3 DEF Entries
<1>2. QED
  BY <1>1, Invariant, PTL

(* reap_stale_operation_snapshots: nobody unlinks entries of a directory   *)
(* whose creator is still at work in it, or has handed it out.             *)
THEOREM OnlyInactiveReaped == Spec => []ReapsOnlyInactive
<1>1. IInv => ReapsOnlyInactive
  BY UnlinkOrder DEF IInv, Alone, ReapsOnlyInactive
<1>2. QED
  BY <1>1, Invariant, PTL

(* _cleanup_operation_inode and the reaper: creators that fail in the try  *)
(* block or close, and the reapers they race, never leave a directory to   *)
(* each other; only a fault does, and it may leave it reapable.            *)
THEOREM NothingElseLeaves == Spec => []OnlyFaultsLeave
<1>1. IInv => OnlyFaultsLeave
  BY DEF IInv, Attended, Unfinished, Attends, OnlyFaultsLeave
<1>2. QED
  BY <1>1, Invariant, PTL
-----------------------------------------------------------------------------
(* The screenshot directory.                                               *)

JobFields == {"at", "want", "seen", "files", "kept", "cutoff"}
Listed == {"filter", "sort", "remove"}
Values(seq) == {seq[i] : i \in DOMAIN seq}
Listing(p) == job[p].seen \cup Values(job[p].files) \cup Values(job[p].kept)

(* A name is the moment its file was created; whatever was listed or is    *)
(* served was created.                                                     *)
TimesSound ==
    /\ clock \in Nat /\ horizon \in Nat
    /\ Created \subseteq 1 .. clock
    /\ \A n \in Created : mtime[n] \in n .. clock
    /\ present \subseteq Created

SoundJob(j) ==
    /\ DOMAIN j = JobFields
    /\ j.seen \subseteq Created
    /\ j.files \in Seq(Created) /\ j.kept \in Seq(Created)
    /\ j.cutoff \in Nat /\ j.cutoff <= horizon
    /\ j.at \in {"idle", "list", "filter", "sort"} => j.files = <<>> /\ j.kept = <<>>
    /\ j.at = "remove" => j.seen = {}
    /\ j.files # <<>> => Retention

JobsSound == DOMAIN job = Processes /\ \A p \in Processes : SoundJob(job[p])

(* A name is known only after its file was written to the end.             *)
KnownIsWhole ==
    /\ answered \subseteq whole
    /\ DOMAIN sending = Processes
    /\ \A p \in Processes :
          /\ DOMAIN sending[p] = {"name", "state"}
          /\ sending[p].state = "open" => sending[p].name \in answered
          /\ sending[p].state # "part"
          /\ job[p].at \in {"idle", "list"} \cup Listed => job[p].want \in answered \cup {None}
          /\ job[p].at = "touch" => job[p].want \in whole

(* Of two listings the later one has every file of the earlier one that is *)
(* still there.                                                            *)
Nested ==
    \A p, q \in Processes :
        job[p].at \in Listed /\ job[q].at \in Listed =>
            \/ Listing(p) \cap present \subseteq Listing(q)
            \/ Listing(q) \cap present \subseteq Listing(p)

(* The files that came after some trimmed listing: at most one of each     *)
(* process, which is not about to create another and which, when it cleans *)
(* again, has listed its own and all that came before the others.          *)
Newer(N, owner) ==
    /\ Cardinality(present \ N) <= MaxFiles
    /\ \A m, n \in N : owner[m] = owner[n] => m = n
    /\ \A n \in N :
          /\ job[owner[n]].at # "create"
          /\ job[owner[n]].at \in Listed => present \ Listing(owner[n]) \subseteq N \ {n}

OnePerProcess ==
    MaxFiles > 0 => \E N \in SUBSET present : \E owner \in [N -> Processes] : Newer(N, owner)

(* A cleanup goes from the file that was modified first to the last: each  *)
(* later one was modified after the former was created.                    *)
Follows(m, n) == n # m /\ mtime[n] > m
InOrder(seq) == \A i, j \in DOMAIN seq : i < j => Follows(seq[i], seq[j])
Sorted ==
    \A p \in Processes :
        /\ InOrder(job[p].files) /\ InOrder(job[p].kept)
        /\ \A i \in DOMAIN job[p].kept : \A j \in DOMAIN job[p].files :
              Follows(job[p].kept[i], job[p].files[j])

StoreInv == TimesSound /\ JobsSound /\ KnownIsWhole /\ Nested /\ OnePerProcess /\ Sorted

(* What a shorter or a longer sequence holds, and in which order.          *)
LEMMA TailValues ==
    ASSUME NEW S, NEW s \in Seq(S), s # <<>>
    PROVE  /\ Tail(s) \in Seq(S) /\ Head(s) \in S
           /\ Values(s) = {Head(s)} \cup Values(Tail(s))
           /\ DOMAIN Tail(s) = 1 .. Len(s) - 1 /\ DOMAIN s = 1 .. Len(s) /\ Len(s) \in Nat \ {0}
           /\ s[1] = Head(s)
           /\ \A i \in DOMAIN Tail(s) : i \in Nat /\ i > 0 /\ i + 1 \in DOMAIN s
                                        /\ Tail(s)[i] = s[i + 1]
<1>1. /\ Tail(s) \in Seq(S) /\ Head(s) \in S /\ Len(s) \in Nat \ {0} /\ s[1] = Head(s)
      /\ DOMAIN Tail(s) = 1 .. Len(s) - 1 /\ DOMAIN s = 1 .. Len(s)
      /\ \A i \in 1 .. Len(s) - 1 : Tail(s)[i] = s[i + 1]
  OBVIOUS
<1>2. ASSUME NEW i \in DOMAIN s, i # 1
      PROVE  i - 1 \in DOMAIN Tail(s) /\ s[i] = Tail(s)[i - 1]
  <2>1. i - 1 \in 1 .. Len(s) - 1 /\ (i - 1) + 1 = i
    BY <1>1, <1>2
  <2>2. QED
    BY <1>1, <2>1
<1>3. \A i \in DOMAIN Tail(s) : i \in Nat /\ i > 0 /\ i + 1 \in DOMAIN s /\ Tail(s)[i] = s[i + 1]
  BY <1>1
<1>4. 1 \in DOMAIN s
  BY <1>1
<1>5. Values(s) \subseteq {Head(s)} \cup Values(Tail(s))
  <2>1. SUFFICES ASSUME NEW i \in DOMAIN s, i # 1 PROVE s[i] \in Values(Tail(s))
    BY <1>1 DEF Values
  <2>2. QED
    BY <1>2, <2>1 DEF Values
<1>6. {Head(s)} \cup Values(Tail(s)) \subseteq Values(s)
  BY <1>1, <1>3, <1>4 DEF Values
<1>7. QED
  BY <1>1, <1>3, <1>5, <1>6

LEMMA AppendValues ==
    ASSUME NEW S, NEW s \in Seq(S), NEW x \in S
    PROVE  /\ Append(s, x) \in Seq(S)
           /\ Values(Append(s, x)) = Values(s) \cup {x}
           /\ \A i \in DOMAIN Append(s, x) :
                 \/ i \in DOMAIN s /\ Append(s, x)[i] = s[i]
                 \/ i = Len(s) + 1 /\ Append(s, x)[i] = x
           /\ DOMAIN s = 1 .. Len(s) /\ Len(s) \in Nat
<1>1. /\ Append(s, x) \in Seq(S) /\ DOMAIN Append(s, x) = 1 .. Len(s) + 1
      /\ \A i \in 1 .. Len(s) : Append(s, x)[i] = s[i]
      /\ Append(s, x)[Len(s) + 1] = x /\ DOMAIN s = 1 .. Len(s) /\ Len(s) \in Nat
  OBVIOUS
<1>2. \A i \in DOMAIN Append(s, x) : \/ i \in DOMAIN s /\ Append(s, x)[i] = s[i]
                                     \/ i = Len(s) + 1 /\ Append(s, x)[i] = x
  BY <1>1
<1>3. Len(s) + 1 \in DOMAIN Append(s, x) /\ \A i \in DOMAIN s : i \in DOMAIN Append(s, x)
  BY <1>1
<1>4. Values(Append(s, x)) \subseteq Values(s) \cup {x}
  BY <1>1, <1>2 DEF Values
<1>5. Values(s) \cup {x} \subseteq Values(Append(s, x))
  BY <1>1, <1>3 DEF Values
<1>6. QED
  BY <1>1, <1>2, <1>4, <1>5

(* A sequence holds no more than its length, and exactly that many when no *)
(* two of its places hold the same.                                        *)
LEMMA HowManyValues ==
    ASSUME NEW S, NEW s \in Seq(S)
    PROVE  /\ IsFiniteSet(Values(s)) /\ Cardinality(Values(s)) <= Len(s)
           /\ (\A i, j \in DOMAIN s : s[i] = s[j] => i = j) => Cardinality(Values(s)) = Len(s)
<1>1. DOMAIN s = 1 .. Len(s) /\ Len(s) \in Nat
  OBVIOUS
<1>2. IsFiniteSet(DOMAIN s) /\ Cardinality(DOMAIN s) = Len(s)
  BY <1>1, FS_Interval
<1>3. s \in Surjection(DOMAIN s, Values(s))
  BY <1>1 DEF Surjection, Values
<1>4. /\ IsFiniteSet(Values(s)) /\ Cardinality(Values(s)) <= Len(s)
      /\ Cardinality(Values(s)) = Len(s) <=> s \in Injection(DOMAIN s, Values(s))
  BY <1>2, <1>3, FS_Surjection
<1>5. (\A i, j \in DOMAIN s : s[i] = s[j] => i = j) => s \in Injection(DOMAIN s, Values(s))
  BY <1>3 DEF Injection, IsInjective, Surjection
<1>6. QED
  BY <1>4, <1>5

LEMMA FilesFinite ==
    ASSUME TimesSound
    PROVE  /\ IsFiniteSet(Created) /\ IsFiniteSet(present)
           /\ \A n \in Created : n \in Nat \ {0} /\ n <= clock /\ mtime[n] \in Nat /\ mtime[n] >= n
<1>1. IsFiniteSet(1 .. clock)
  BY FS_Interval DEF TimesSound
<1>2. IsFiniteSet(Created)
  BY <1>1, FS_Subset DEF TimesSound
<1>3. IsFiniteSet(present)
  BY <1>2, FS_Subset DEF TimesSound
<1>4. QED
  BY <1>2, <1>3 DEF TimesSound

(* The cleanup orders all the files it was given.                          *)
LEMMA ByTimeOrders ==
    ASSUME TimesSound, NEW S \in SUBSET Created, NEW o \in ByTime(S)
    PROVE  o \in Seq(Created) /\ Values(o) = S /\ InOrder(o)
<1>1. /\ o \in [1 .. Cardinality(S) -> S]
      /\ \A i, j \in DOMAIN o : i < j => mtime[o[i]] < mtime[o[j]]
  BY DEF ByTime, Orders
<1>2. IsFiniteSet(S) /\ Cardinality(S) \in Nat
  BY FilesFinite, FS_Subset, FS_CardinalityType
<1>3. \A n \in S : n \in Nat /\ mtime[n] \in Nat /\ mtime[n] >= n
  BY FilesFinite
<1>4. DOMAIN o = 1 .. Cardinality(S) /\ \A i \in DOMAIN o : i \in Nat /\ o[i] \in S
  BY <1>1, <1>2
<1>5. ASSUME NEW i \in DOMAIN o, NEW j \in DOMAIN o, i < j
      PROVE  Follows(o[i], o[j])
  <2>1. mtime[o[i]] < mtime[o[j]] /\ o[i] \in S /\ o[j] \in S
    BY <1>1, <1>4, <1>5
  <2>2. o[i] # o[j]
    BY <1>3, <2>1
  <2>3. QED
    BY <1>3, <2>1, <2>2 DEF Follows
<1>6. \A i, j \in DOMAIN o : o[i] = o[j] => i = j
  <2>1. SUFFICES ASSUME NEW i \in DOMAIN o, NEW j \in DOMAIN o, o[i] = o[j], i # j PROVE FALSE
    OBVIOUS
  <2>2. i < j \/ j < i
    BY <1>4, <2>1
  <2>3. QED
    BY <1>5, <2>1, <2>2 DEF Follows
<1>7. o \in Injection(1 .. Cardinality(S), S)
  BY <1>1, <1>4, <1>6 DEF Injection, IsInjective
<1>8. o \in Surjection(1 .. Cardinality(S), S)
  BY <1>2, <1>7, FS_Injection, FS_Interval
<1>9. Values(o) = S
  BY <1>4, <1>8 DEF Surjection, Values
<1>10. o \in Seq(Created)
  BY <1>1, <1>2
<1>11. QED
  BY <1>5, <1>9, <1>10 DEF InOrder

(* Time goes on, also for each file.                                       *)
Later ==
    /\ \A n \in Created : n \in Created' /\ mtime'[n] >= mtime[n]
    /\ horizon' >= horizon

LEMMA StampKeeps ==
    ASSUME TimesSound, NEW name, name \in Created \/ name = clock + 1, Stamp(name),
           present' \subseteq Created \cup {name}, horizon' = horizon
    PROVE  TimesSound' /\ Later
<1>1. /\ clock' = clock + 1 /\ Created' = Created \cup {name}
      /\ \A n \in Created' : mtime'[n] = IF n = name THEN clock + 1 ELSE mtime[n]
  BY DEF Stamp, Created
<1>2. clock \in Nat /\ horizon \in Nat
      /\ \A n \in Created : n \in Nat \ {0} /\ n <= clock /\ mtime[n] \in Nat /\ mtime[n] >= n
                            /\ mtime[n] <= clock
  BY FilesFinite DEF TimesSound
<1>3. \A n \in Created' : n \in 1 .. clock + 1 /\ mtime'[n] \in n .. clock + 1
  BY <1>1, <1>2
<1>4. TimesSound'
  <2>1. clock' \in Nat /\ horizon' \in Nat
    BY <1>1, <1>2
  <2>2. Created' \subseteq 1 .. clock' /\ \A n \in Created' : mtime'[n] \in n .. clock'
    BY <1>1, <1>3
  <2>3. present' \subseteq Created'
    BY <1>1
  <2>4. QED
    BY <2>1, <2>2, <2>3 DEF TimesSound
<1>5. \A n \in Created : n \in Created' /\ mtime'[n] >= mtime[n]
  BY <1>1, <1>2
<1>6. QED
  BY <1>2, <1>4, <1>5 DEF Later

LEMMA TimesStep == ASSUME TimesSound, JobsSound, [ScreenshotNext]_screenshotVars PROVE TimesSound' /\ Later
<1>1. ASSUME mtime' = mtime, clock' = clock, horizon' = horizon, present' \subseteq present
      PROVE  TimesSound' /\ Later
  <2>1. TimesSound'
    BY <1>1 DEF TimesSound, Created
  <2>2. \A n \in Created : mtime[n] \in Nat
    BY FilesFinite
  <2>3. QED
    BY <1>1, <2>1, <2>2 DEF TimesSound, Later, Created
<1>2. CASE TimePasses
  <2>1. /\ mtime' = mtime /\ clock' = clock /\ present' = present
        /\ horizon' \in Nat /\ horizon' >= horizon
    BY <1>2 DEF TimePasses, TimesSound
  <2>2. \A n \in Created : mtime[n] \in Nat
    BY FilesFinite
  <2>3. QED
    BY <2>1, <2>2 DEF TimesSound, Later, Created
<1>3. ASSUME NEW p \in Processes, Create(p) PROVE TimesSound' /\ Later
  <2>1. /\ Stamp(clock + 1) /\ present' = present \cup {clock + 1} /\ horizon' = horizon
    BY <1>3 DEF Create
  <2>2. present' \subseteq Created \cup {clock + 1}
    BY <2>1 DEF TimesSound
  <2>3. QED
    BY <2>1, <2>2, StampKeeps
<1>4. ASSUME NEW p \in Processes, Touch(p) PROVE TimesSound' /\ Later
  <2>1. present' = present /\ horizon' = horizon
    BY <1>4 DEF Touch
  <2>2. CASE job[p].want \in present
    <3>1. Stamp(job[p].want) /\ job[p].want \in Created
      BY <1>4, <2>2 DEF Touch, TimesSound
    <3>2. present' \subseteq Created \cup {job[p].want}
      BY <2>1 DEF TimesSound
    <3>3. QED
      BY <2>1, <3>1, <3>2, StampKeeps
  <2>3. CASE job[p].want \notin present
    BY <1>1, <1>4, <2>1, <2>3 DEF Touch
  <2>4. QED
    BY <2>2, <2>3
<1>5. ASSUME NEW p \in Processes, Step(p), ~Create(p), ~Touch(p) PROVE TimesSound' /\ Later
  <2>1. UNCHANGED <<mtime, clock, horizon>> /\ present' \subseteq present
    BY <1>5
    DEF Step, Capture, Get, Clean, List, Filter, Sort, ExpireOne, TrimOne, Decode, Write,
        ScreenshotPathFor, SendFile, Fails
  <2>2. QED
    BY <1>1, <2>1
<1>6. CASE UNCHANGED screenshotVars
  BY <1>1, <1>6 DEF screenshotVars
<1>7. QED
  BY <1>2, <1>3, <1>4, <1>5, <1>6 DEF ScreenshotNext

LEMMA SoundLater ==
    ASSUME TimesSound, TimesSound', Later, NEW j, SoundJob(j)
    PROVE  SoundJob(j)'
<1>1. Created \subseteq Created' /\ horizon \in Nat /\ horizon' \in Int /\ horizon' >= horizon
  BY DEF TimesSound, Later
<1>2. /\ DOMAIN j = JobFields /\ j.seen \subseteq Created
      /\ j.files \in Seq(Created) /\ j.kept \in Seq(Created)
      /\ j.cutoff \in Nat /\ j.cutoff <= horizon
  BY DEF SoundJob
<1>3. j.files \in Seq(Created') /\ j.kept \in Seq(Created')
  BY <1>1, <1>2
<1>4. j.cutoff <= horizon'
  BY <1>1, <1>2
<1>5. QED
  BY <1>1, <1>2, <1>3, <1>4 DEF SoundJob

(* One process goes on; the other jobs and the sense of all stay.          *)
LEMMA JobBecomes ==
    ASSUME JobsSound, TimesSound, TimesSound', Later, NEW p \in Processes, NEW next, Becomes(p, next),
           SoundJob(next)'
    PROVE  /\ JobsSound' /\ job'[p] = next
           /\ \A q \in Processes \ {p} : job'[q] = job[q]
<1>1. DOMAIN job' = Processes /\ job'[p] = next /\ \A q \in Processes \ {p} : job'[q] = job[q]
  BY DEF Becomes, JobsSound
<1>2. ASSUME NEW q \in Processes PROVE SoundJob(job[q])'
  <2>1. CASE q = p
    BY <1>1, <2>1 DEF SoundJob
  <2>2. CASE q # p
    <3>1. PICK j : j = job[q]
      OBVIOUS
    <3>2. SoundJob(j)
      BY <3>1 DEF JobsSound
    <3>3. SoundJob(j)'
      BY <3>2, SoundLater
    <3>4. job'[q] = j
      BY <1>1, <2>2, <3>1
    <3>5. QED
      BY <3>3, <3>4 DEF SoundJob
  <2>3. QED
    BY <2>1, <2>2
<1>3. QED
  BY <1>1, <1>2 DEF JobsSound

LEMMA IdleIsSound == ASSUME TimesSound PROVE SoundJob(Idle)
BY DEF SoundJob, Idle, JobFields, TimesSound, None

(* Whatever a process does, what it remembers stays sound.                 *)
LEMMA JobsStep ==
    ASSUME TimesSound, TimesSound', Later, JobsSound, NEW p \in Processes, Step(p)
    PROVE  JobsSound' /\ \A q \in Processes \ {p} : job'[q] = job[q]
<1>1. SUFFICES ASSUME ~SendFile(p) PROVE \E next : Becomes(p, next) /\ SoundJob(next)'
  <2>1. CASE SendFile(p)
    <3>1. job' = job
      BY <2>1 DEF SendFile
    <3>2. ASSUME NEW q \in Processes PROVE SoundJob(job[q])'
      <4>1. PICK j : j = job[q]
        OBVIOUS
      <4>2. SoundJob(j)'
        BY <4>1, SoundLater DEF JobsSound
      <4>3. QED
        BY <3>1, <4>1, <4>2 DEF SoundJob
    <3>3. QED
      BY <3>1, <3>2 DEF JobsSound
  <2>2. CASE ~SendFile(p)
    BY <1>1, <2>2, JobBecomes
  <2>3. QED
    BY <2>1, <2>2
<1>2. PICK j : j = job[p]
  OBVIOUS
<1>3. SoundJob(j) /\ SoundJob(j)' /\ DOMAIN j = JobFields
  BY <1>2, SoundLater DEF JobsSound, SoundJob
<1>4. SoundJob(Idle)' /\ DOMAIN Idle = JobFields
  BY DEF SoundJob, Idle, JobFields, TimesSound, None
<1>5. \A next : next = Idle /\ Becomes(p, next) => SoundJob(next)'
  BY <1>4
<1>a. ASSUME NEW place, NEW name, place \notin {"idle", "filter", "sort", "remove"},
             place = "list" => j.at = "idle"
      PROVE  /\ SoundJob([j EXCEPT !.at = place])'
             /\ SoundJob([j EXCEPT !.at = place, !.want = name])'
             /\ SoundJob([Idle EXCEPT !.at = place, !.want = name])'
             /\ SoundJob([Idle EXCEPT !.at = place])'
  BY <1>3, <1>4, <1>a DEF SoundJob, JobFields, Idle
<1>6. CASE Capture(p) \/ Write(p)
  <2>1. PICK place \in {"list", "touch"} :
           Becomes(p, [j EXCEPT !.at = place]) /\ (place = "list" => j.at = "idle")
    BY <1>2, <1>6 DEF Capture, Write, Go, At
  <2>2. QED
    BY <1>a, <2>1
<1>b. CASE Create(p)
  <2>1. Becomes(p, [j EXCEPT !.at = "write", !.want = clock + 1])
    BY <1>2, <1>b DEF Create
  <2>2. PICK name : name = clock + 1
    OBVIOUS
  <2>3. QED
    BY <1>a, <2>1, <2>2
<1>7. CASE \E name \in answered : Get(p, name)
  <2>1. PICK name : Becomes(p, [Idle EXCEPT !.at = "list", !.want = name]) /\ j.at = "idle"
    BY <1>2, <1>7 DEF Get, At
  <2>2. QED
    BY <1>a, <2>1
<1>8. CASE (\E good \in BOOLEAN : Decode(p, good)) \/ Touch(p) \/ Fails(p) \/ ScreenshotPathFor(p)
  <2>1. Becomes(p, [Idle EXCEPT !.at = "create"]) \/ Becomes(p, Idle)
    BY <1>8 DEF Decode, Touch, Fails, ScreenshotPathFor, End
  <2>2. QED
    BY <1>4, <1>a, <2>1
<1>9. CASE List(p)
  <2>1. PICK next : next = [j EXCEPT !.at = "filter", !.seen = present, !.cutoff = horizon]
    OBVIOUS
  <2>2. /\ Becomes(p, next) /\ j.at = "list" /\ present' = present /\ horizon' = horizon
    BY <1>2, <1>9, <2>1 DEF List, At
  <2>3. next.seen = present /\ next.cutoff = horizon' /\ next.at = "filter"
        /\ next.files = j.files /\ next.kept = j.kept /\ DOMAIN next = JobFields
    BY <1>3, <2>1, <2>2 DEF JobFields
  <2>4. horizon' \in Nat /\ present \subseteq Created'
    BY <2>2 DEF TimesSound
  <2>5. SoundJob(next)'
    BY <1>3, <2>2, <2>3, <2>4 DEF SoundJob
  <2>6. QED
    BY <2>2, <2>5
<1>10. CASE Filter(p)
  <2>1. PICK next : next = [j EXCEPT !.at = "sort", !.seen = @ \cap present]
    OBVIOUS
  <2>2. Becomes(p, next) /\ j.at = "filter"
    BY <1>2, <1>10, <2>1 DEF Filter, At
  <2>3. SoundJob(next)'
    BY <1>3, <2>1, <2>2 DEF SoundJob, JobFields
  <2>4. QED
    BY <2>2, <2>3
<1>11. CASE Sort(p)
  <2>1. CASE End(p)
    BY <1>4, <2>1 DEF End
  <2>2. CASE ~End(p)
    <3>1. PICK sorted \in ByTime(job[p].seen) :
             Becomes(p, [j EXCEPT !.at = "remove", !.seen = {},
                                  !.files = IF Retention THEN sorted ELSE <<>>,
                                  !.kept = IF Retention THEN <<>> ELSE sorted])
      BY <1>2, <1>11, <2>2 DEF Sort
    <3>2. job[p].seen \in SUBSET Created
      BY <1>2, <1>3 DEF SoundJob
    <3>3. sorted \in Seq(Created)
      BY <3>1, <3>2, ByTimeOrders
    <3>4. Created' = Created
      BY <1>11 DEF Sort, Created
    <3>5. PICK next : next = [j EXCEPT !.at = "remove", !.seen = {},
                                  !.files = IF Retention THEN sorted ELSE <<>>,
                                  !.kept = IF Retention THEN <<>> ELSE sorted]
      OBVIOUS
    <3>6. /\ next.at = "remove" /\ next.seen = {} /\ DOMAIN next = JobFields
          /\ next.files \in Seq(Created') /\ next.kept \in Seq(Created')
          /\ next.files # <<>> => Retention
          /\ next.cutoff = j.cutoff
      BY <1>3, <3>3, <3>4, <3>5 DEF JobFields
    <3>7. SoundJob(next)'
      BY <1>3, <3>6 DEF SoundJob
    <3>8. QED
      BY <3>1, <3>5, <3>7
  <2>3. QED
    BY <2>1, <2>2
<1>12. CASE ExpireOne(p)
  <2>0. PICK next :
           next = [j EXCEPT !.files = Tail(j.files),
                            !.kept = IF Head(j.files) \in present /\ ~Expired(p, Head(j.files))
                                     THEN Append(j.kept, Head(j.files)) ELSE j.kept]
    OBVIOUS
  <2>1. /\ Becomes(p, next) /\ j.at = "remove" /\ j.files # <<>>
    BY <1>2, <1>12, <2>0 DEF ExpireOne, At
  <2>a. /\ next.files = Tail(j.files)
        /\ next.kept = j.kept \/ next.kept = Append(j.kept, Head(j.files))
        /\ next.at = j.at /\ next.seen = j.seen /\ next.cutoff = j.cutoff
        /\ DOMAIN next = JobFields
    BY <1>3, <2>0 DEF JobFields
  <2>2. Created' = Created
    BY <1>12 DEF ExpireOne, Created
  <2>3. j.files \in Seq(Created) /\ j.kept \in Seq(Created) /\ Retention
    BY <1>3, <2>1 DEF SoundJob
  <2>4. next.files \in Seq(Created) /\ next.kept \in Seq(Created)
    <3>1. Tail(j.files) \in Seq(Created) /\ Head(j.files) \in Created
      BY <2>1, <2>3, TailValues
    <3>2. Append(j.kept, Head(j.files)) \in Seq(Created)
      BY <2>3, <3>1, AppendValues
    <3>3. QED
      BY <2>3, <2>a, <3>1, <3>2
  <2>5. SoundJob(next)'
    BY <1>3, <2>1, <2>a, <2>2, <2>3, <2>4 DEF SoundJob
  <2>6. QED
    BY <2>1, <2>5
<1>13. CASE TrimOne(p)
  <2>0. PICK next : next = [j EXCEPT !.kept = Tail(j.kept)]
    OBVIOUS
  <2>1. Becomes(p, next) /\ j.at = "remove" /\ j.files = <<>>
    BY <1>2, <1>13, <2>0 DEF TrimOne, At
  <2>a. /\ next.files = j.files /\ next.kept = Tail(j.kept)
        /\ next.at = j.at /\ next.seen = j.seen /\ next.cutoff = j.cutoff
        /\ DOMAIN next = JobFields
    BY <1>3, <2>0 DEF JobFields
  <2>2. Created' = Created
    BY <1>13 DEF TrimOne, Created
  <2>3. j.kept \in Seq(Created) /\ j.kept # <<>>
    <3>1. MaxFiles \in Nat /\ MaxFiles > 0 /\ Len(j.kept) > MaxFiles
      BY <1>2, <1>13, StoreAssumption DEF TrimOne, TooMany
    <3>2. QED
      BY <1>3, <3>1 DEF SoundJob
  <2>4. next.kept \in Seq(Created)
    BY <2>a, <2>3, TailValues
  <2>5. SoundJob(next)'
    BY <1>3, <2>1, <2>a, <2>2, <2>4 DEF SoundJob
  <2>6. QED
    BY <2>1, <2>5
<1>14. QED
  BY <1>1, <1>6, <1>b, <1>7, <1>8, <1>9, <1>10, <1>11, <1>12, <1>13 DEF Step, Clean

(* What is known or served stays written to the end.                       *)
LEMMA KnownStep ==
    ASSUME KnownIsWhole, JobsSound, JobsSound', NEW p \in Processes, Step(p),
           \A q \in Processes \ {p} : job'[q] = job[q]
    PROVE  KnownIsWhole'
<1>1. whole \subseteq whole' /\ answered \subseteq answered'
  BY DEF Step, Capture, Get, Clean, List, Filter, Sort, ExpireOne, TrimOne, Decode, Create, Write, Touch,
         ScreenshotPathFor, SendFile, Fails
<1>2. answered' \subseteq whole'
  <2>1. CASE Touch(p)
    BY <1>1, <2>1 DEF Touch, At, KnownIsWhole
  <2>2. CASE ~Touch(p)
    <3>1. answered' = answered
      BY <2>2
      DEF Step, Capture, Get, Clean, List, Filter, Sort, ExpireOne, TrimOne, Decode, Create, Write,
          ScreenshotPathFor, SendFile, Fails
    <3>2. QED
      BY <1>1, <3>1 DEF KnownIsWhole
  <2>3. QED
    BY <2>1, <2>2
<1>3. CASE sending' = sending
  <2>1. PICK j : j = job[p]
    OBVIOUS
  <2>2. DOMAIN j = JobFields /\ DOMAIN Idle = JobFields /\ DOMAIN job = Processes
    BY <2>1 DEF JobsSound, SoundJob, Idle, JobFields
  <2>3. /\ job'[p].at \in {"idle", "list"} \cup Listed => job'[p].want \in answered' \cup {None}
        /\ job'[p].at = "touch" => job'[p].want \in whole'
    <3>1. /\ j.at \in {"idle", "list"} \cup Listed => j.want \in answered \cup {None}
          /\ j.at = "touch" => j.want \in whole
      BY <2>1 DEF KnownIsWhole
    <3>2. CASE Capture(p)
      <4>1. job' = [job EXCEPT ![p] = [j EXCEPT !.at = "list"]] /\ j.at = "idle"
        BY <2>1, <3>2 DEF Capture, Go, Becomes, At
      <4>2. job'[p].at = "list" /\ job'[p].want = j.want
        BY <2>2, <4>1 DEF JobFields
      <4>3. QED
        BY <1>1, <3>1, <4>1, <4>2
    <3>a. CASE \E name \in answered : Get(p, name)
      <4>1. PICK name \in answered : job' = [job EXCEPT ![p] = [Idle EXCEPT !.at = "list", !.want = name]]
        BY <3>a DEF Get, Becomes
      <4>2. job'[p].at = "list" /\ job'[p].want \in answered
        BY <2>2, <4>1 DEF JobFields
      <4>3. QED
        BY <1>1, <4>2
    <3>3. CASE Clean(p)
      <4>1. j.at \in {"list"} \cup Listed
        BY <2>1, <3>3 DEF Clean, List, Filter, Sort, ExpireOne, TrimOne, At, Listed
      <4>2. \/ job'[p] = Idle
            \/ job'[p].at # "touch" /\ job'[p].want = j.want
        <5>1. CASE List(p)
          BY <2>1, <2>2, <5>1 DEF List, Becomes, JobFields
        <5>2. CASE Filter(p)
          BY <2>1, <2>2, <5>2 DEF Filter, Becomes, JobFields
        <5>3. CASE Sort(p)
          BY <2>1, <2>2, <5>3 DEF Sort, End, Becomes, JobFields
        <5>4. CASE ExpireOne(p)
          <6>1. PICK f, k : job' = [job EXCEPT ![p] = [j EXCEPT !.files = f, !.kept = k]] /\ j.at = "remove"
            BY <2>1, <5>4 DEF ExpireOne, Becomes, At
          <6>2. QED
            BY <2>2, <6>1 DEF JobFields
        <5>5. CASE TrimOne(p)
          BY <2>1, <2>2, <5>5 DEF TrimOne, Becomes, At, JobFields
        <5>6. QED
          BY <3>3, <5>1, <5>2, <5>3, <5>4, <5>5 DEF Clean
      <4>3. QED
        BY <1>1, <3>1, <4>1, <4>2 DEF Idle, None
    <3>4. CASE (\E good \in BOOLEAN : Decode(p, good)) \/ Fails(p) \/ Touch(p) \/ ScreenshotPathFor(p)
      BY <2>2, <3>4 DEF Decode, Touch, Fails, ScreenshotPathFor, End, Becomes, Idle
    <3>5. CASE Create(p)
      BY <2>1, <2>2, <3>5 DEF Create, Becomes, Listed, JobFields
    <3>6. CASE Write(p)
      BY <2>1, <2>2, <3>6 DEF Write, Go, Becomes, Listed, JobFields
    <3>7. CASE SendFile(p)
      BY <1>1, <2>1, <3>1, <3>7 DEF SendFile
    <3>8. QED
      BY <3>2, <3>a, <3>3, <3>4, <3>5, <3>6, <3>7 DEF Step
  <2>4. QED
    BY <1>1, <1>2, <1>3, <2>3 DEF KnownIsWhole
<1>4. CASE ScreenshotPathFor(p) \/ SendFile(p)
  <2>1. PICK s : s = sending[p]
    OBVIOUS
  <2>2. DOMAIN sending = Processes /\ DOMAIN s = {"name", "state"} /\ s.state # "part"
        /\ (s.state = "open" => s.name \in answered) /\ answered \subseteq whole
    BY <2>1 DEF KnownIsWhole
  <2>3. PICK r : /\ sending' = [sending EXCEPT ![p] = r] /\ DOMAIN r = {"name", "state"}
                 /\ r.state # "part" /\ (r.state = "open" => r.name \in answered)
    <3>1. CASE ScreenshotPathFor(p)
      <4>1. job[p].want \in answered
        BY <3>1 DEF ScreenshotPathFor, Cleaned, At, KnownIsWhole, Listed
      <4>2. PICK r : /\ sending' = [sending EXCEPT ![p] = r]
                     /\ r = IF job[p].want \in present
                                         THEN [name |-> job[p].want, state |-> "open"]
                                         ELSE [NoResponse EXCEPT !.state = "missing"]
        BY <3>1 DEF ScreenshotPathFor
      <4>3. DOMAIN r = {"name", "state"} /\ r.state # "part" /\ (r.state = "open" => r.name \in answered)
        BY <4>1, <4>2 DEF NoResponse
      <4>4. QED
        BY <4>2, <4>3
    <3>2. CASE SendFile(p)
      <4>1. PICK state \in {"failed", "whole", "part"} :
               /\ sending' = [sending EXCEPT ![p].state = state] /\ s.state = "open"
               /\ state = "part" => s.name \notin whole
        BY <2>1, <3>2 DEF SendFile
      <4>2. PICK r : r = [s EXCEPT !.state = state]
        OBVIOUS
      <4>3. sending' = [sending EXCEPT ![p] = r]
        BY <2>1, <4>1, <4>2
      <4>4. DOMAIN r = {"name", "state"} /\ r.state = state
        BY <2>2, <4>2
      <4>5. QED
        BY <2>2, <4>1, <4>3, <4>4
    <3>3. QED
      BY <1>4, <3>1, <3>2
  <2>4. DOMAIN sending' = Processes /\ sending'[p] = r /\ \A q \in Processes \ {p} : sending'[q] = sending[q]
    BY <2>2, <2>3
  <2>5. /\ job'[p].at \in {"idle", "list"} \cup Listed => job'[p].want \in answered' \cup {None}
        /\ job'[p].at = "touch" => job'[p].want \in whole'
    <3>1. CASE job'[p] = Idle
      BY <3>1 DEF Idle, Listed
    <3>2. CASE job' = job
      BY <1>1, <3>2 DEF KnownIsWhole
    <3>3. QED
      BY <1>4, <3>1, <3>2 DEF ScreenshotPathFor, SendFile, End, Becomes, JobsSound
  <2>6. QED
    BY <1>1, <1>2, <2>3, <2>4, <2>5 DEF KnownIsWhole
<1>5. QED
  BY <1>3, <1>4
  DEF Step, Capture, Get, Clean, List, Filter, Sort, ExpireOne, TrimOne, Decode, Create, Write, Touch, Fails

(* What one turn of a cleanup does to what its process has listed.         *)
LEMMA ExpireDoes ==
    ASSUME JobsSound, NEW p \in Processes, ExpireOne(p)
    PROVE  \E f \in Seq(Created), k \in Seq(Created) :
             LET h == Head(job[p].files) IN
             /\ f = Tail(job[p].files) /\ job[p].files # <<>> /\ h \in Created
             /\ k = job[p].kept \/ k = Append(job[p].kept, h)
             /\ h \in present' => k = Append(job[p].kept, h)
             /\ job'[p].files = f /\ job'[p].kept = k
             /\ job'[p].seen = job[p].seen /\ job[p].at = "remove" /\ job'[p].at = "remove"
             /\ present' = present \/ (present' = present \ {h} /\ Expired(p, h) /\ h \in present)
<1>1. PICK j : j = job[p]
  OBVIOUS
<1>2. DOMAIN j = JobFields /\ DOMAIN job = Processes /\ j.files \in Seq(Created) /\ j.kept \in Seq(Created)
  BY <1>1 DEF JobsSound, SoundJob
<1>3. PICK h, f, k :
         /\ h = Head(j.files) /\ f = Tail(j.files)
         /\ k = (IF h \in present /\ ~Expired(p, h) THEN Append(j.kept, h) ELSE j.kept)
  OBVIOUS
<1>4. /\ job' = [job EXCEPT ![p] = [j EXCEPT !.files = f, !.kept = k]]
      /\ j.at = "remove" /\ j.files # <<>>
      /\ present' = IF h \in present /\ Expired(p, h) THEN present \ {h} ELSE present
  BY <1>1, <1>3 DEF ExpireOne, At, Becomes
<1>5. f \in Seq(Created) /\ h \in Created
  BY <1>2, <1>3, <1>4, TailValues
<1>6. k \in Seq(Created)
  BY <1>2, <1>3, <1>5, AppendValues
<1>7. job'[p].files = f /\ job'[p].kept = k /\ job'[p].seen = j.seen /\ job'[p].at = "remove"
  BY <1>2, <1>4 DEF JobFields
<1>8. QED
  BY <1>1, <1>3, <1>4, <1>5, <1>6, <1>7

LEMMA TrimDoes ==
    ASSUME JobsSound, NEW p \in Processes, TrimOne(p)
    PROVE  /\ job[p].kept # <<>> /\ job[p].files = <<>> /\ MaxFiles > 0 /\ Len(job[p].kept) > MaxFiles
           /\ job'[p].files = job[p].files /\ job'[p].kept = Tail(job[p].kept)
           /\ job'[p].seen = job[p].seen /\ job[p].at = "remove" /\ job'[p].at = "remove"
           /\ present' = present \ {Head(job[p].kept)}
<1>1. PICK j : j = job[p]
  OBVIOUS
<1>2. DOMAIN j = JobFields /\ DOMAIN job = Processes /\ j.kept \in Seq(Created)
  BY <1>1 DEF JobsSound, SoundJob
<1>3. /\ job' = [job EXCEPT ![p] = [j EXCEPT !.kept = Tail(j.kept)]]
      /\ j.at = "remove" /\ j.files = <<>> /\ MaxFiles > 0 /\ Len(j.kept) > MaxFiles
      /\ present' = present \ {Head(j.kept)}
  BY <1>1 DEF TrimOne, TooMany, At, Becomes
<1>4. j.kept # <<>>
  BY <1>2, <1>3, StoreAssumption
<1>5. job'[p].files = j.files /\ job'[p].kept = Tail(j.kept) /\ job'[p].seen = j.seen /\ job'[p].at = "remove"
  BY <1>2, <1>3 DEF JobFields
<1>6. QED
  BY <1>1, <1>3, <1>4, <1>5

LEMMA SortDoes ==
    ASSUME JobsSound, TimesSound, NEW p \in Processes, Sort(p), ~End(p)
    PROVE  \E s \in Seq(Created) :
             /\ Values(s) = job[p].seen /\ InOrder(s)
             /\ job[p].at = "sort" /\ job'[p].at = "remove" /\ job'[p].seen = {}
             /\ \/ job'[p].files = s /\ job'[p].kept = <<>>
                \/ job'[p].files = <<>> /\ job'[p].kept = s
<1>1. PICK j : j = job[p]
  OBVIOUS
<1>2. DOMAIN j = JobFields /\ DOMAIN job = Processes /\ j.seen \in SUBSET Created
  BY <1>1 DEF JobsSound, SoundJob
<1>3. PICK s \in ByTime(j.seen) :
         job' = [job EXCEPT ![p] = [j EXCEPT !.at = "remove", !.seen = {},
                                             !.files = IF Retention THEN s ELSE <<>>,
                                             !.kept = IF Retention THEN <<>> ELSE s]]
  BY <1>1 DEF Sort, Becomes
<1>4. s \in Seq(Created) /\ Values(s) = j.seen /\ InOrder(s)
  BY <1>2, <1>3, ByTimeOrders
<1>5. /\ job'[p].at = "remove" /\ job'[p].seen = {}
      /\ \/ job'[p].files = s /\ job'[p].kept = <<>>
         \/ job'[p].files = <<>> /\ job'[p].kept = s
  BY <1>2, <1>3 DEF JobFields
<1>6. j.at = "sort"
  BY <1>1 DEF Sort, At
<1>7. QED
  BY <1>1, <1>4, <1>5, <1>6

LEMMA FollowsLater ==
    ASSUME TimesSound, TimesSound', Later, NEW m \in Created, NEW n \in Created, Follows(m, n)
    PROVE  Follows(m, n)'
<1>1. mtime[n] \in Int /\ mtime'[n] \in Int /\ m \in Int /\ mtime'[n] >= mtime[n]
  BY FilesFinite DEF Later, TimesSound
<1>2. QED
  BY <1>1 DEF Follows

(* The order a cleanup goes in is not disturbed by what happens meanwhile. *)
SortedJob(files, kept) ==
    /\ InOrder(files) /\ InOrder(kept)
    /\ \A i \in DOMAIN kept : \A j \in DOMAIN files : Follows(kept[i], files[j])

LEMMA SortedLater ==
    ASSUME TimesSound, TimesSound', Later,
           NEW files \in Seq(Created), NEW kept \in Seq(Created), SortedJob(files, kept)
    PROVE  SortedJob(files, kept)'
<1>1. /\ \A i \in DOMAIN files : files[i] \in Created
      /\ \A i \in DOMAIN kept : kept[i] \in Created
  OBVIOUS
<1>2. /\ \A i, j \in DOMAIN files : i < j => Follows(files[i], files[j])'
      /\ \A i, j \in DOMAIN kept : i < j => Follows(kept[i], kept[j])'
      /\ \A i \in DOMAIN kept : \A j \in DOMAIN files : Follows(kept[i], files[j])'
  BY <1>1, FollowsLater DEF SortedJob, InOrder
<1>3. QED
  BY <1>2 DEF SortedJob, InOrder

LEMMA TailInOrder ==
    ASSUME NEW s \in Seq(Created), s # <<>>, InOrder(s)
    PROVE  /\ InOrder(Tail(s))
           /\ \A i \in DOMAIN Tail(s) : Follows(Head(s), Tail(s)[i])
<1>1. /\ 1 \in DOMAIN s /\ s[1] = Head(s)
      /\ \A i \in DOMAIN Tail(s) : i \in Nat /\ i > 0 /\ i + 1 \in DOMAIN s /\ Tail(s)[i] = s[i + 1]
  BY TailValues
<1>2. ASSUME NEW i \in DOMAIN Tail(s) PROVE Follows(Head(s), Tail(s)[i])
  <2>1. 1 < i + 1 /\ i + 1 \in DOMAIN s
    BY <1>1
  <2>2. QED
    BY <1>1, <2>1 DEF InOrder
<1>3. ASSUME NEW i \in DOMAIN Tail(s), NEW k \in DOMAIN Tail(s), i < k PROVE Follows(Tail(s)[i], Tail(s)[k])
  <2>1. i + 1 < k + 1 /\ i + 1 \in DOMAIN s /\ k + 1 \in DOMAIN s
    BY <1>1, <1>3
  <2>2. QED
    BY <1>1, <2>1 DEF InOrder
<1>4. QED
  BY <1>2, <1>3 DEF InOrder

LEMMA TailSorted ==
    ASSUME NEW files \in Seq(Created), NEW kept \in Seq(Created), files # <<>>, SortedJob(files, kept)
    PROVE  SortedJob(Tail(files), kept)
<1>1. InOrder(Tail(files))
  BY TailInOrder DEF SortedJob
<1>2. \A i \in DOMAIN Tail(files) : i + 1 \in DOMAIN files /\ Tail(files)[i] = files[i + 1]
  BY TailValues
<1>3. QED
  BY <1>1, <1>2 DEF SortedJob

LEMMA MovedSorted ==
    ASSUME NEW files \in Seq(Created), NEW kept \in Seq(Created), files # <<>>, SortedJob(files, kept)
    PROVE  SortedJob(Tail(files), Append(kept, Head(files)))
<1>1. PICK h, more : h = Head(files) /\ more = Append(kept, h)
  OBVIOUS
<1>2. SortedJob(Tail(files), kept) /\ InOrder(kept)
  BY TailSorted DEF SortedJob
<1>3. /\ h \in Created /\ 1 \in DOMAIN files /\ files[1] = h
      /\ \A i \in DOMAIN Tail(files) : Follows(h, Tail(files)[i])
  BY <1>1, TailValues, TailInOrder DEF SortedJob
<1>4. /\ \A i \in DOMAIN more : \/ i \in DOMAIN kept /\ more[i] = kept[i]
                                \/ i = Len(kept) + 1 /\ more[i] = h
      /\ DOMAIN kept = 1 .. Len(kept) /\ Len(kept) \in Nat
  BY <1>1, <1>3, AppendValues
<1>5. \A i \in DOMAIN kept : Follows(kept[i], h)
  BY <1>3 DEF SortedJob
<1>6. ASSUME NEW i \in DOMAIN more, NEW k \in DOMAIN more, i < k PROVE Follows(more[i], more[k])
  <2>1. i \in DOMAIN kept /\ more[i] = kept[i]
    BY <1>4, <1>6
  <2>2. CASE k \in DOMAIN kept /\ more[k] = kept[k]
    BY <1>2, <1>6, <2>1, <2>2 DEF InOrder
  <2>3. CASE more[k] = h
    BY <1>5, <2>1, <2>3
  <2>4. QED
    BY <1>4, <2>2, <2>3
<1>7. \A i \in DOMAIN more : \A k \in DOMAIN Tail(files) : Follows(more[i], Tail(files)[k])
  BY <1>2, <1>3, <1>4 DEF SortedJob
<1>8. QED
  BY <1>1, <1>2, <1>6, <1>7 DEF SortedJob, InOrder

LEMMA SortedStep ==
    ASSUME TimesSound, TimesSound', Later, JobsSound, JobsSound', Sorted, NEW p \in Processes, Step(p),
           \A q \in Processes \ {p} : job'[q] = job[q]
    PROVE  Sorted'
<1>1. SUFFICES ASSUME NEW q \in Processes PROVE SortedJob(job[q].files, job[q].kept)'
  BY DEF Sorted, SortedJob
<1>2. SUFFICES \E f, k \in Seq(Created) : f = job'[q].files /\ k = job'[q].kept /\ SortedJob(f, k)
  <2>1. SUFFICES ASSUME NEW f \in Seq(Created), NEW k \in Seq(Created),
                        f = job'[q].files, k = job'[q].kept, SortedJob(f, k)
                 PROVE  SortedJob(job[q].files, job[q].kept)'
    OBVIOUS
  <2>2. SortedJob(f, k)'
    BY <2>1, SortedLater
  <2>3. QED
    BY <2>1, <2>2 DEF SortedJob, InOrder, Follows
<1>3. PICK j : j = job[q]
  OBVIOUS
<1>4. j.files \in Seq(Created) /\ j.kept \in Seq(Created) /\ SortedJob(j.files, j.kept) /\ DOMAIN j = JobFields
  BY <1>3 DEF Sorted, SortedJob, JobsSound, SoundJob
<1>5. CASE job'[q].files = j.files /\ job'[q].kept = j.kept
  BY <1>4, <1>5
<1>6. <<>> \in Seq(Created) /\ SortedJob(<<>>, <<>>)
  BY DEF SortedJob, InOrder
<1>7. CASE job'[q].files = <<>> /\ job'[q].kept = <<>>
  BY <1>6, <1>7
<1>8. CASE q = p /\ Sort(p) /\ ~End(p)
  <2>1. PICK s \in Seq(Created) : /\ InOrder(s)
                                  /\ \/ job'[p].files = s /\ job'[p].kept = <<>>
                                     \/ job'[p].files = <<>> /\ job'[p].kept = s
    BY <1>8, SortDoes
  <2>2. SortedJob(s, <<>>) /\ SortedJob(<<>>, s)
    BY <1>6, <2>1 DEF SortedJob
  <2>3. QED
    BY <1>6, <1>8, <2>1, <2>2
<1>9. CASE q = p /\ ExpireOne(p)
  <2>1. PICK f \in Seq(Created), k \in Seq(Created) :
           /\ f = Tail(j.files) /\ j.files # <<>>
           /\ k = j.kept \/ k = Append(j.kept, Head(j.files))
           /\ job'[p].files = f /\ job'[p].kept = k
    BY <1>3, <1>9, ExpireDoes
  <2>2. SortedJob(f, j.kept)
    BY <1>4, <2>1, TailSorted
  <2>3. SortedJob(f, Append(j.kept, Head(j.files)))
    BY <1>4, <2>1, MovedSorted
  <2>4. QED
    BY <1>9, <2>1, <2>2, <2>3
<1>10. CASE q = p /\ TrimOne(p)
  <2>1. /\ job'[p].files = <<>> /\ job'[p].kept = Tail(j.kept) /\ j.kept # <<>>
    BY <1>3, <1>10, TrimDoes
  <2>2. Tail(j.kept) \in Seq(Created) /\ InOrder(Tail(j.kept))
    BY <1>4, <2>1, TailValues, TailInOrder DEF SortedJob
  <2>3. SortedJob(<<>>, Tail(j.kept))
    BY <1>6, <2>2 DEF SortedJob
  <2>4. QED
    BY <1>6, <1>10, <2>1, <2>2, <2>3
<1>11. CASE q # p
  BY <1>3, <1>5, <1>11
<1>12. CASE q = p /\ ~(Sort(p) /\ ~End(p)) /\ ~ExpireOne(p) /\ ~TrimOne(p)
  <2>1. DOMAIN job = Processes
    BY DEF JobsSound
  <2>2. DOMAIN Idle = JobFields /\ Idle.files = <<>> /\ Idle.kept = <<>>
    BY DEF Idle, JobFields
  <2>3. \/ job'[p].files = j.files /\ job'[p].kept = j.kept
        \/ job'[p].files = <<>> /\ job'[p].kept = <<>>
    <3>1. CASE Capture(p) \/ Write(p) \/ Create(p)
      BY <1>3, <1>4, <1>12, <2>1, <3>1 DEF Capture, Write, Create, Go, Becomes, JobFields
    <3>2. CASE List(p)
      BY <1>3, <1>4, <1>12, <2>1, <3>2 DEF List, Becomes, JobFields
    <3>3. CASE Filter(p)
      BY <1>3, <1>4, <1>12, <2>1, <3>3 DEF Filter, Becomes, JobFields
    <3>4. CASE End(p)
      BY <2>1, <2>2, <3>4 DEF End, Becomes
    <3>5. CASE SendFile(p)
      BY <1>3, <1>12, <3>5 DEF SendFile
    <3>6. CASE \E name \in answered : Get(p, name)
      BY <2>1, <2>2, <3>6 DEF Get, Becomes, JobFields
    <3>7. CASE \E good \in BOOLEAN : Decode(p, good)
      BY <2>1, <2>2, <3>7 DEF Decode, End, Becomes, JobFields
    <3>8. QED
      BY <1>12, <3>1, <3>2, <3>3, <3>4, <3>5, <3>6, <3>7
      DEF Step, Clean, Touch, Fails, ScreenshotPathFor
  <2>4. QED
    BY <1>5, <1>7, <1>12, <2>3
<1>13. QED
  BY <1>8, <1>9, <1>10, <1>11, <1>12

(* No step but a listing and a creation tells anything of other files.     *)
Quiet ==
    /\ present' \subseteq present
    /\ \A q \in Processes : job'[q].at \in Listed =>
          job[q].at \in Listed /\ Listing(q)' \cap present' = Listing(q) \cap present'

LEMMA QuietStep ==
    ASSUME JobsSound, TimesSound, NEW p \in Processes, Step(p), ~List(p), ~Create(p),
           \A q \in Processes \ {p} : job'[q] = job[q]
    PROVE  Quiet
<1>1. present' \subseteq present
  BY DEF Step, Capture, Get, Clean, Filter, Sort, ExpireOne, TrimOne, Decode, Write, Touch,
         ScreenshotPathFor, SendFile, Fails
<1>2. PICK j : j = job[p]
  OBVIOUS
<1>3. /\ DOMAIN j = JobFields /\ DOMAIN job = Processes /\ DOMAIN Idle = JobFields
      /\ j.files \in Seq(Created) /\ j.kept \in Seq(Created) /\ Idle.at = "idle"
  BY <1>2 DEF JobsSound, SoundJob, Idle, JobFields
<1>4. Values(<<>>) = {}
  BY DEF Values
<1>5. ASSUME job'[p].at \in Listed
      PROVE  job[p].at \in Listed /\ Listing(p)' \cap present' = Listing(p) \cap present'
  <2>1. CASE Filter(p)
    <3>1. j.at = "filter" /\ job' = [job EXCEPT ![p] = [j EXCEPT !.at = "sort", !.seen = @ \cap present]]
          /\ present' = present
      BY <1>2, <2>1 DEF Filter, At, Becomes
    <3>2. job'[p].seen = j.seen \cap present /\ job'[p].files = j.files /\ job'[p].kept = j.kept
      BY <1>3, <3>1 DEF JobFields
    <3>3. QED
      BY <1>2, <3>1, <3>2 DEF Listing, Listed
  <2>2. CASE Sort(p)
    <3>1. ~End(p)
      BY <1>3, <1>5 DEF End, Becomes, Listed
    <3>2. PICK s \in Seq(Created) :
             /\ Values(s) = j.seen /\ j.at = "sort" /\ job'[p].seen = {}
             /\ \/ job'[p].files = s /\ job'[p].kept = <<>>
                \/ job'[p].files = <<>> /\ job'[p].kept = s
      BY <1>2, <2>2, <3>1, SortDoes
    <3>3. j.files = <<>> /\ j.kept = <<>>
      BY <1>2, <3>2 DEF JobsSound, SoundJob
    <3>4. QED
      BY <1>2, <1>4, <3>2, <3>3 DEF Listing, Listed
  <2>3. CASE ExpireOne(p)
    <3>1. PICK f \in Seq(Created), k \in Seq(Created), h \in Created :
             /\ h = Head(j.files) /\ f = Tail(j.files) /\ j.files # <<>>
             /\ k = j.kept \/ k = Append(j.kept, h)
             /\ h \in present' => k = Append(j.kept, h)
             /\ job'[p].files = f /\ job'[p].kept = k
             /\ job'[p].seen = j.seen /\ j.at = "remove"
      BY <1>2, <2>3, ExpireDoes
    <3>2. Values(j.files) = {h} \cup Values(f)
      BY <1>3, <3>1, TailValues
    <3>3. Values(Append(j.kept, h)) = Values(j.kept) \cup {h}
      BY <1>3, AppendValues
    <3>4. QED
      BY <1>2, <3>1, <3>2, <3>3 DEF Listing, Listed
  <2>4. CASE TrimOne(p)
    <3>1. /\ j.kept # <<>> /\ j.at = "remove"
          /\ job'[p].files = j.files /\ job'[p].kept = Tail(j.kept) /\ job'[p].seen = j.seen
          /\ present' = present \ {Head(j.kept)}
      BY <1>2, <2>4, TrimDoes
    <3>2. Values(j.kept) = {Head(j.kept)} \cup Values(Tail(j.kept))
      BY <1>3, <3>1, TailValues
    <3>3. QED
      BY <1>2, <3>1, <3>2 DEF Listing, Listed
  <2>5. CASE SendFile(p)
    BY <1>5, <2>5 DEF SendFile, Listing
  <2>6. CASE ~Filter(p) /\ ~Sort(p) /\ ~ExpireOne(p) /\ ~TrimOne(p) /\ ~SendFile(p)
    <3>1. job'[p].at \in {"idle", "list", "create", "touch"}
      <4>1. CASE Capture(p) \/ Write(p)
        BY <1>2, <1>3, <4>1 DEF Capture, Write, Go, Becomes, JobFields
      <4>2. CASE End(p)
        BY <1>3, <4>2 DEF End, Becomes
      <4>3. CASE \E name \in answered : Get(p, name)
        BY <1>3, <4>3 DEF Get, Becomes, JobFields
      <4>4. CASE \E good \in BOOLEAN : Decode(p, good)
        BY <1>3, <4>4 DEF Decode, End, Becomes, JobFields
      <4>5. QED
        BY <2>6, <4>1, <4>2, <4>3, <4>4 DEF Step, Clean, Touch, Fails, ScreenshotPathFor
    <3>2. QED
      BY <1>5, <3>1 DEF Listed
  <2>7. QED
    BY <2>1, <2>2, <2>3, <2>4, <2>5, <2>6
<1>6. \A q \in Processes \ {p} : Listing(q)' = Listing(q)
  BY DEF Listing
<1>7. QED
  BY <1>1, <1>5, <1>6 DEF Quiet

LEMMA ListDoes ==
    ASSUME JobsSound, NEW p \in Processes, List(p)
    PROVE  /\ present' = present /\ present \subseteq Listing(p)'
           /\ job'[p].at = "filter"
<1>1. PICK j : j = job[p]
  OBVIOUS
<1>2. DOMAIN j = JobFields /\ DOMAIN job = Processes
  BY <1>1 DEF JobsSound, SoundJob
<1>3. /\ job' = [job EXCEPT ![p] = [j EXCEPT !.at = "filter", !.seen = present, !.cutoff = horizon]]
      /\ present' = present
  BY <1>1 DEF List, Becomes
<1>4. job'[p].at = "filter" /\ job'[p].seen = present
  BY <1>2, <1>3 DEF JobFields
<1>5. QED
  BY <1>3, <1>4 DEF Listing

LEMMA CreateDoes ==
    ASSUME JobsSound, TimesSound, NEW p \in Processes, Create(p)
    PROVE  /\ job[p].at = "create" /\ job'[p].at = "write"
           /\ present' = present \cup {clock + 1} /\ clock + 1 \notin Created
<1>1. PICK j : j = job[p]
  OBVIOUS
<1>2. DOMAIN j = JobFields /\ DOMAIN job = Processes
  BY <1>1 DEF JobsSound, SoundJob
<1>3. /\ job' = [job EXCEPT ![p] = [j EXCEPT !.at = "write", !.want = clock + 1]]
      /\ present' = present \cup {clock + 1} /\ j.at = "create"
  BY <1>1 DEF Create, Becomes, At
<1>4. job'[p].at = "write"
  BY <1>2, <1>3 DEF JobFields
<1>5. clock + 1 \notin Created
  BY DEF TimesSound
<1>6. QED
  BY <1>1, <1>3, <1>4, <1>5

LEMMA ListingCreated == ASSUME JobsSound, NEW q \in Processes PROVE Listing(q) \subseteq Created
<1>1. PICK j : j = job[q]
  OBVIOUS
<1>2. j.seen \subseteq Created /\ j.files \in Seq(Created) /\ j.kept \in Seq(Created)
  BY <1>1 DEF JobsSound, SoundJob
<1>3. Values(j.files) \subseteq Created /\ Values(j.kept) \subseteq Created
  BY <1>2 DEF Values
<1>4. QED
  BY <1>1, <1>2, <1>3 DEF Listing

LEMMA NestedStep ==
    ASSUME JobsSound, TimesSound, Nested, NEW p \in Processes, Step(p),
           \A q \in Processes \ {p} : job'[q] = job[q]
    PROVE  Nested'
<1>1. CASE Quiet
  <2>1. SUFFICES ASSUME NEW q \in Processes, NEW r \in Processes,
                        job'[q].at \in Listed, job'[r].at \in Listed
                 PROVE  \/ Listing(q)' \cap present' \subseteq Listing(r)'
                        \/ Listing(r)' \cap present' \subseteq Listing(q)'
    BY DEF Nested
  <2>2. /\ Listing(q)' \cap present' = Listing(q) \cap present'
        /\ Listing(r)' \cap present' = Listing(r) \cap present'
        /\ present' \subseteq present
        /\ \/ Listing(q) \cap present \subseteq Listing(r)
           \/ Listing(r) \cap present \subseteq Listing(q)
    BY <1>1, <2>1 DEF Quiet, Nested
  <2>3. QED
    BY <2>2
<1>2. \A q \in Processes \ {p} : Listing(q)' = Listing(q)
  BY DEF Listing
<1>3. CASE List(p)
  <2>1. present' = present /\ present \subseteq Listing(p)'
    BY <1>3, ListDoes
  <2>2. QED
    BY <1>2, <2>1 DEF Nested
<1>4. CASE Create(p)
  <2>1. job'[p].at \notin Listed /\ present' \cap Created = present
    BY <1>4, CreateDoes DEF Listed, TimesSound
  <2>2. \A q \in Processes : Listing(q) \cap present' = Listing(q) \cap present
    BY <2>1, ListingCreated
  <2>3. QED
    BY <1>2, <2>1, <2>2 DEF Nested
<1>5. QED
  BY <1>1, <1>3, <1>4, QuietStep

(* Files that leave take nothing from the bound.                           *)
LEMMA NewerKept ==
    ASSUME TimesSound, TimesSound', Quiet,
           NEW N \in SUBSET present, NEW owner \in [N -> Processes], Newer(N, owner),
           \A n \in N : job'[owner[n]].at # "create"
    PROVE  \E M \in SUBSET present' : \E o \in [M -> Processes] : Newer(M, o)'
<1>1. PICK M : M = N \cap present'
  OBVIOUS
<1>2. PICK o : o = [n \in M |-> owner[n]]
  OBVIOUS
<1>3. o \in [M -> Processes] /\ M \in SUBSET present' /\ present' \subseteq present
      /\ \A n \in M : n \in N /\ o[n] = owner[n]
  BY <1>1, <1>2 DEF Quiet
<1>4. Cardinality(present' \ M) <= MaxFiles
  <2>1. present' \ M \subseteq present \ N
    BY <1>1, <1>3
  <2>2. IsFiniteSet(present \ N) /\ IsFiniteSet(present)
    BY FilesFinite, FS_Difference
  <2>3. /\ Cardinality(present' \ M) <= Cardinality(present \ N)
        /\ Cardinality(present' \ M) \in Nat /\ Cardinality(present \ N) \in Nat
    BY <2>1, <2>2, FS_Subset, FS_CardinalityType
  <2>4. Cardinality(present \ N) <= MaxFiles
    BY DEF Newer
  <2>5. QED
    BY <2>3, <2>4, StoreAssumption
<1>5. \A m, n \in M : o[m] = o[n] => m = n
  BY <1>3 DEF Newer
<1>6. ASSUME NEW n \in M, job'[o[n]].at \in Listed
      PROVE  present' \ Listing(o[n])' \subseteq M \ {n}
  <2>1. PICK q \in Processes : q = o[n] /\ q = owner[n] /\ n \in N
    BY <1>3
  <2>2. job[q].at \in Listed /\ Listing(q)' \cap present' = Listing(q) \cap present'
    BY <1>6, <2>1 DEF Quiet
  <2>3. present \ Listing(q) \subseteq N \ {n}
    BY <2>1, <2>2 DEF Newer
  <2>4. present' \ Listing(q)' \subseteq M \ {n}
    BY <1>1, <1>3, <2>2, <2>3
  <2>5. QED
    BY <2>1, <2>4 DEF Listing
<1>7. \A n \in M : job'[o[n]].at # "create"
  BY <1>3
<1>8. Newer(M, o)'
  BY <1>4, <1>5, <1>6, <1>7 DEF Newer
<1>9. QED
  BY <1>3, <1>8

LEMMA NewerStep ==
    ASSUME JobsSound, JobsSound', TimesSound, TimesSound', Nested, OnePerProcess,
           NEW p \in Processes, Step(p), \A q \in Processes \ {p} : job'[q] = job[q]
    PROVE  OnePerProcess'
<1>1. SUFFICES ASSUME MaxFiles > 0
               PROVE  \E M \in SUBSET present' : \E o \in [M -> Processes] : Newer(M, o)'
  BY DEF OnePerProcess
<1>2. PICK N \in SUBSET present : \E owner \in [N -> Processes] : Newer(N, owner)
  BY <1>1 DEF OnePerProcess
<1>a. PICK owner \in [N -> Processes] : Newer(N, owner)
  BY <1>2
<1>3. PICK j : j = job[p]
  OBVIOUS
<1>4. DOMAIN j = JobFields /\ DOMAIN job = Processes /\ DOMAIN Idle = JobFields
      /\ j.kept \in Seq(Created)
  BY <1>3 DEF JobsSound, SoundJob, Idle, JobFields
<1>5. \A q \in Processes \ {p} : Listing(q)' = Listing(q)
  BY DEF Listing
<1>6. /\ \A m, n \in N : owner[m] = owner[n] => m = n
      /\ \A n \in N : job[owner[n]].at # "create"
      /\ \A n \in N : job[owner[n]].at \in Listed => present \ Listing(owner[n]) \subseteq N \ {n}
      /\ Cardinality(present \ N) <= MaxFiles
  BY <1>a DEF Newer
<1>7. CASE List(p)
  <2>1. present' = present /\ present \subseteq Listing(p)' /\ job'[p].at = "filter"
    BY <1>7, ListDoes
  <2>2. ASSUME NEW n \in N, job'[owner[n]].at \in Listed
        PROVE  present' \ Listing(owner[n])' \subseteq N \ {n}
    <3>1. CASE owner[n] = p
      BY <2>1, <3>1 DEF Listing
    <3>2. CASE owner[n] # p
      BY <1>5, <1>6, <2>1, <2>2, <3>2 DEF Listing
    <3>3. QED
      BY <3>1, <3>2
  <2>3. \A n \in N : job'[owner[n]].at # "create"
    BY <1>6, <2>1
  <2>4. Newer(N, owner)'
    BY <1>6, <2>1, <2>2, <2>3 DEF Newer
  <2>5. QED
    BY <2>1, <2>4
<1>8. CASE Create(p)
  <2>1. PICK x : x = clock + 1 /\ x \notin Created
    BY <1>8, CreateDoes
  <2>2. /\ j.at = "create" /\ job'[p].at = "write" /\ present' = present \cup {x} /\ x \notin present
    BY <1>3, <1>8, <2>1, CreateDoes DEF TimesSound
  <2>3. PICK M : M = N \cup {x}
    OBVIOUS
  <2>4. PICK o : o = [n \in M |-> IF n = x THEN p ELSE owner[n]]
    OBVIOUS
  <2>5. /\ o \in [M -> Processes] /\ M \in SUBSET present'
        /\ o[x] = p /\ x \notin N /\ \A n \in N : o[n] = owner[n] /\ owner[n] # p /\ owner[n] \in Processes
    BY <1>3, <1>6, <2>2, <2>3, <2>4
  <2>6. present' \ M = present \ N
    BY <2>2, <2>3
  <2>7. \A m, n \in M : o[m] = o[n] => m = n
    BY <1>6, <2>3, <2>5
  <2>8. \A n \in M : job'[o[n]].at # "create"
    BY <1>6, <2>2, <2>3, <2>5
  <2>9. ASSUME NEW n \in M, job'[o[n]].at \in Listed
        PROVE  present' \ Listing(o[n])' \subseteq M \ {n}
    <3>1. n \in N
      BY <2>2, <2>3, <2>5, <2>9 DEF Listed
    <3>2. present \ Listing(owner[n]) \subseteq N \ {n}
      BY <1>6, <2>5, <2>9, <3>1
    <3>3. present' \ Listing(owner[n]) \subseteq M \ {n}
      BY <2>2, <2>3, <2>5, <3>1, <3>2
    <3>4. o[n] = owner[n] /\ owner[n] \in Processes \ {p}
      BY <2>5, <3>1
    <3>5. Listing(o[n])' = Listing(owner[n])
      BY <3>4 DEF Listing
    <3>6. QED
      BY <3>3, <3>5
  <2>10. Newer(M, o)'
    BY <1>6, <2>6, <2>7, <2>8, <2>9 DEF Newer
  <2>11. QED
    BY <2>5, <2>10
<1>9. CASE ~List(p) /\ ~Create(p) /\ job'[p].at # "create"
  <2>1. Quiet
    BY <1>9, QuietStep
  <2>2. \A n \in N : job'[owner[n]].at # "create"
    BY <1>6, <1>9
  <2>3. QED
    BY <1>a, <2>1, <2>2, NewerKept
<1>10. CASE ~List(p) /\ ~Create(p) /\ job'[p].at = "create"
  <2>1. Decode(p, TRUE) \/ job' = job
    <3>1. CASE End(p)
      BY <1>4, <1>10, <3>1 DEF End, Becomes, Idle
    <3>2. CASE Capture(p) \/ Write(p)
      BY <1>3, <1>4, <1>10, <3>2 DEF Capture, Write, Go, Becomes, JobFields
    <3>3. CASE \E name \in answered : Get(p, name)
      BY <1>4, <1>10, <3>3 DEF Get, Becomes, JobFields
    <3>4. CASE Filter(p)
      BY <1>3, <1>4, <1>10, <3>4 DEF Filter, Becomes, JobFields
    <3>5. CASE Sort(p)
      BY <1>10, <3>1, <3>5, SortDoes
    <3>6. CASE ExpireOne(p)
      BY <1>10, <3>6, ExpireDoes
    <3>7. CASE TrimOne(p)
      BY <1>10, <3>7, TrimDoes
    <3>8. CASE \E good \in BOOLEAN : Decode(p, good)
      BY <3>1, <3>8 DEF Decode
    <3>9. QED
      BY <1>10, <3>1, <3>2, <3>3, <3>4, <3>5, <3>6, <3>7, <3>8
      DEF Step, Clean, Touch, Fails, ScreenshotPathFor, SendFile
  <2>2. Quiet
    BY <1>10, QuietStep
  <2>3. CASE \A n \in N : owner[n] # p
    BY <1>a, <1>6, <2>2, <2>3, NewerKept
  <2>4. CASE job' = job
    BY <1>a, <1>6, <2>2, <2>4, NewerKept
  <2>5. CASE Decode(p, TRUE) /\ \E n \in N : owner[n] = p
    <3>1. PICK x \in N : owner[x] = p
      BY <2>5
    <3>2. /\ j.at = "remove" /\ j.files = <<>> /\ present' = present /\ Len(j.kept) <= MaxFiles
      <4>1. Len(j.kept) \in Nat
        BY <1>4
      <4>2. QED
        BY <1>1, <1>3, <2>5, StoreAssumption DEF Decode, Cleaned, At, TooMany
    <3>3. PICK M : M = present \ Listing(p)
      OBVIOUS
    <3>4. M \subseteq N \ {x}
      BY <1>3, <1>6, <3>1, <3>2, <3>3 DEF Listed
    <3>5. PICK o : o = [n \in M |-> owner[n]]
      OBVIOUS
    <3>6. /\ o \in [M -> Processes] /\ M \in SUBSET present'
          /\ \A n \in M : n \in N /\ o[n] = owner[n] /\ owner[n] # p /\ owner[n] \in Processes
      BY <1>6, <3>1, <3>2, <3>3, <3>4, <3>5
    <3>7. Cardinality(present' \ M) <= MaxFiles
      <4>1. Listing(p) = Values(j.kept)
        BY <1>3, <3>2 DEF Listing, Values, JobsSound, SoundJob
      <4>2. present' \ M \subseteq Values(j.kept)
        BY <3>2, <3>3, <4>1
      <4>3. IsFiniteSet(Values(j.kept)) /\ Cardinality(Values(j.kept)) <= Len(j.kept)
        BY <1>4, HowManyValues
      <4>4. /\ Cardinality(present' \ M) <= Cardinality(Values(j.kept))
            /\ Cardinality(present' \ M) \in Nat /\ Cardinality(Values(j.kept)) \in Nat
        BY <4>2, <4>3, FS_Subset, FS_CardinalityType
      <4>5. Len(j.kept) \in Nat
        BY <1>4
      <4>6. QED
        BY <3>2, <4>3, <4>4, <4>5, StoreAssumption
    <3>8. \A m, n \in M : o[m] = o[n] => m = n
      BY <1>6, <3>6
    <3>9. \A n \in M : job'[o[n]].at # "create"
      BY <1>6, <3>6
    <3>10. ASSUME NEW n \in M, job'[o[n]].at \in Listed
           PROVE  present' \ Listing(o[n])' \subseteq M \ {n}
      <4>1. PICK q \in Processes \ {p} : q = owner[n] /\ q = o[n]
        BY <3>6
      <4>2. job[q].at \in Listed /\ job[p].at \in Listed
        BY <1>3, <3>2, <3>10, <4>1 DEF Listed
      <4>3. present \ Listing(q) \subseteq N \ {n}
        BY <1>6, <3>6, <4>1, <4>2
      <4>4. n \in present /\ n \notin Listing(p) /\ n \in Listing(q)
        BY <3>3, <4>3
      <4>5. Listing(p) \cap present \subseteq Listing(q)
        BY <4>2, <4>4 DEF Nested
      <4>6. present \ Listing(q) \subseteq M \ {n}
        BY <3>3, <4>4, <4>5
      <4>7. Listing(q)' = Listing(q)
        BY <4>1 DEF Listing
      <4>8. QED
        BY <3>2, <4>1, <4>6, <4>7
    <3>11. Newer(M, o)'
      BY <3>7, <3>8, <3>9, <3>10 DEF Newer
    <3>12. QED
      BY <3>6, <3>11
  <2>6. QED
    BY <2>1, <2>3, <2>4, <2>5
<1>11. QED
  BY <1>7, <1>8, <1>9, <1>10

LEMMA StoreInit == ASSUME ScreenshotInit PROVE StoreInv
<1>1. /\ present = {} /\ Created = {} /\ clock = 0 /\ horizon = 0 /\ answered = {} /\ whole = {}
      /\ DOMAIN job = Processes /\ \A p \in Processes : job[p] = Idle
      /\ DOMAIN sending = Processes /\ \A p \in Processes : sending[p] = NoResponse
  BY DEF ScreenshotInit, Created
<1>2. TimesSound
  BY <1>1 DEF TimesSound
<1>3. JobsSound
  BY <1>1, <1>2, IdleIsSound DEF JobsSound
<1>4. KnownIsWhole
  BY <1>1 DEF KnownIsWhole, Idle, NoResponse, None, Listed
<1>5. Nested
  BY <1>1 DEF Nested, Idle, Listed
<1>6. Sorted
  BY <1>1 DEF Sorted, InOrder, Idle
<1>7. OnePerProcess
  <2>1. SUFFICES ASSUME MaxFiles > 0
                 PROVE  \E N \in SUBSET present : \E owner \in [N -> Processes] : Newer(N, owner)
    BY DEF OnePerProcess
  <2>2. PICK owner : owner = [n \in {} |-> n]
    OBVIOUS
  <2>3. owner \in [{} -> Processes] /\ {} \in SUBSET present /\ present \ {} = {}
    BY <1>1, <2>2
  <2>4. Cardinality({}) = 0
    BY FS_EmptySet
  <2>5. Newer({}, owner)
    BY <2>1, <2>3, <2>4, StoreAssumption DEF Newer
  <2>6. QED
    BY <2>3, <2>5
<1>8. QED
  BY <1>2, <1>3, <1>4, <1>5, <1>6, <1>7 DEF StoreInv

LEMMA StoreStep == ASSUME StoreInv, [ScreenshotNext]_screenshotVars PROVE StoreInv'
<1>1. TimesSound /\ JobsSound /\ KnownIsWhole /\ Nested /\ OnePerProcess /\ Sorted
  BY DEF StoreInv
<1>2. TimesSound' /\ Later
  BY <1>1, TimesStep
<1>3. ASSUME NEW p \in Processes, Step(p) PROVE StoreInv'
  <2>1. JobsSound' /\ \A q \in Processes \ {p} : job'[q] = job[q]
    BY <1>1, <1>2, <1>3, JobsStep
  <2>2. KnownIsWhole'
    BY <1>1, <1>3, <2>1, KnownStep
  <2>3. Nested'
    BY <1>1, <1>3, <2>1, NestedStep
  <2>4. OnePerProcess'
    BY <1>1, <1>2, <1>3, <2>1, NewerStep
  <2>5. Sorted'
    BY <1>1, <1>2, <1>3, <2>1, SortedStep
  <2>6. QED
    BY <1>2, <2>1, <2>2, <2>3, <2>4, <2>5 DEF StoreInv
<1>4. CASE TimePasses \/ UNCHANGED screenshotVars
  <2>1. UNCHANGED <<present, whole, mtime, clock, answered, job, sending>>
    BY <1>4 DEF TimePasses, screenshotVars
  <2>2. JobsSound'
    <3>1. ASSUME NEW p \in Processes PROVE SoundJob(job[p])'
      <4>1. PICK j : j = job[p]
        OBVIOUS
      <4>2. SoundJob(j)'
        BY <1>1, <1>2, <4>1, SoundLater DEF JobsSound
      <4>3. QED
        BY <2>1, <4>1, <4>2 DEF SoundJob
    <3>2. QED
      BY <1>1, <2>1, <3>1 DEF JobsSound
  <2>3. KnownIsWhole' /\ Nested'
    BY <1>1, <2>1 DEF KnownIsWhole, Nested, Listing
  <2>4. OnePerProcess'
    <3>1. Quiet
      BY <2>1 DEF Quiet, Listing
    <3>2. SUFFICES ASSUME MaxFiles > 0
                   PROVE  \E N \in SUBSET present' : \E owner \in [N -> Processes] : Newer(N, owner)'
      BY DEF OnePerProcess
    <3>3. PICK N \in SUBSET present : \E owner \in [N -> Processes] : Newer(N, owner)
      BY <1>1, <3>2 DEF OnePerProcess
    <3>4. PICK owner \in [N -> Processes] : Newer(N, owner)
      BY <3>3
    <3>5. \A n \in N : job'[owner[n]].at # "create"
      BY <2>1, <3>4 DEF Newer
    <3>6. QED
      BY <1>1, <1>2, <3>1, <3>4, <3>5, NewerKept
  <2>5. Sorted'
    BY <1>1, <2>1 DEF Sorted, InOrder, Follows
  <2>6. QED
    BY <1>2, <2>2, <2>3, <2>4, <2>5 DEF StoreInv
<1>5. QED
  BY <1>3, <1>4 DEF ScreenshotNext

THEOREM StoreInvHolds == ScreenshotSpec => []StoreInv
<1>1. ScreenshotInit => StoreInv
  BY StoreInit
<1>2. StoreInv /\ [ScreenshotNext]_screenshotVars => StoreInv'
  BY StoreStep
<1>3. QED
  BY <1>1, <1>2, PTL DEF ScreenshotSpec

LEMMA InvBounds == ASSUME StoreInv PROVE StoreIsBounded
<1>1. SUFFICES ASSUME MaxFiles > 0 PROVE Cardinality(present) <= MaxFiles + Cardinality(Processes)
  BY DEF StoreIsBounded
<1>2. PICK N \in SUBSET present : \E owner \in [N -> Processes] : Newer(N, owner)
  BY <1>1 DEF StoreInv, OnePerProcess
<1>3. PICK owner \in [N -> Processes] : Newer(N, owner)
  BY <1>2
<1>4. IsFiniteSet(present) /\ IsFiniteSet(N) /\ IsFiniteSet(present \ N) /\ IsFiniteSet(Processes)
  BY FilesFinite, FS_Subset, StoreAssumption DEF StoreInv
<1>5. Cardinality(N) <= Cardinality(Processes)
  <2>1. owner \in Injection(N, Processes)
    BY <1>3 DEF Newer, Injection, IsInjective
  <2>2. QED
    BY <1>4, <2>1, FS_Injection
<1>6. present \cap N = N
  OBVIOUS
<1>7. Cardinality(present \ N) = Cardinality(present) - Cardinality(N)
  BY <1>4, <1>6, FS_Difference
<1>8. Cardinality(present \ N) <= MaxFiles
  BY <1>3 DEF Newer
<1>9. /\ Cardinality(present) \in Nat /\ Cardinality(N) \in Nat /\ Cardinality(Processes) \in Nat
      /\ Cardinality(present \ N) \in Nat /\ MaxFiles \in Nat
  BY <1>4, FS_CardinalityType, StoreAssumption
<1>10. QED
  BY <1>5, <1>7, <1>8, <1>9

(* The store holds its number of screenshots and one more of each process, *)
(* whatever the processes list, remove and create at the same time         *)
(* (cleanup_screenshots, save_screenshot).                                 *)
THEOREM BoundedStore == ScreenshotSpec => []StoreIsBounded
BY StoreInvHolds, InvBounds, PTL

(* No GET sends a part of an image that is being written (save_screenshot, *)
(* screenshot_path_for).                                                   *)
THEOREM ServedWhole == ScreenshotSpec => []ServedIsWhole
<1>1. StoreInv => ServedIsWhole
  BY DEF StoreInv, KnownIsWhole, ServedIsWhole
<1>2. QED
  BY <1>1, StoreInvHolds, PTL

LEMMA TrimmedIsSuperseded ==
    ASSUME StoreInv, NEW p \in Processes, TrimOne(p), NEW n, n = Head(job[p].kept)
    PROVE  MaxFiles > 0 /\ Cardinality({m \in Created \ {n} : mtime[m] > n}) >= MaxFiles
<1>1. PICK k : k = job[p].kept
  OBVIOUS
<1>2. k \in Seq(Created) /\ k # <<>> /\ MaxFiles > 0 /\ Len(k) > MaxFiles /\ InOrder(k)
      /\ n = Head(k)
  BY <1>1, TrimDoes DEF StoreInv, JobsSound, SoundJob, Sorted
<1>3. PICK t : t = Tail(k)
  OBVIOUS
<1>4. /\ t \in Seq(Created) /\ Len(t) = Len(k) - 1 /\ Len(k) \in Nat
      /\ InOrder(t) /\ \A i \in DOMAIN t : Follows(n, t[i])
  BY <1>2, <1>3, TailInOrder
<1>5. \A i, j \in DOMAIN t : t[i] = t[j] => i = j
  <2>1. SUFFICES ASSUME NEW i \in DOMAIN t, NEW j \in DOMAIN t, t[i] = t[j], i # j PROVE FALSE
    OBVIOUS
  <2>2. i < j \/ j < i
    BY <1>4, <2>1
  <2>3. QED
    BY <1>4, <2>1, <2>2 DEF InOrder, Follows
<1>6. Cardinality(Values(t)) = Len(t)
  BY <1>4, <1>5, HowManyValues
<1>7. Values(t) \subseteq {m \in Created \ {n} : mtime[m] > n}
  BY <1>4 DEF Values, Follows
<1>8. IsFiniteSet({m \in Created \ {n} : mtime[m] > n})
  <2>1. {m \in Created \ {n} : mtime[m] > n} \subseteq Created
    OBVIOUS
  <2>2. QED
    BY <2>1, FilesFinite, FS_Subset DEF StoreInv
<1>9. /\ Cardinality(Values(t)) <= Cardinality({m \in Created \ {n} : mtime[m] > n})
      /\ Cardinality({m \in Created \ {n} : mtime[m] > n}) \in Nat
  BY <1>7, <1>8, FS_Subset, FS_CardinalityType
<1>10. QED
  BY <1>2, <1>4, <1>6, <1>9, StoreAssumption

(* A screenshot leaves only when it is past its retention or as many       *)
(* others as the store may hold came after it: a cleanup that works on a   *)
(* stale listing never costs a screenshot its place (cleanup_screenshots). *)
THEOREM OnlySuperseded == ScreenshotSpec => OnlySupersededLeave
<1>1. ASSUME StoreInv, [ScreenshotNext]_screenshotVars, NEW n \in present \ present'
      PROVE  \/ Retention /\ mtime[n] <= horizon
             \/ MaxFiles > 0 /\ Cardinality({m \in Created \ {n} : mtime[m] > n}) >= MaxFiles
  <2>1. PICK p \in Processes : ExpireOne(p) \/ TrimOne(p)
    BY <1>1
    DEF ScreenshotNext, TimePasses, screenshotVars, Step, Capture, Get, Clean, List, Filter, Sort, Decode,
        Create, Write, Touch, ScreenshotPathFor, SendFile, Fails
  <2>2. JobsSound /\ TimesSound /\ SoundJob(job[p])
    BY <1>1 DEF StoreInv, JobsSound
  <2>3. CASE ExpireOne(p)
    <3>1. n = Head(job[p].files) /\ n \in Created /\ mtime[n] <= job[p].cutoff /\ job[p].files # <<>>
      BY <1>1, <2>2, <2>3, ExpireDoes DEF Expired
    <3>2. Retention /\ job[p].cutoff \in Nat /\ job[p].cutoff <= horizon /\ horizon \in Nat
      BY <2>2, <3>1 DEF SoundJob, TimesSound
    <3>3. mtime[n] \in Nat
      BY <2>2, <3>1, FilesFinite
    <3>4. mtime[n] <= horizon
      BY <3>1, <3>2, <3>3
    <3>5. QED
      BY <3>2, <3>4
  <2>4. CASE TrimOne(p)
    <3>1. n = Head(job[p].kept)
      BY <1>1, <2>2, <2>4, TrimDoes
    <3>2. QED
      BY <1>1, <2>4, <3>1, TrimmedIsSuperseded
  <2>5. QED
    BY <2>1, <2>3, <2>4
<1>2. StoreInv /\ [ScreenshotNext]_screenshotVars =>
          [\A n \in present \ present' :
             \/ Retention /\ mtime[n] <= horizon
             \/ MaxFiles > 0 /\ Cardinality({m \in Created \ {n} : mtime[m] > n}) >= MaxFiles]_screenshotVars
  BY <1>1
<1>3. QED
  BY <1>2, StoreInvHolds, PTL DEF ScreenshotSpec, OnlySupersededLeave
=============================================================================
