---------------------------- MODULE Publication ----------------------------
(***************************************************************************)
(* RepoPublisher.publish_addon_artifact (repo_ops.py): one generation of   *)
(* the Kodi repository is three files replaced one after the other under   *)
(* the global workflow lock, with a rollback when an operation raises.     *)
(*                                                                         *)
(* The lock is the abstract one of MutationExclusion.  Each os.replace is  *)
(* one step, so a crash, an unlocked reader or an exception can fall       *)
(* between any two.  The content of a zip is a build, an addons.xml is the *)
(* entry it lists for each addon, and an addons.xml.md5 is the addons.xml  *)
(* it was computed from.  Temporary files have random names no other step  *)
(* reads and are left out; the rollback copy of a zip is not.              *)
(***************************************************************************)
EXTENDS Naturals

CONSTANTS
    Publishers,     \* the threads that may publish, of any process
    Addons, Versions, Builds,
    Artifacts,      \* the built zips that may be published
    Declares,       \* the version in the addon.xml of a build
    IdFirst,        \* builds whose addon.xml writes id as the first attribute
    NoFile, Nobody

ASSUME PublicationAssumption ==
    /\ Artifacts \subseteq [addon : Addons, version : Versions, build : Builds]
    /\ Declares \in [Builds -> Versions]
    /\ IdFirst \subseteq Builds
    /\ NoFile \notin Builds
    /\ Nobody \notin Publishers

VARIABLES
    zips,     \* dev-repo/zips: the content of <addon>/<addon>-<version>.zip
    xml,      \* dev-repo/addons.xml
    md5,      \* dev-repo/addons.xml.md5
    strays,   \* rollback copies nobody will remove any more
    lock,     \* the publisher inside the global workflow lock
    pc,       \* where each publisher is
    job,      \* its artifact, the index it writes and the files it found
    done,     \* how many finals it has replaced: zip, then xml, then md5
    backup,   \* its rollback copy of the zip
    failed,   \* rollback_failures is not zero
    outcome,  \* how the call ends
    torn,     \* a call stopped between index and checksum since the last success
    lost      \* some restore of a rollback failed

disk == <<zips, xml, md5>>
locals == <<job, done, backup, failed, outcome>>
vars == <<disk, strays, lock, pc, locals, torn, lost>>

Files == Addons \X Versions
MaybeBuild == Builds \cup {NoFile}

(* An entry of addons.xml is the addon.xml of a build; NoFile: no entry. *)
Entries == (Versions \X Builds) \cup {NoFile}
Indexes == [Addons -> Entries]
Empty == [a \in Addons |-> NoFile]
MaybeIndex == Indexes \cup {NoFile}

Jobs == [artifact : Artifacts, index : Indexes, zip : MaybeBuild,
         xml : MaybeIndex, md5 : MaybeIndex]

PCs == {"idle", "zip", "xml", "md5", "sync", "undo", "undosync",
        "cleanup", "returned"}

Outcomes == {"none", "success", "raised", "rollback_failed", "interrupted",
             "cleanup_raised"}

Art(p) == job[p].artifact
ZipOf(p) == <<Art(p).addon, Art(p).version>>

(* Lines 155-157: the entry comes from the addon.xml inside the zip. *)
NewEntry(r) == <<Declares[r.build], r.build>>

(* Lines 169-182: the entry is replaced where the pattern <addon id="...   *)
(* finds it and appended when id="..." occurs nowhere.  An entry that      *)
(* writes another attribute first is neither.                              *)
Updated(index, r) ==
    IF index[r.addon] = NoFile \/ index[r.addon][2] \in IdFirst
    THEN [index EXCEPT ![r.addon] = NewEntry(r)]
    ELSE index

Init ==
    /\ zips = [f \in Files |-> NoFile]
    /\ xml = NoFile
    /\ md5 = NoFile
    /\ strays = {}
    /\ lock = Nobody
    /\ pc = [p \in Publishers |-> "idle"]
    /\ job = [p \in Publishers |-> NoFile]
    /\ done = [p \in Publishers |-> 0]
    /\ backup = [p \in Publishers |-> NoFile]
    /\ failed = [p \in Publishers |-> FALSE]
    /\ outcome = [p \in Publishers |-> "none"]
    /\ torn = FALSE
    /\ lost = FALSE

(***************************************************************************)
(* Publishing                                                              *)
(***************************************************************************)
Goto(p, where) == pc' = [pc EXCEPT ![p] = where]

(* The lock is taken, the index read and rewritten in memory, the present  *)
(* files remembered and the present zip copied aside.  An error up to here *)
(* leaves everything as it was.                                            *)
Prepare(p, r) ==
    /\ pc[p] = "idle"
    /\ lock = Nobody
    /\ lock' = p
    /\ job' = [job EXCEPT ![p] =
          [artifact |-> r,
           index |-> Updated(IF xml = NoFile THEN Empty ELSE xml, r),
           zip |-> zips[<<r.addon, r.version>>],
           xml |-> xml,
           md5 |-> md5]]
    /\ backup' = [backup EXCEPT ![p] = zips[<<r.addon, r.version>>]]
    /\ Goto(p, "zip")
    /\ UNCHANGED <<disk, strays, done, failed, outcome, torn, lost>>

ReplaceZip(p) ==
    /\ pc[p] = "zip"
    /\ zips' = [zips EXCEPT ![ZipOf(p)] = Art(p).build]
    /\ done' = [done EXCEPT ![p] = 1]
    /\ Goto(p, "xml")
    /\ UNCHANGED <<xml, md5, strays, lock, job, backup, failed, outcome, torn, lost>>

ReplaceXml(p) ==
    /\ pc[p] = "xml"
    /\ xml' = job[p].index
    /\ done' = [done EXCEPT ![p] = 2]
    /\ Goto(p, "md5")
    /\ UNCHANGED <<zips, md5, strays, lock, job, backup, failed, outcome, torn, lost>>

ReplaceMd5(p) ==
    /\ pc[p] = "md5"
    /\ md5' = job[p].index
    /\ done' = [done EXCEPT ![p] = 3]
    /\ Goto(p, "sync")
    /\ UNCHANGED <<zips, xml, strays, lock, job, backup, failed, outcome, torn, lost>>

(* _fsync_publication_directories: the generation is complete. *)
Sync(p) ==
    /\ pc[p] = "sync"
    /\ outcome' = [outcome EXCEPT ![p] = "success"]
    /\ torn' = FALSE
    /\ Goto(p, "cleanup")
    /\ UNCHANGED <<disk, strays, lock, job, done, backup, failed, lost>>

(***************************************************************************)
(* Rollback                                                                *)
(***************************************************************************)
(* An operation of the try block raises an Exception: a temporary cannot   *)
(* be written, a replace or a sync fails.                                  *)
Raise(p) ==
    /\ pc[p] \in {"zip", "xml", "md5", "sync"}
    /\ Goto(p, "undo")
    /\ UNCHANGED <<disk, strays, lock, locals, torn, lost>>

(* One turn of the loop over reversed(replaced): the restore succeeds ...  *)
RestoreMd5(p) ==
    /\ done[p] = 3
    /\ md5' = job[p].md5
    /\ UNCHANGED <<zips, xml, backup>>

\* Mutant: the index is not restored.
RestoreXml_Kept(p) ==
    /\ done[p] = 2
    /\ UNCHANGED <<disk, backup>>

RestoreXml(p) ==
    /\ done[p] = 2
    /\ xml' = job[p].xml
    /\ UNCHANGED <<zips, md5, backup>>

\* Mutant: the zip is unlinked although there was one before.
RestoreZip_Unlinks(p) ==
    /\ done[p] = 1
    /\ zips' = [zips EXCEPT ![ZipOf(p)] = NoFile]
    /\ UNCHANGED <<xml, md5, backup>>

RestoreZip(p) ==
    /\ done[p] = 1
    /\ zips' = [zips EXCEPT ![ZipOf(p)] = backup[p]]
    /\ backup' = [backup EXCEPT ![p] = NoFile]
    /\ UNCHANGED <<xml, md5>>

Undo(p) ==
    /\ pc[p] = "undo"
    /\ RestoreMd5(p) \/ RestoreXml(p) \/ RestoreZip(p)
    /\ done' = [done EXCEPT ![p] = @ - 1]
    /\ UNCHANGED <<strays, lock, pc, job, failed, outcome, torn, lost>>

\* Mutant: a failed restore is not counted.
UndoFails_Uncounted(p) ==
    /\ pc[p] = "undo"
    /\ done[p] > 0
    /\ done' = [done EXCEPT ![p] = @ - 1]
    /\ lost' = TRUE
    /\ UNCHANGED <<disk, strays, lock, pc, job, backup, failed, outcome, torn>>

(* ... or raises, which is counted, and the loop goes on. *)
UndoFails(p) ==
    /\ pc[p] = "undo"
    /\ done[p] > 0
    /\ done' = [done EXCEPT ![p] = @ - 1]
    /\ failed' = [failed EXCEPT ![p] = TRUE]
    /\ lost' = TRUE
    /\ UNCHANGED <<disk, strays, lock, pc, job, backup, outcome, torn>>

(* The directories are synced after the loop; the original exception or    *)
(* RepositoryPublicationError is raised.                                   *)
UndoSync(p) ==
    /\ pc[p] = "undo"
    /\ done[p] = 0
    /\ \E bad \in {failed[p], TRUE} :
          /\ failed' = [failed EXCEPT ![p] = bad]
          /\ outcome' = [outcome EXCEPT ![p] =
                            IF bad THEN "rollback_failed" ELSE "raised"]
    /\ torn' = (torn \/ failed[p])
    /\ Goto(p, "cleanup")
    /\ UNCHANGED <<disk, strays, lock, job, done, backup, lost>>

(* Stopping now leaves an index and a checksum of different generations.   *)
HalfWay(p) == done[p] = 2 \/ failed[p]

(* KeyboardInterrupt and the like pass `except Exception` by. *)
Interrupt(p) ==
    /\ pc[p] \in {"zip", "xml", "md5", "sync", "undo"}
    /\ outcome' = [outcome EXCEPT ![p] = "interrupted"]
    /\ torn' = (torn \/ HalfWay(p))
    /\ Goto(p, "cleanup")
    /\ UNCHANGED <<disk, strays, lock, job, done, backup, failed, lost>>

(***************************************************************************)
(* The end of a call                                                       *)
(***************************************************************************)
Stray(p) == <<ZipOf(p), backup[p]>>

\* Mutant: preserve_backup is not looked at.
Cleanup_RemovesBackup(p) ==
    /\ pc[p] = "cleanup"
    /\ backup' = [backup EXCEPT ![p] = NoFile]
    /\ Goto(p, "returned")
    /\ UNCHANGED <<disk, strays, lock, job, done, failed, outcome, torn, lost>>

(* The finally block.  The rollback copy is kept after a failed rollback   *)
(* and removed otherwise.                                                  *)
Cleanup(p) ==
    /\ pc[p] = "cleanup"
    /\ strays' = IF backup[p] # NoFile /\ outcome[p] = "rollback_failed"
                 THEN strays \cup {Stray(p)}
                 ELSE strays
    /\ backup' = [backup EXCEPT ![p] = NoFile]
    /\ Goto(p, "returned")
    /\ UNCHANGED <<disk, lock, job, done, failed, outcome, torn, lost>>

(* One of its unlinks raises, and what it raises replaces the outcome.     *)
(* After a success the temporary files are gone: only the rollback copy    *)
(* can be the cause, and it may be removed already when its directory is   *)
(* synced.                                                                 *)
CleanupRaises(p) ==
    /\ pc[p] = "cleanup"
    /\ outcome[p] = "success" => backup[p] # NoFile
    /\ outcome' = [outcome EXCEPT ![p] = "cleanup_raised"]
    /\ strays' \in IF backup[p] = NoFile
                   THEN {strays}
                   ELSE {strays \cup {Stray(p)}} \cup
                        (IF outcome[p] = "rollback_failed" THEN {} ELSE {strays})
    /\ backup' = [backup EXCEPT ![p] = NoFile]
    /\ Goto(p, "returned")
    /\ UNCHANGED <<disk, lock, job, done, failed, torn, lost>>

Forget(p) ==
    /\ pc' = [pc EXCEPT ![p] = "idle"]
    /\ job' = [job EXCEPT ![p] = NoFile]
    /\ done' = [done EXCEPT ![p] = 0]
    /\ backup' = [backup EXCEPT ![p] = NoFile]
    /\ failed' = [failed EXCEPT ![p] = FALSE]
    /\ outcome' = [outcome EXCEPT ![p] = "none"]
    /\ lock' = IF lock = p THEN Nobody ELSE lock

(* The lock is released and the caller has its answer. *)
Return(p) ==
    /\ pc[p] = "returned"
    /\ Forget(p)
    /\ UNCHANGED <<disk, strays, torn, lost>>

(* The process dies: the kernel releases the lock, the files stay as they  *)
(* are and a rollback copy becomes a stray.                                *)
Crash(p) ==
    /\ pc[p] # "idle"
    /\ Forget(p)
    /\ strays' = IF backup[p] = NoFile THEN strays ELSE strays \cup {Stray(p)}
    /\ torn' = (torn \/ HalfWay(p))
    /\ UNCHANGED <<disk, lost>>

Next ==
    \E p \in Publishers :
        \/ \E r \in Artifacts : Prepare(p, r)
        \/ ReplaceZip(p) \/ ReplaceXml(p) \/ ReplaceMd5(p) \/ Sync(p)
        \/ Raise(p) \/ Undo(p) \/ UndoFails(p) \/ UndoSync(p) \/ Interrupt(p)
        \/ Cleanup(p) \/ CleanupRaises(p) \/ Return(p) \/ Crash(p)

Spec == Init /\ [][Next]_vars

(***************************************************************************)
(* Properties                                                              *)
(***************************************************************************)
TypeOK ==
    /\ zips \in [Files -> MaybeBuild]
    /\ xml \in MaybeIndex
    /\ md5 \in MaybeIndex
    /\ strays \subseteq Files \X Builds
    /\ lock \in Publishers \cup {Nobody}
    /\ pc \in [Publishers -> PCs]
    /\ job \in [Publishers -> Jobs \cup {NoFile}]
    /\ done \in [Publishers -> 0..3]
    /\ backup \in [Publishers -> MaybeBuild]
    /\ failed \in [Publishers -> BOOLEAN]
    /\ outcome \in [Publishers -> Outcomes]
    /\ torn \in BOOLEAN
    /\ lost \in BOOLEAN

(* The zips are published under the version they declare: inspect_addon_zip *)
(* sees to it for uploaded artifacts, nothing does for managed builds.     *)
Matching == \A r \in Artifacts : Declares[r.build] = r.version

(* Readers that take no lock (the zip route of repo_server, the reads of   *)
(* addons.xml in addon_ops) never see the index list a zip that is not     *)
(* there, at any moment of a publication, of a rollback or after a crash,  *)
(* unless some restore of a rollback failed.                               *)
ReferencesPresent ==
    Matching /\ ~lost /\ xml # NoFile =>
        \A a \in Addons : xml[a] # NoFile => zips[<<a, xml[a][1]>>] # NoFile

(* What a reader holding the lock sees: the checksum is the one of the     *)
(* index, unless a call was stopped, or its rollback failed, between these *)
(* two files since the last complete publication.                          *)
LockedReadersSeeOneGeneration ==
    lock = Nobody /\ ~torn => md5 = xml

(* The files of p's generation after the first k replacements, the zip     *)
(* before the index and the index before the checksum.                     *)
Reached(p, k) ==
    /\ zips[ZipOf(p)] = IF k >= 1 THEN Art(p).build ELSE job[p].zip
    /\ xml = IF k >= 2 THEN job[p].index ELSE job[p].xml
    /\ md5 = IF k >= 3 THEN job[p].index ELSE job[p].md5

(* Each file is the one p found or the one p wrote. *)
FoundOrWritten(p) ==
    /\ zips[ZipOf(p)] \in {job[p].zip, Art(p).build}
    /\ xml \in {job[p].xml, job[p].index}
    /\ md5 \in {job[p].md5, job[p].index}

(* What the end of a call tells of the three files.  A call that returns   *)
(* wrote them all; one that raises what an operation raised wrote none.    *)
(* One that was interrupted, or whose cleanup raised, leaves a prefix: the *)
(* new zip, the new zip and index, all or none.  Only when a restore or    *)
(* the last sync of a rollback failed is any mixture possible, and then of *)
(* the files found and the files written, never of others.                 *)
OutcomeTellsFiles ==
    \A p \in Publishers : pc[p] = "returned" =>
        /\ outcome[p] = "success" => Reached(p, 3)
        /\ outcome[p] = "raised" => Reached(p, 0)
        /\ ~failed[p] => \E k \in 0..3 : Reached(p, k)
        /\ failed[p] => FoundOrWritten(p)

(* A build that was published as f is there still: in place, in the        *)
(* rollback copy of a call under way, or as a copy nobody removes.         *)
Copy(f, b) ==
    \/ zips[f] = b
    \/ <<f, b>> \in strays
    \/ \E p \in Publishers : pc[p] # "idle" /\ ZipOf(p) = f /\ backup[p] = b

(* p takes its own build back, or ends after it replaced what it found. *)
Removes(p, f, b) ==
    /\ pc[p] \in {"undo", "cleanup"}
    /\ ZipOf(p) = f
    /\ \/ pc[p] = "undo" /\ b = Art(p).build
       \/ /\ pc[p] = "cleanup"
          /\ outcome[p] \in {"success", "interrupted"}
          /\ b = job[p].zip

CopiesGo ==
    \A f \in Files, b \in Builds :
        Copy(f, b) /\ ~Copy(f, b)' => \E p \in Publishers : Removes(p, f, b)

(* The last copy of a published zip disappears only when a call that       *)
(* replaced it succeeded, or was interrupted by what is no Exception (its  *)
(* finally block removes the copy although there was no rollback), or when *)
(* a rollback takes back the build of its own call.  No failed operation,  *)
(* failed restore, failing cleanup or death of the process, nor anything   *)
(* that happens after them, loses it.                                      *)
PriorZipSurvives == [][CopiesGo]_vars

=============================================================================
