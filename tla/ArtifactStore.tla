--------------------------- MODULE ArtifactStore ---------------------------
(***************************************************************************)
(* ArtifactStore of artifact_store.py: uploaded or built zips are copied   *)
(* into one directory and listed in its index.json.                        *)
(*                                                                         *)
(* Files appear and change by os.replace of a complete temporary, which    *)
(* every process sees at once, but a rename is durable only when the       *)
(* directory is synced: after a power failure each name is, on its own,    *)
(* what it was at the last sync or what it was at the end.  The temporary  *)
(* of a registration is held by the registrar; nobody else reads it.       *)
(***************************************************************************)
EXTENDS Naturals

CONSTANTS
    Registrars,       \* the threads that may register, of any process
    Ids,              \* artifact ids, given by callers or drawn at random
    Suffixes,         \* file name suffixes; a file is named by id and suffix
    Contents,
    Partial,          \* the content of a file not completely written
    Absent,           \* no file, no index entry
    Nobody,
    IndexReadFails    \* whether reading an existing index.json may fail

ASSUME StoreAssumption ==
    /\ Partial \notin Contents
    /\ Absent \notin Contents \cup Suffixes \cup {Partial}
    /\ Absent \notin Suffixes \X Contents
    /\ Nobody \notin Registrars
    /\ IndexReadFails \in BOOLEAN

VARIABLES
    files,     \* what each name of the directory holds
    index,     \* the suffix index.json records for each id
    synced,    \* both as of the last sync of the directory
    lock,      \* the registrar inside the global workflow lock
    pc,        \* where each registrar is
    job,       \* what it registers, the index it loaded, its temporary
    answered   \* the suffix and content of each registration that returned

disk == <<files, index, synced>>
vars == <<disk, lock, pc, job, answered>>

Names == Ids \X Suffixes
Files == [Names -> Contents \cup {Partial, Absent}]
Indexes == [Ids -> Suffixes \cup {Absent}]
NoEntries == [i \in Ids |-> Absent]

Jobs == [id : Ids, suffix : Suffixes, content : Contents, index : Indexes,
         temporary : Contents \cup {Partial}]

PCs == {"idle", "write", "activate", "sync", "save", "syncindex", "return"}

Init ==
    /\ files = [n \in Names |-> Absent]
    /\ index = NoEntries
    /\ synced = [files |-> files, index |-> index]
    /\ lock = Nobody
    /\ pc = [r \in Registrars |-> "idle"]
    /\ job = [r \in Registrars |-> Absent]
    /\ answered = [i \in Ids |-> Absent]

Goto(r, where) == pc' = [pc EXCEPT ![r] = where]

NameOf(r) == <<job[r].id, job[r].suffix>>

(***************************************************************************)
(* A registration                                                          *)
(***************************************************************************)
(* _load_index: any exception of the read counts as an empty index. *)
Loaded == {index} \cup (IF IndexReadFails THEN {NoEntries} ELSE {})

\* Mutant: the conflict check is gone.
Begin_NoConflict(r, i, s, c) ==
    /\ pc[r] = "idle"
    /\ lock = Nobody
    /\ \E loaded \in Loaded :
          job' = [job EXCEPT ![r] =
                    [id |-> i, suffix |-> s, content |-> c, index |-> loaded,
                     temporary |-> Partial]]
    /\ lock' = r
    /\ Goto(r, "write")
    /\ UNCHANGED <<disk, answered>>

(* _begin_registration under the lock.  A registered id is refused with    *)
(* ArtifactConflictError, which changes nothing.                           *)
(* The root directory is there and durable: its creation by the first      *)
(* registration, whose parent is never synced, is left out.                *)
Begin(r, i, s, c) ==
    /\ pc[r] = "idle"
    /\ lock = Nobody
    /\ \E loaded \in Loaded :
          /\ loaded[i] = Absent
          /\ job' = [job EXCEPT ![r] =
                       [id |-> i, suffix |-> s, content |-> c, index |-> loaded,
                        temporary |-> Partial]]
    /\ lock' = r
    /\ Goto(r, "write")
    /\ UNCHANGED <<disk, answered>>

(* The bytes are copied to the temporary and synced. *)
Write(r) ==
    /\ pc[r] = "write"
    /\ job' = [job EXCEPT ![r].temporary = job[r].content]
    /\ Goto(r, "activate")
    /\ UNCHANGED <<disk, lock, answered>>

(* _finish_registration: the temporary becomes the artifact's file ... *)
Activate(r) ==
    /\ pc[r] = "activate"
    /\ files' = [files EXCEPT ![NameOf(r)] = job[r].temporary]
    /\ Goto(r, "sync")
    /\ UNCHANGED <<index, synced, lock, job, answered>>

\* Mutant: the directory is not synced before the index is written.
Sync_Skipped(r) ==
    /\ pc[r] = "sync"
    /\ Goto(r, "save")
    /\ UNCHANGED <<disk, lock, job, answered>>

(* ... and is durable before the index can name it.                        *)
Sync(r) ==
    /\ pc[r] = "sync"
    /\ synced' = [files |-> files, index |-> index]
    /\ Goto(r, "save")
    /\ UNCHANGED <<files, index, lock, job, answered>>

\* Mutant: the index is written without the entries it had.
SaveIndex_Fresh(r) ==
    /\ pc[r] = "save"
    /\ index' = [NoEntries EXCEPT ![job[r].id] = job[r].suffix]
    /\ Goto(r, "syncindex")
    /\ UNCHANGED <<files, synced, lock, job, answered>>

(* _save_index: index.json is replaced by the loaded index with the entry. *)
SaveIndex(r) ==
    /\ pc[r] = "save"
    /\ index' = [job[r].index EXCEPT ![job[r].id] = job[r].suffix]
    /\ Goto(r, "syncindex")
    /\ UNCHANGED <<files, synced, lock, job, answered>>

SyncIndex(r) ==
    /\ pc[r] = "syncindex"
    /\ synced' = [files |-> files, index |-> index]
    /\ Goto(r, "return")
    /\ UNCHANGED <<files, index, lock, job, answered>>

Leave(r) ==
    /\ pc' = [pc EXCEPT ![r] = "idle"]
    /\ job' = [job EXCEPT ![r] = Absent]
    /\ lock' = Nobody

(* The caller gets its ArtifactRecord. *)
Return(r) ==
    /\ pc[r] = "return"
    /\ answered' = [answered EXCEPT ![job[r].id] = <<job[r].suffix, job[r].content>>]
    /\ Leave(r)
    /\ UNCHANGED disk

(* An operation raises, which removes the temporary, or the process dies,  *)
(* which leaves it: either way the lock is free and no name changes.       *)
Fail(r) ==
    /\ pc[r] # "idle"
    /\ Leave(r)
    /\ UNCHANGED <<disk, answered>>

(* The machine stops: each name is old or new, and every process is gone.  *)
PowerLoss ==
    /\ \E S \in SUBSET Names :
          files' = [n \in Names |-> IF n \in S THEN synced.files[n] ELSE files[n]]
    /\ index' \in {index, synced.index}
    /\ synced' = [files |-> files', index |-> index']
    /\ pc' = [r \in Registrars |-> "idle"]
    /\ job' = [r \in Registrars |-> Absent]
    /\ lock' = Nobody
    /\ UNCHANGED answered

Next ==
    \/ \E r \in Registrars :
          \/ \E i \in Ids, s \in Suffixes, c \in Contents : Begin(r, i, s, c)
          \/ Write(r) \/ Activate(r) \/ Sync(r) \/ SaveIndex(r) \/ SyncIndex(r)
          \/ Return(r) \/ Fail(r)
    \/ PowerLoss

Spec == Init /\ [][Next]_vars

(***************************************************************************)
(* Properties                                                              *)
(***************************************************************************)
TypeOK ==
    /\ files \in Files
    /\ index \in Indexes
    /\ synced \in [files : Files, index : Indexes]
    /\ lock \in Registrars \cup {Nobody}
    /\ pc \in [Registrars -> PCs]
    /\ job \in [Registrars -> Jobs \cup {Absent}]
    /\ answered \in [Ids -> (Suffixes \X Contents) \cup {Absent}]

(* "A crash between activation and index publication may leave a           *)
(* recoverable unindexed orphan, never a partial registered artifact": the *)
(* file of every index entry is there and complete at every moment, after  *)
(* any failure of a process or of the machine.                             *)
NoPartialRegistered ==
    \A i \in Ids : index[i] # Absent => files[<<i, index[i]>>] \in Contents

(* What a caller was told stays true: the entry and the bytes of every     *)
(* registration that returned are in the index and in the file, whatever   *)
(* is registered, fails or is lost afterwards.                             *)
AnsweredStaysRegistered ==
    \A i \in Ids : answered[i] # Absent =>
        /\ index[i] = answered[i][1]
        /\ files[<<i, index[i]>>] = answered[i][2]

(* The directory and its index behave as one atomic registry. *)
Registry == INSTANCE ArtifactRegistry WITH
    registered <- [i \in Ids |-> IF index[i] = Absent THEN Absent
                                 ELSE files[<<i, index[i]>>]],
    promised <- {i \in Ids : answered[i] # Absent}

RegistrySpec == Registry!Spec
=============================================================================
