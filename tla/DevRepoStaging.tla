--------------------------- MODULE DevRepoStaging ---------------------------
(***************************************************************************)
(* From the repository to Kodi: build_dev_repo_zip freezes the repository  *)
(* into one shared zip under the global workflow lock, and after the lock  *)
(* is released stage_dev_repo_zip hashes, measures and streams whatever    *)
(* has the name of that zip.                                               *)
(*                                                                         *)
(* The repository is the number of its generation: publications are        *)
(* complete under the lock (Publication) and each adds to the one before.  *)
(* A zip being written is a file with a part of its generation.  A writer  *)
(* unlinks the old file first, so a reader that has it open is not         *)
(* disturbed, and a read is one step.  The bridge is external: it may      *)
(* accept a request, refuse it, or accept it with an answer that is lost,  *)
(* whether the body fits the digest and the length of the headers or not.  *)
(***************************************************************************)
EXTENDS Naturals

CONSTANTS
    Stagers,
    MaxGeneration,   \* bound: how often the repository is published
    Missing, Nothing, Nobody

ASSUME StagingAssumption ==
    /\ MaxGeneration \in Nat
    /\ Nobody \notin Stagers

VARIABLES
    repo,     \* the generation of the dev repo
    zip,      \* the file addon/dev-repo.zip
    lock,     \* the stager inside the global workflow lock
    pc,       \* where each stager is
    frozen,   \* the generation it froze
    sent,     \* what its request consists of
    staged    \* the zip the bridge has

stagingVars == <<repo, zip, lock, pc, frozen, sent, staged>>

Contents == [generation : 0..MaxGeneration, whole : BOOLEAN]
Empty == [sha256 |-> Nothing, size |-> Nothing, body |-> Nothing]

PCs == {"idle", "unlink", "create", "write", "hash", "stat", "read", "send",
        "accepted", "failed"}

StagingInit ==
    /\ repo = 0
    /\ zip = Missing
    /\ lock = Nobody
    /\ pc = [s \in Stagers |-> "idle"]
    /\ frozen = [s \in Stagers |-> 0]
    /\ sent = [s \in Stagers |-> Empty]
    /\ staged = Nothing

Goto(s, where) == pc' = [pc EXCEPT ![s] = where]

(* A publication of anybody, complete under the lock. *)
Publish ==
    /\ lock = Nobody
    /\ repo < MaxGeneration
    /\ repo' = repo + 1
    /\ UNCHANGED <<zip, lock, pc, frozen, sent, staged>>

(***************************************************************************)
(* Under the lock                                                          *)
(***************************************************************************)
\* Mutant: the zip is built without the lock.
Freeze_Unlocked(s) ==
    /\ pc[s] = "idle"
    /\ lock' = s
    /\ frozen' = [frozen EXCEPT ![s] = repo]
    /\ Goto(s, "unlink")
    /\ UNCHANGED <<repo, zip, sent, staged>>

(* _prepare_current_dev_repo_zip takes the lock. *)
Freeze(s) ==
    /\ pc[s] = "idle"
    /\ lock = Nobody
    /\ lock' = s
    /\ frozen' = [frozen EXCEPT ![s] = repo]
    /\ Goto(s, "unlink")
    /\ UNCHANGED <<repo, zip, sent, staged>>

(* _prepare_managed_addon_repo_zip publishes a build first. *)
PublishAndFreeze(s) ==
    /\ pc[s] = "idle"
    /\ lock = Nobody
    /\ repo < MaxGeneration
    /\ lock' = s
    /\ repo' = repo + 1
    /\ frozen' = [frozen EXCEPT ![s] = repo + 1]
    /\ Goto(s, "unlink")
    /\ UNCHANGED <<zip, sent, staged>>

(* build_dev_repo_zip: the old zip is removed, the new one created ... *)
UnlinkZip(s) ==
    /\ pc[s] = "unlink"
    /\ zip' = Missing
    /\ Goto(s, "create")
    /\ UNCHANGED <<repo, lock, frozen, sent, staged>>

CreateZip(s) ==
    /\ pc[s] = "create"
    /\ zip' = [generation |-> frozen[s], whole |-> FALSE]
    /\ Goto(s, "write")
    /\ UNCHANGED <<repo, lock, frozen, sent, staged>>

(* ... and written; the lock is released. *)
WriteZip(s) ==
    /\ pc[s] = "write"
    /\ zip' = [generation |-> frozen[s], whole |-> TRUE]
    /\ lock' = Nobody
    /\ Goto(s, "hash")
    /\ UNCHANGED <<repo, frozen, sent, staged>>

(***************************************************************************)
(* Without the lock: stage_dev_repo_zip                                    *)
(***************************************************************************)
(* compute_sha256. *)
Hash(s) ==
    /\ pc[s] = "hash"
    /\ zip # Missing
    /\ sent' = [sent EXCEPT ![s].sha256 = zip]
    /\ Goto(s, "stat")
    /\ UNCHANGED <<repo, zip, lock, frozen, staged>>

(* _repo_stage_upload_blocking takes the length ... *)
Stat(s) ==
    /\ pc[s] = "stat"
    /\ zip # Missing
    /\ sent' = [sent EXCEPT ![s].size = zip]
    /\ Goto(s, "read")
    /\ UNCHANGED <<repo, zip, lock, frozen, staged>>

(* ... and opens the file to stream it. *)
Read(s) ==
    /\ pc[s] = "read"
    /\ zip # Missing
    /\ sent' = [sent EXCEPT ![s].body = zip]
    /\ Goto(s, "send")
    /\ UNCHANGED <<repo, zip, lock, frozen, staged>>

(* The request is sent once.  An answer that is lost is a failure. *)
Send(s) ==
    /\ pc[s] = "send"
    /\ \/ /\ staged' = sent[s].body
          /\ Goto(s, "accepted") \/ Goto(s, "failed")
       \/ Goto(s, "failed") /\ UNCHANGED staged
    /\ UNCHANGED <<repo, zip, lock, frozen, sent>>

(***************************************************************************)
(* The end of a call                                                       *)
(***************************************************************************)
Leave(s) ==
    /\ Goto(s, "idle")
    /\ frozen' = [frozen EXCEPT ![s] = 0]
    /\ sent' = [sent EXCEPT ![s] = Empty]
    /\ lock' = IF lock = s THEN Nobody ELSE lock

Answer(s) ==
    /\ pc[s] \in {"accepted", "failed"}
    /\ Leave(s)
    /\ UNCHANGED <<repo, zip, staged>>

(* An operation raises or the process dies; the zip stays as it is. *)
Stop(s) ==
    /\ pc[s] \notin {"idle", "accepted", "failed"}
    /\ Leave(s)
    /\ UNCHANGED <<repo, zip, staged>>

StagingNext ==
    \/ Publish
    \/ \E s \in Stagers :
          \/ Freeze(s) \/ PublishAndFreeze(s)
          \/ UnlinkZip(s) \/ CreateZip(s) \/ WriteZip(s)
          \/ Hash(s) \/ Stat(s) \/ Read(s) \/ Send(s)
          \/ Answer(s) \/ Stop(s)

StagingSpec == StagingInit /\ [][StagingNext]_stagingVars

(***************************************************************************)
(* Properties                                                              *)
(***************************************************************************)
TypeOK ==
    /\ repo \in 0..MaxGeneration
    /\ zip \in Contents \cup {Missing}
    /\ lock \in Stagers \cup {Nobody}
    /\ pc \in [Stagers -> PCs]
    /\ frozen \in [Stagers -> 0..MaxGeneration]
    /\ sent \in [Stagers -> [sha256 : Contents \cup {Nothing},
                             size : Contents \cup {Nothing},
                             body : Contents \cup {Nothing}]]
    /\ staged \in Contents \cup {Nothing}

(* Whatever other calls do to the shared zip between the freeze and the    *)
(* request, no part of a request is older than the generation its call     *)
(* froze: its own publication is on the way to Kodi, or a later one.       *)
NeverOlderThanFrozen ==
    \A s \in Stagers :
        \A part \in {sent[s].sha256, sent[s].size, sent[s].body} :
            part # Nothing => part.generation >= frozen[s]

=============================================================================
