--------------------------- MODULE ManagedAddons ---------------------------
(***************************************************************************)
(* managed_addons.py: add-ons whose source tree a developer edits are      *)
(* registered, built into versioned zips and published.                    *)
(*                                                                         *)
(* Every operation runs under the global workflow lock from its first step *)
(* to its answer; a combined operation holds it across its parts, because  *)
(* the lock is reentrant.  An operation works on the registry it loaded    *)
(* and saves the whole of it.  A zip is built in place under the name of   *)
(* its version.  The repository publisher is the one of Publication: a     *)
(* call that raises leaves the published zip as it was, one that dies may  *)
(* have replaced it.                                                       *)
(***************************************************************************)
EXTENDS Naturals, Sequences

CONSTANTS
    Workers,
    Addons,
    MaxVersion,    \* bound: the versions are 1 .. MaxVersion
    MaxOperations, \* bound: how many operations are begun
    Headed,        \* add-ons whose addon.xml begins with an XML declaration
    NoEntry, NoFile, Broken, Nobody

ASSUME ManagedAssumption ==
    /\ MaxVersion \in Nat
    /\ MaxOperations \in Nat
    /\ Headed \subseteq Addons
    /\ Nobody \notin Workers
    /\ NoFile # Broken

VARIABLES
    source,    \* the version in the addon tag of each source tree; 0: truncated
    registry,  \* managed_addons.json
    zips,      \* addon/<addon>-<version>.zip
    repo,      \* dev-repo/zips/<addon>/<addon>-<version>.zip
    lock,      \* the worker inside the global workflow lock
    pc,        \* where each worker is
    job,       \* what it does
    begun,     \* how many operations were begun
    raced      \* history: a source tree was edited during an operation on it

disk == <<source, registry, zips, repo>>
vars == <<disk, lock, pc, job, begun, raced>>

Versions == 1..MaxVersion
Names == Addons \X Versions

(* The addon.xml in a zip declares a version; a failed build may lack      *)
(* files.  Broken: not a zip, or one without an addon.xml.                 *)
Zips == [version : Versions, whole : BOOLEAN] \cup {NoFile, Broken}

(* last_build.version, 0 without one, and whether repo_zip_path is set.    *)
Registries == [Addons -> [last : 0..MaxVersion, public : BOOLEAN] \cup {NoEntry}]

Plans == {<<"register">>, <<"build">>, <<"publish">>, <<"build", "publish">>}
Policies == {"use_addon_xml", "bump_patch", "set_explicit"}

PCs == {"idle", "register", "build", "version", "unlink", "zip", "publish",
        "replace", "save", "answer"}

Init ==
    /\ source \in [Addons -> Versions]
    /\ registry = [a \in Addons |-> NoEntry]
    /\ zips = [n \in Names |-> NoFile]
    /\ repo = [n \in Names |-> NoFile]
    /\ lock = Nobody
    /\ pc = [w \in Workers |-> "idle"]
    /\ job = [w \in Workers |-> Nobody]
    /\ begun = 0
    /\ raced = FALSE

Goto(w, where) == pc' = [pc EXCEPT ![w] = where]

NameOf(w) == <<job[w].addon, job[w].version>>

\* Mutant: nothing is locked.
Begin_Unlocked(w, a, plan) ==
    /\ pc[w] = "idle"
    /\ begun < MaxOperations
    /\ begun' = begun + 1
    /\ lock' = w
    /\ job' = [job EXCEPT ![w] = [addon |-> a, todo |-> plan, version |-> 0,
                                  built |-> 0, registry |-> registry, blind |-> FALSE]]
    /\ Goto(w, Head(plan))
    /\ UNCHANGED <<disk, raced>>

(* The outermost acquisition of the lock. *)
Begin(w, a, plan) ==
    /\ pc[w] = "idle"
    /\ lock = Nobody
    /\ begun < MaxOperations
    /\ begun' = begun + 1
    /\ lock' = w
    /\ job' = [job EXCEPT ![w] = [addon |-> a, todo |-> plan, version |-> 0,
                                  built |-> 0, registry |-> registry, blind |-> FALSE]]
    /\ Goto(w, Head(plan))
    /\ UNCHANGED <<disk, raced>>

(***************************************************************************)
(* managed_addon_register                                                  *)
(***************************************************************************)
(* load_managed_registry takes a file it cannot read for an empty registry: *)
(* a build or a publication finds no entry in it and is refused (Stop), a  *)
(* registration goes on.                                                   *)
Loaded(blind) == IF blind THEN [a \in Addons |-> NoEntry] ELSE registry

(* A known add-on keeps its last_build. *)
Register(w) ==
    LET a == job[w].addon IN
    /\ pc[w] = "register"
    /\ source[a] # 0
    /\ \E blind \in BOOLEAN :
          job' = [job EXCEPT
             ![w].blind = blind,
             ![w].registry = [Loaded(blind) EXCEPT
                ![a] = IF @ = NoEntry THEN [last |-> 0, public |-> FALSE] ELSE @]]
    /\ Goto(w, "save")
    /\ UNCHANGED <<disk, lock, begun, raced>>

(***************************************************************************)
(* managed_addon_build                                                     *)
(***************************************************************************)
(* determine_build_version up to the write; the refusals of a build change *)
(* nothing and are Stop.                                                   *)
DetermineVersion(w, policy) ==
    LET a == job[w].addon IN
    /\ pc[w] = "build"
    /\ registry[a] # NoEntry
    /\ source[a] # 0
    /\ \E v \in Versions :
          /\ policy = "use_addon_xml" => v = source[a]
          /\ policy = "bump_patch" => v = source[a] + 1
          /\ job' = [job EXCEPT ![w].version = v,
                                ![w].registry = registry]
    /\ Goto(w, IF policy = "use_addon_xml" THEN "unlink" ELSE "version")
    /\ UNCHANGED <<disk, lock, begun, raced>>

(* _write_addon_version: the first version="..." of the text is replaced,  *)
(* which is the one of the XML declaration when there is one.              *)
WriteVersion(w) ==
    /\ pc[w] = "version"
    /\ source' = IF job[w].addon \in Headed
                 THEN source
                 ELSE [source EXCEPT ![job[w].addon] = job[w].version]
    /\ Goto(w, "unlink")
    /\ UNCHANGED <<registry, zips, repo, lock, job, begun, raced>>

(* build_addon_zip_from_source: an existing zip is removed ... *)
Unlink(w) ==
    /\ pc[w] = "unlink"
    /\ zips' = [zips EXCEPT ![NameOf(w)] = NoFile]
    /\ Goto(w, "zip")
    /\ UNCHANGED <<source, registry, repo, lock, job, begun, raced>>

\* Mutant: the entry keeps the repo_zip_path of the build before.
Zip_KeepsPublic(w) ==
    LET e == registry[job[w].addon] IN
    /\ pc[w] = "zip"
    /\ source[job[w].addon] # 0
    /\ zips' = [zips EXCEPT ![NameOf(w)] =
                  [version |-> source[job[w].addon], whole |-> TRUE]]
    /\ job' = [job EXCEPT ![w].registry[job[w].addon] =
                  [last |-> job[w].version, public |-> e.public],
                          ![w].built = job[w].version]
    /\ Goto(w, "save")
    /\ UNCHANGED <<source, registry, repo, lock, begun, raced>>

(* ... and the files of the tree as it is now are written. *)
Zip(w) ==
    /\ pc[w] = "zip"
    /\ source[job[w].addon] # 0
    /\ zips' = [zips EXCEPT ![NameOf(w)] =
                  [version |-> source[job[w].addon], whole |-> TRUE]]
    /\ job' = [job EXCEPT ![w].registry[job[w].addon] =
                  [last |-> job[w].version, public |-> FALSE],
                          ![w].built = job[w].version]
    /\ Goto(w, "save")
    /\ UNCHANGED <<source, registry, repo, lock, begun, raced>>

(***************************************************************************)
(* managed_addon_publish                                                   *)
(***************************************************************************)
\* Mutant: a combined operation publishes the highest build it finds.
FindBuild_Highest(w) ==
    LET a == job[w].addon
        e == registry[a] IN
    /\ pc[w] = "publish"
    /\ e # NoEntry
    /\ e.last # 0
    /\ \E v \in Versions :
          /\ zips[<<a, v>>] # NoFile
          /\ \A u \in Versions : zips[<<a, u>>] # NoFile => u <= v
          /\ job' = [job EXCEPT ![w].version = v, ![w].registry = registry]
    /\ Goto(w, "replace")
    /\ UNCHANGED <<disk, lock, begun, raced>>

(* The registry is loaded again; its last_build names the zip to publish.  *)
FindBuild(w) ==
    LET e == registry[job[w].addon] IN
    /\ pc[w] = "publish"
    /\ e # NoEntry
    /\ e.last # 0
    /\ zips[<<job[w].addon, e.last>>] # NoFile
    /\ job' = [job EXCEPT ![w].version = e.last, ![w].registry = registry]
    /\ Goto(w, "replace")
    /\ UNCHANGED <<disk, lock, begun, raced>>

(* RepoPublisher.publish_addon returns. *)
Replace(w) ==
    /\ pc[w] = "replace"
    /\ zips[NameOf(w)] # Broken
    /\ repo' = [repo EXCEPT ![NameOf(w)] = zips[NameOf(w)]]
    /\ job' = [job EXCEPT ![w].registry[job[w].addon].public = TRUE]
    /\ Goto(w, "save")
    /\ UNCHANGED <<source, registry, zips, lock, begun, raced>>

(***************************************************************************)
(* The end of a part and of an operation                                   *)
(***************************************************************************)
\* Mutant: an entry that is there is not replaced.
Save_KeepsKnown(w) ==
    LET a == job[w].addon IN
    /\ pc[w] = "save"
    /\ registry' = IF registry[a] = NoEntry THEN job[w].registry ELSE registry
    /\ Goto(w, IF Len(job[w].todo) = 1 THEN "answer" ELSE job[w].todo[2])
    /\ job' = [job EXCEPT ![w].todo = Tail(@)]
    /\ UNCHANGED <<source, zips, repo, lock, begun, raced>>

(* save_managed_registry: the loaded registry replaces the file; the next  *)
(* part of the operation begins.                                           *)
Save(w) ==
    /\ pc[w] = "save"
    /\ registry' = job[w].registry
    /\ Goto(w, IF Len(job[w].todo) = 1 THEN "answer" ELSE job[w].todo[2])
    /\ job' = [job EXCEPT ![w].todo = Tail(@)]
    /\ UNCHANGED <<source, zips, repo, lock, begun, raced>>

Leave(w) ==
    /\ pc' = [pc EXCEPT ![w] = "idle"]
    /\ job' = [job EXCEPT ![w] = Nobody]
    /\ lock' = IF lock = w THEN Nobody ELSE lock

(* The caller gets ok = True. *)
Answer(w) ==
    /\ pc[w] = "answer"
    /\ Leave(w)
    /\ UNCHANGED <<disk, begun, raced>>

(* What the files may look like when w stops in the middle of a step. *)
HalfWritten(w) ==
    /\ source' \in {source} \cup
          (IF pc[w] = "version"
           THEN {[source EXCEPT ![job[w].addon] = 0]} ELSE {})
    /\ zips' \in {zips} \cup
          (IF pc[w] = "zip"
           THEN {[zips EXCEPT ![NameOf(w)] = z] :
                   z \in {Broken, [version |-> source[job[w].addon], whole |-> FALSE]}}
           ELSE {})
    /\ repo' \in {repo} \cup
          (IF pc[w] = "replace" /\ zips[NameOf(w)] # Broken
           THEN {[repo EXCEPT ![NameOf(w)] = zips[NameOf(w)]]} ELSE {})

(* The operation is refused, raises, or its process dies: an addon.xml     *)
(* being written may be truncated, a zip being written lacks files or its  *)
(* directory, and a published zip may be in place.                         *)
Stop(w) ==
    /\ pc[w] \notin {"idle", "answer"}
    /\ HalfWritten(w)
    /\ Leave(w)
    /\ UNCHANGED <<registry, begun, raced>>

(* The developer edits a source tree, at any time. *)
Edit(a) ==
    /\ \E v \in Versions : source' = [source EXCEPT ![a] = v]
    /\ raced' = (raced \/ \E w \in Workers : pc[w] # "idle" /\ job[w].addon = a)
    /\ UNCHANGED <<registry, zips, repo, lock, pc, job, begun>>

Next ==
    \/ \E w \in Workers :
          \/ \E a \in Addons, plan \in Plans : Begin(w, a, plan)
          \/ \E policy \in Policies : DetermineVersion(w, policy)
          \/ Register(w) \/ WriteVersion(w) \/ Unlink(w) \/ Zip(w)
          \/ FindBuild(w) \/ Replace(w) \/ Save(w) \/ Answer(w) \/ Stop(w)
    \/ \E a \in Addons : Edit(a)

Spec == Init /\ [][Next]_vars

(***************************************************************************)
(* Properties                                                              *)
(***************************************************************************)
TypeOK ==
    /\ source \in [Addons -> 0..MaxVersion]
    /\ registry \in Registries
    /\ zips \in [Names -> Zips]
    /\ repo \in [Names -> Zips \ {Broken}]
    /\ lock \in Workers \cup {Nobody}
    /\ pc \in [Workers -> PCs]
    /\ job \in [Workers -> [addon : Addons, todo : {Tail(p) : p \in Plans} \cup Plans,
                            version : 0..MaxVersion, built : 0..MaxVersion,
                            registry : Registries, blind : BOOLEAN]
                           \cup {Nobody}]
    /\ begun \in 0..MaxOperations
    /\ raced \in BOOLEAN

(* A build that is answered made a whole zip which declares the version    *)
(* its name, its answer and the registry give it, unless the developer     *)
(* edited a tree during an operation on it or its addon.xml begins with an *)
(* XML declaration.                                                        *)
AnsweredBuildDeclares ==
    \A w \in Workers :
        ~raced /\ pc[w] = "answer" /\ job[w].built # 0 /\ job[w].addon \notin Headed =>
            LET a == job[w].addon
                v == job[w].built IN
            /\ zips[<<a, v>>] = [version |-> v, whole |-> TRUE]
            /\ registry[a].last = v

(* The registry never claims a publication that did not happen: what its   *)
(* repo_zip_path names is in the repository, through every rebuild,        *)
(* registration, failure and death.                                        *)
PublicIsPublished ==
    \A a \in Addons :
        registry[a] # NoEntry /\ registry[a].public => repo[<<a, registry[a].last>>] # NoFile

(* A combined operation publishes what it built: the zip in the repository *)
(* is the one of the build it answers, and so says the registry.           *)
AnswerIsPublished ==
    \A w \in Workers :
        pc[w] = "answer" /\ job[w].built # 0 /\ job[w].registry[job[w].addon].public =>
            LET a == job[w].addon
                v == job[w].built IN
            /\ registry[a] = [last |-> v, public |-> TRUE]
            /\ repo[<<a, v>>] = zips[<<a, v>>]

(* Although every operation saves the whole registry, an entry changes     *)
(* only in a save of an operation on its own add-on, so that no update is  *)
(* lost -- except that the save of a registration which could not read the *)
(* file forgets the entries of all other add-ons (it gives none a value).  *)
EntriesOfOthersStay ==
    [][\A a \in Addons : registry'[a] # registry[a] =>
          \E w \in Workers :
             /\ pc[w] = "save"
             /\ \/ job[w].addon = a
                \/ job[w].blind /\ job[w].todo = <<"register">> /\ registry'[a] = NoEntry]_vars

=============================================================================
