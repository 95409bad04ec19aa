------------------------ MODULE ArtifactStoreProofs ------------------------
(***************************************************************************)
(* Proofs about ArtifactStore for any registrars, ids, suffixes and        *)
(* contents, when an existing index can be read.  The inductive invariant  *)
(* says how far each registration has come, on the disk and on what would  *)
(* survive a power failure.                                                *)
(***************************************************************************)
EXTENDS ArtifactStore, TLAPS

(* Only the registrar inside the lock is busy, and it has a job. *)
Serialized ==
    \A r \in Registrars :
        /\ pc[r] # "idle" <=> lock = r
        /\ pc[r] # "idle" => job[r] \in Jobs

(* Until it replaces the index, the index is the one it loaded. *)
IndexIsLoaded ==
    \A r \in Registrars :
        pc[r] \in {"write", "activate", "sync", "save"} =>
            job[r].index = index /\ index[job[r].id] = Absent

(* What a registration has written, and what of it is durable. *)
Progress ==
    \A r \in Registrars :
        /\ pc[r] = "activate" => job[r].temporary = job[r].content
        /\ pc[r] \in {"sync", "save", "syncindex", "return"} =>
              files[NameOf(r)] = job[r].content
        /\ pc[r] \in {"save", "syncindex", "return"} =>
              synced.files[NameOf(r)] = job[r].content
        /\ pc[r] \in {"syncindex", "return"} => index[job[r].id] = job[r].suffix
        /\ pc[r] = "return" => synced.index[job[r].id] = job[r].suffix

(* An entry has a whole file, and the same one after a power failure. *)
EntriesAreWhole ==
    \A i \in Ids : index[i] # Absent =>
        /\ files[<<i, index[i]>>] \in Contents
        /\ synced.files[<<i, index[i]>>] = files[<<i, index[i]>>]

(* A power failure takes entries back and brings none back changed. *)
IndexGrows ==
    \A i \in Ids : synced.index[i] # Absent => index[i] = synced.index[i]

AnsweredIsDurable ==
    \A i \in Ids : answered[i] # Absent =>
        /\ synced.index[i] = answered[i][1]
        /\ files[<<i, answered[i][1]>>] = answered[i][2]

Inv ==
    /\ TypeOK
    /\ Serialized
    /\ IndexIsLoaded
    /\ Progress
    /\ EntriesAreWhole
    /\ IndexGrows
    /\ AnsweredIsDurable

(***************************************************************************)
(* One lemma per step.                                                     *)
(***************************************************************************)
USE StoreAssumption

(* Nothing is on the disk and nobody is busy. *)
LEMMA InvInit == Init => Inv
<1> SUFFICES ASSUME Init PROVE Inv
  OBVIOUS
<1>1. TypeOK
  BY DEF Init, TypeOK, Files, Indexes, NoEntries, PCs
<1>2. Serialized /\ IndexIsLoaded /\ Progress
  BY DEF Init, Serialized, IndexIsLoaded, Progress
<1>3. EntriesAreWhole /\ IndexGrows /\ AnsweredIsDurable
  BY DEF Init, EntriesAreWhole, IndexGrows, AnsweredIsDurable, NoEntries
<1> QED
  BY <1>1, <1>2, <1>3 DEF Inv

(* Begin takes the lock and remembers the index it read. *)
LEMMA BeginStep ==
    ASSUME ~IndexReadFails, Inv,
           NEW r \in Registrars, NEW i \in Ids, NEW s \in Suffixes, NEW c \in Contents,
           Begin(r, i, s, c)
    PROVE  Inv'
<1> USE DEF Inv, Begin, disk
<1>1. /\ job' = [job EXCEPT ![r] =
                   [id |-> i, suffix |-> s, content |-> c, index |-> index,
                    temporary |-> Partial]]
      /\ index[i] = Absent
      /\ pc' = [pc EXCEPT ![r] = "write"]
  BY DEF Loaded, Goto
<1>2. [id |-> i, suffix |-> s, content |-> c, index |-> index,
       temporary |-> Partial] \in Jobs
  BY DEF TypeOK, Jobs
<1>3. TypeOK'
  BY <1>1, <1>2 DEF TypeOK, PCs
<1>4. Serialized'
  BY <1>1, <1>2 DEF Serialized, TypeOK
<1>5. IndexIsLoaded'
  BY <1>1 DEF IndexIsLoaded, TypeOK, Serialized
<1>6. Progress'
  BY <1>1 DEF Progress, TypeOK, Serialized, NameOf
<1>7. EntriesAreWhole' /\ IndexGrows' /\ AnsweredIsDurable'
  BY DEF EntriesAreWhole, IndexGrows, AnsweredIsDurable
<1> QED
  BY <1>3, <1>4, <1>5, <1>6, <1>7

(* Write completes the temporary. *)
LEMMA WriteStep ==
    ASSUME Inv, NEW r \in Registrars, Write(r)
    PROVE  Inv'
<1> USE DEF Inv, Write, disk
<1>1. pc' = [pc EXCEPT ![r] = "activate"]
  BY DEF Goto
<1>2. job[r] \in Jobs /\ job'[r] \in Jobs /\ job'[r].temporary = job'[r].content
  BY DEF Serialized, TypeOK, Jobs
<1>3. /\ job'[r].id = job[r].id /\ job'[r].index = job[r].index
      /\ \A q \in Registrars \ {r} : job'[q] = job[q]
  BY <1>2 DEF TypeOK, Jobs
<1>4. TypeOK'
  BY <1>1, <1>2 DEF TypeOK, PCs
<1>5. Serialized'
  BY <1>1, <1>2, <1>3 DEF Serialized, TypeOK
<1>6. IndexIsLoaded'
  BY <1>1, <1>3 DEF IndexIsLoaded, TypeOK
<1>7. Progress'
  BY <1>1, <1>2, <1>3 DEF Progress, TypeOK, NameOf, Serialized
<1>8. EntriesAreWhole' /\ IndexGrows' /\ AnsweredIsDurable'
  BY DEF EntriesAreWhole, IndexGrows, AnsweredIsDurable
<1> QED
  BY <1>4, <1>5, <1>6, <1>7, <1>8

(* Activate changes a name no entry and no answer uses. *)
LEMMA ActivateStep ==
    ASSUME Inv, NEW r \in Registrars, Activate(r)
    PROVE  Inv'
<1> USE DEF Inv, Activate
<1>1. pc' = [pc EXCEPT ![r] = "sync"]
  BY DEF Goto
<1>2. job[r] \in Jobs /\ NameOf(r) \in Names /\ job[r].temporary = job[r].content
  BY DEF Serialized, Progress, Jobs, NameOf, Names
<1>3. \A n \in Names : files'[n] = IF n = NameOf(r) THEN job[r].content ELSE files[n]
  BY <1>2 DEF TypeOK, Files
<1>4. \A i \in Ids : index[i] # Absent => <<i, index[i]>> \in Names \ {NameOf(r)}
  BY <1>2 DEF TypeOK, Indexes, Names, NameOf, IndexIsLoaded, Jobs
<1>5. TypeOK'
  BY <1>1, <1>2 DEF TypeOK, PCs, Files, Jobs
<1>6. Serialized' /\ IndexIsLoaded' /\ IndexGrows'
  BY <1>1 DEF Serialized, IndexIsLoaded, IndexGrows, TypeOK
<1>7. Progress'
  BY <1>1, <1>2, <1>3 DEF Progress, TypeOK, NameOf, Serialized
<1>8. EntriesAreWhole'
  BY <1>3, <1>4 DEF EntriesAreWhole
<1>9. AnsweredIsDurable'
  <2> SUFFICES ASSUME NEW i \in Ids, answered[i] # Absent
               PROVE  /\ synced.index[i] = answered[i][1]
                      /\ files'[<<i, answered[i][1]>>] = answered[i][2]
    BY DEF AnsweredIsDurable
  <2>1. synced.index[i] = answered[i][1] /\ answered[i][1] \in Suffixes
    BY DEF AnsweredIsDurable, TypeOK
  <2>2. index[i] = answered[i][1] /\ index[i] # Absent
    BY <2>1 DEF IndexGrows
  <2> QED
    BY <1>3, <1>4, <2>1, <2>2 DEF AnsweredIsDurable
<1> QED
  BY <1>5, <1>6, <1>7, <1>8, <1>9

(* The two syncs of the directory make durable what is there. *)
LEMMA SyncStep ==
    ASSUME Inv, NEW r \in Registrars, Sync(r) \/ SyncIndex(r)
    PROVE  Inv'
<1> USE DEF Inv
<1>1. /\ synced' = [files |-> files, index |-> index]
      /\ UNCHANGED <<files, index, lock, job, answered>>
      /\ \/ pc[r] = "sync" /\ pc' = [pc EXCEPT ![r] = "save"]
         \/ pc[r] = "syncindex" /\ pc' = [pc EXCEPT ![r] = "return"]
  BY DEF Sync, SyncIndex, Goto
<1>2. TypeOK'
  BY <1>1 DEF TypeOK, PCs
<1>3. Serialized' /\ IndexIsLoaded' /\ IndexGrows'
  BY <1>1 DEF Serialized, IndexIsLoaded, IndexGrows, TypeOK
<1>4. Progress'
  BY <1>1 DEF Progress, TypeOK, NameOf, Serialized
<1>5. EntriesAreWhole'
  BY <1>1 DEF EntriesAreWhole
<1>6. AnsweredIsDurable'
  BY <1>1 DEF AnsweredIsDurable, IndexGrows, TypeOK
<1> QED
  BY <1>2, <1>3, <1>4, <1>5, <1>6

(* SaveIndex adds one entry, whose file is whole and durable. *)
LEMMA SaveIndexStep ==
    ASSUME Inv, NEW r \in Registrars, SaveIndex(r)
    PROVE  Inv'
<1> USE DEF Inv, SaveIndex
<1>1. pc' = [pc EXCEPT ![r] = "syncindex"]
  BY DEF Goto
<1>2. job[r] \in Jobs /\ index[job[r].id] = Absent
  BY DEF Serialized, IndexIsLoaded
<1>3. /\ index' = [index EXCEPT ![job[r].id] = job[r].suffix]
      /\ job[r].id \in Ids /\ job[r].suffix \in Suffixes /\ job[r].content \in Contents
  BY <1>2 DEF IndexIsLoaded, Jobs
<1>4. \A i \in Ids : index'[i] = IF i = job[r].id THEN job[r].suffix ELSE index[i]
  BY <1>3 DEF TypeOK, Indexes
<1>5. TypeOK'
  BY <1>1, <1>3 DEF TypeOK, PCs, Indexes
<1>6. Serialized'
  BY <1>1 DEF Serialized, TypeOK
<1>7. IndexIsLoaded'
  BY <1>1 DEF IndexIsLoaded, TypeOK, Serialized
<1>8. Progress'
  <2>1. \A q \in Registrars : q # r => pc[q] = "idle" /\ pc'[q] = "idle"
    BY <1>1 DEF Serialized, TypeOK, PCs
  <2>2. /\ files'[NameOf(r)'] = job'[r].content
        /\ synced'.files[NameOf(r)'] = job'[r].content
    BY DEF Progress, NameOf
  <2>3. index'[job'[r].id] = job'[r].suffix
    BY <1>3, <1>4
  <2> QED
    BY <1>1, <2>1, <2>2, <2>3 DEF Progress, TypeOK
<1>9. EntriesAreWhole'
  BY <1>3, <1>4 DEF EntriesAreWhole, Progress, NameOf
<1>10. IndexGrows'
  BY <1>2, <1>4 DEF IndexGrows
<1>11. AnsweredIsDurable'
  BY DEF AnsweredIsDurable
<1> QED
  BY <1>5, <1>6, <1>7, <1>8, <1>9, <1>10, <1>11

(* Leaving the lock makes the registrar idle. *)
LEMMA LeaveStep ==
    ASSUME Inv, NEW r \in Registrars, pc[r] # "idle", Leave(r), UNCHANGED disk
    PROVE  /\ (Serialized /\ IndexIsLoaded /\ Progress)'
           /\ (EntriesAreWhole /\ IndexGrows)'
           /\ pc' \in [Registrars -> PCs]
           /\ lock' = Nobody
           /\ job' \in [Registrars -> Jobs \cup {Absent}]
<1> USE DEF Inv, Leave, disk
<1>1. \A q \in Registrars : pc'[q] = "idle"
  BY DEF Serialized, TypeOK
<1>2. Serialized' /\ IndexIsLoaded' /\ Progress'
  BY <1>1 DEF Serialized, IndexIsLoaded, Progress
<1>3. EntriesAreWhole' /\ IndexGrows'
  BY DEF EntriesAreWhole, IndexGrows
<1>4. pc' \in [Registrars -> PCs] /\ job' \in [Registrars -> Jobs \cup {Absent}]
  BY DEF TypeOK, PCs
<1> QED
  BY <1>2, <1>3, <1>4

(* What is answered is durable by then. *)
LEMMA ReturnStep ==
    ASSUME Inv, NEW r \in Registrars, Return(r)
    PROVE  Inv'
<1> USE DEF Inv, Return
<1>1. job[r] \in Jobs
  BY DEF Serialized
<1>2. job[r].id \in Ids /\ job[r].suffix \in Suffixes /\ job[r].content \in Contents
  BY <1>1 DEF Jobs
<1>3. /\ (Serialized /\ IndexIsLoaded /\ Progress)'
      /\ (EntriesAreWhole /\ IndexGrows)'
      /\ pc' \in [Registrars -> PCs] /\ lock' = Nobody
      /\ job' \in [Registrars -> Jobs \cup {Absent}]
  BY LeaveStep
<1>4. TypeOK'
  BY <1>2, <1>3 DEF TypeOK, disk
<1>5. \A i \in Ids : answered'[i] = IF i = job[r].id
                                   THEN <<job[r].suffix, job[r].content>>
                                   ELSE answered[i]
  BY DEF TypeOK
<1>6. /\ synced.index[job[r].id] = job[r].suffix
      /\ files[<<job[r].id, job[r].suffix>>] = job[r].content
  BY DEF Progress, NameOf
<1>7. AnsweredIsDurable'
  BY <1>5, <1>6 DEF AnsweredIsDurable, disk
<1> QED
  BY <1>3, <1>4, <1>7

(* A failure changes nothing on the disk. *)
LEMMA FailStep ==
    ASSUME Inv, NEW r \in Registrars, Fail(r)
    PROVE  Inv'
<1> USE DEF Inv, Fail
<1>1. /\ (Serialized /\ IndexIsLoaded /\ Progress)'
      /\ (EntriesAreWhole /\ IndexGrows)'
      /\ pc' \in [Registrars -> PCs] /\ lock' = Nobody
      /\ job' \in [Registrars -> Jobs \cup {Absent}]
  BY LeaveStep
<1>2. TypeOK'
  BY <1>1 DEF TypeOK, disk
<1>3. AnsweredIsDurable'
  BY DEF AnsweredIsDurable, disk
<1> QED
  BY <1>1, <1>2, <1>3

(* After a power failure each entry that is left names a file that was     *)
(* durable, and each answered entry is left.                               *)
LEMMA PowerLossStep ==
    ASSUME Inv, PowerLoss
    PROVE  Inv'
<1> USE DEF Inv, PowerLoss
<1>1. PICK S \in SUBSET Names :
          files' = [n \in Names |-> IF n \in S THEN synced.files[n] ELSE files[n]]
  OBVIOUS
<1>2. files' \in Files /\ index' \in Indexes /\ index' \in {index, synced.index}
  BY <1>1 DEF TypeOK, Files
<1>3. TypeOK'
  BY <1>2 DEF TypeOK, PCs
<1>4. \A q \in Registrars : pc'[q] = "idle"
  OBVIOUS
<1>5. Serialized' /\ IndexIsLoaded' /\ Progress'
  BY <1>4 DEF Serialized, IndexIsLoaded, Progress
<1>6. \A i \in Ids : index'[i] # Absent => index[i] = index'[i]
  BY <1>2 DEF IndexGrows
<1>7. \A i \in Ids : index[i] # Absent =>
          files'[<<i, index[i]>>] = files[<<i, index[i]>>]
  BY <1>1 DEF EntriesAreWhole, TypeOK, Indexes, Names
<1>8. synced'.files = files' /\ synced'.index = index'
  OBVIOUS
<1>9. EntriesAreWhole'
  BY <1>6, <1>7, <1>8 DEF EntriesAreWhole
<1>10. IndexGrows'
  BY <1>8 DEF IndexGrows
<1>11. AnsweredIsDurable'
  <2> SUFFICES ASSUME NEW i \in Ids, answered[i] # Absent
               PROVE  /\ synced'.index[i] = answered[i][1]
                      /\ files'[<<i, answered[i][1]>>] = answered[i][2]
    BY DEF AnsweredIsDurable
  <2>1. synced.index[i] = answered[i][1] /\ answered[i][1] \in Suffixes
    BY DEF AnsweredIsDurable, TypeOK
  <2>2. index[i] = answered[i][1] /\ index[i] # Absent
    BY <2>1 DEF IndexGrows
  <2>3. index'[i] = answered[i][1]
    BY <1>2, <2>1, <2>2
  <2> QED
    BY <1>7, <1>8, <2>2, <2>3 DEF AnsweredIsDurable
<1> QED
  BY <1>3, <1>5, <1>9, <1>10, <1>11

(* Every step keeps the invariant. *)
LEMMA InvStep ==
    ASSUME ~IndexReadFails, Inv, [Next]_vars
    PROVE  Inv'
<1>1. CASE UNCHANGED vars
  BY <1>1 DEF Inv, vars, disk, TypeOK, Serialized, IndexIsLoaded, Progress, NameOf,
              EntriesAreWhole, IndexGrows, AnsweredIsDurable
<1>2. CASE Next
  BY <1>2, BeginStep, WriteStep, ActivateStep, SyncStep, SaveIndexStep, ReturnStep,
     FailStep, PowerLossStep DEF Next
<1> QED
  BY <1>1, <1>2

(* The invariant holds for any constants with a readable index. *)
THEOREM InvHolds == ASSUME ~IndexReadFails PROVE Spec => []Inv
<1>1. Inv /\ [Next]_vars => Inv'
  BY InvStep
<1> QED
  BY InvInit, <1>1, PTL DEF Spec

(* The state of the store is well typed. *)
THEOREM TypeCorrect == ASSUME ~IndexReadFails PROVE Spec => []TypeOK
<1>1. Inv => TypeOK
  BY DEF Inv
<1> QED
  BY InvHolds, <1>1, PTL

(* _finish_registration never lets the index name a missing or partial     *)
(* file, in any crash of a process or of the machine.                      *)
THEOREM NeverPartial == ASSUME ~IndexReadFails PROVE Spec => []NoPartialRegistered
<1>1. Inv => NoPartialRegistered
  BY DEF Inv, EntriesAreWhole, NoPartialRegistered
<1> QED
  BY InvHolds, <1>1, PTL

(* An ArtifactRecord that was returned stays valid. *)
THEOREM AnswersHold == ASSUME ~IndexReadFails PROVE Spec => []AnsweredStaysRegistered
<1>1. Inv => AnsweredStaysRegistered
  <2> SUFFICES ASSUME Inv, NEW i \in Ids, answered[i] # Absent
               PROVE  /\ index[i] = answered[i][1]
                      /\ files[<<i, index[i]>>] = answered[i][2]
    BY DEF AnsweredStaysRegistered
  <2>1. synced.index[i] = answered[i][1] /\ answered[i][1] \in Suffixes
    BY DEF Inv, AnsweredIsDurable, TypeOK
  <2> QED
    BY <2>1 DEF Inv, IndexGrows, AnsweredIsDurable
<1> QED
  BY InvHolds, <1>1, PTL

(***************************************************************************)
(* The store implements the registry.                                      *)
(***************************************************************************)
Registered == [i \in Ids |-> IF index[i] = Absent THEN Absent
                             ELSE files[<<i, index[i]>>]]

Promised == {i \in Ids : answered[i] # Absent}

(* A step that keeps the index and the files of its entries is invisible. *)
LEMMA InvisibleStep ==
    ASSUME UNCHANGED <<index, answered>>,
           \A i \in Ids : index[i] # Absent =>
               files'[<<i, index[i]>>] = files[<<i, index[i]>>]
    PROVE  UNCHANGED <<Registered, Promised>>
BY DEF Registered, Promised

(* SaveIndex registers the artifact at once. *)
LEMMA RegisterStep ==
    ASSUME Inv, NEW r \in Registrars, SaveIndex(r)
    PROVE  \E i \in Ids, c \in Contents :
              /\ Registered[i] = Absent
              /\ Registered' = [Registered EXCEPT ![i] = c]
              /\ UNCHANGED Promised
<1> USE DEF Inv, SaveIndex
<1>1. job[r] \in Jobs /\ index[job[r].id] = Absent
  BY DEF Serialized, IndexIsLoaded
<1>2. job[r].id \in Ids /\ job[r].suffix \in Suffixes /\ job[r].suffix # Absent
  BY <1>1 DEF Jobs
<1>3. \A i \in Ids : index'[i] = IF i = job[r].id THEN job[r].suffix ELSE index[i]
  BY <1>2 DEF IndexIsLoaded, TypeOK, Indexes
<1>4. files[<<job[r].id, job[r].suffix>>] = job[r].content
  BY DEF Progress, NameOf
<1>5. Registered' = [Registered EXCEPT ![job[r].id] = job[r].content]
  <2>1. ASSUME NEW i \in Ids
        PROVE  Registered'[i] = IF i = job[r].id THEN job[r].content ELSE Registered[i]
    BY <1>2, <1>3, <1>4 DEF Registered
  <2>2. /\ Registered = [i \in Ids |-> Registered[i]]
        /\ Registered' = [i \in Ids |-> Registered'[i]]
    BY DEF Registered
  <2> QED
    BY <2>1, <2>2
<1>6. Registered[job[r].id] = Absent
  BY <1>1, <1>2 DEF Registered
<1>7. UNCHANGED Promised
  BY DEF Promised
<1> QED
  BY <1>1, <1>5, <1>6, <1>7 DEF Jobs

(* Return makes the promise. *)
LEMMA PromiseStep ==
    ASSUME Inv, NEW r \in Registrars, Return(r)
    PROVE  \E i \in Ids :
              /\ Registered[i] # Absent
              /\ Promised' = Promised \cup {i}
              /\ UNCHANGED Registered
<1> USE DEF Inv, Return, disk
<1>1. job[r] \in Jobs
  BY DEF Serialized
<1>2. job[r].id \in Ids /\ job[r].suffix \in Suffixes /\ job[r].content \in Contents
  BY <1>1 DEF Jobs
<1>3. /\ index[job[r].id] = job[r].suffix
      /\ files[<<job[r].id, job[r].suffix>>] = job[r].content
  BY DEF Progress, NameOf
<1>4. Registered[job[r].id] # Absent
  BY <1>2, <1>3 DEF Registered
<1>5. \A i \in Ids : answered'[i] = IF i = job[r].id
                                   THEN <<job[r].suffix, job[r].content>>
                                   ELSE answered[i]
  BY DEF TypeOK
<1>6. <<job[r].suffix, job[r].content>> # Absent
  BY <1>2
<1>7. Promised' = Promised \cup {job[r].id}
  BY <1>2, <1>5, <1>6 DEF Promised
<1>8. UNCHANGED Registered
  BY DEF Registered
<1> QED
  BY <1>2, <1>4, <1>7, <1>8

(* A power failure takes back entries nobody was told of. *)
LEMMA TakeBackStep ==
    ASSUME Inv, PowerLoss
    PROVE  \E S \in SUBSET Ids :
              /\ S \cap Promised = {}
              /\ Registered' = [i \in Ids |-> IF i \in S THEN Absent ELSE Registered[i]]
              /\ UNCHANGED Promised
<1> USE DEF Inv, PowerLoss
<1> DEFINE Lost == {i \in Ids : index[i] # Absent /\ index'[i] = Absent}
<1>1. PICK S \in SUBSET Names :
          files' = [n \in Names |-> IF n \in S THEN synced.files[n] ELSE files[n]]
  OBVIOUS
<1>2. \A i \in Ids : index'[i] # Absent => index[i] = index'[i]
  BY DEF IndexGrows
<1>3. \A i \in Ids : index[i] # Absent =>
          files'[<<i, index[i]>>] = files[<<i, index[i]>>]
  BY <1>1 DEF EntriesAreWhole, TypeOK, Indexes, Names
<1>4. Registered' = [i \in Ids |-> IF i \in Lost THEN Absent ELSE Registered[i]]
  BY <1>2, <1>3 DEF Registered
<1>5. UNCHANGED Promised
  BY DEF Promised
<1>6. Lost \cap Promised = {}
  <2> SUFFICES ASSUME NEW i \in Ids, answered[i] # Absent
               PROVE  index'[i] # Absent
    BY DEF Promised
  <2>1. synced.index[i] = answered[i][1] /\ answered[i][1] \in Suffixes
    BY DEF AnsweredIsDurable, TypeOK
  <2>2. index[i] = synced.index[i] /\ synced.index[i] # Absent
    BY <2>1 DEF IndexGrows
  <2> QED
    BY <2>2
<1>7. Lost \in SUBSET Ids
  OBVIOUS
<1> HIDE DEF Lost
<1> QED
  BY <1>4, <1>5, <1>6, <1>7

(* The index with its files is one atomic, growing registry to everybody.  *)
THEOREM Implements == ASSUME ~IndexReadFails PROVE Spec => RegistrySpec
<1>1. Init => Registry!Init
  BY DEF Init, NoEntries, Registry!Init
<1>2. Inv /\ [Next]_vars => [Registry!Next]_<<Registered, Promised>>
  <2> SUFFICES ASSUME Inv, [Next]_vars
               PROVE  [Registry!Next]_<<Registered, Promised>>
    OBVIOUS
  <2>1. CASE UNCHANGED vars
    BY <2>1 DEF vars, disk, Registered, Promised
  <2>2. ASSUME NEW r \in Registrars,
               \/ \E i \in Ids, s \in Suffixes, c \in Contents : Begin(r, i, s, c)
               \/ Write(r) \/ Sync(r) \/ SyncIndex(r) \/ Fail(r)
        PROVE  UNCHANGED <<Registered, Promised>>
    BY <2>2 DEF Begin, Write, Sync, SyncIndex, Fail, disk, Registered, Promised
  <2>3. ASSUME NEW r \in Registrars, Activate(r)
        PROVE  UNCHANGED <<Registered, Promised>>
    <3>1. job[r] \in Jobs /\ index[job[r].id] = Absent
      BY <2>3 DEF Inv, Serialized, IndexIsLoaded, Activate
    <3>2. files' = [files EXCEPT ![NameOf(r)] = job[r].temporary]
      BY <2>3 DEF Activate
    <3>3. \A i \in Ids : index[i] # Absent =>
              files'[<<i, index[i]>>] = files[<<i, index[i]>>]
      BY <3>1, <3>2 DEF Inv, TypeOK, Files, NameOf
    <3> QED
      BY <2>3, <3>3, InvisibleStep DEF Activate
  <2>4. ASSUME NEW r \in Registrars, SaveIndex(r)
        PROVE  Registry!Next
    BY <2>4, RegisterStep DEF Registry!Next, Registry!Register, Registered, Promised
  <2>5. ASSUME NEW r \in Registrars, Return(r)
        PROVE  Registry!Next
    BY <2>5, PromiseStep DEF Registry!Next, Registry!Promise, Registered, Promised
  <2>6. CASE PowerLoss
    BY <2>6, TakeBackStep DEF Registry!Next, Registry!PowerLoss, Registered, Promised
  <2> QED
    BY <2>1, <2>2, <2>3, <2>4, <2>5, <2>6 DEF Next
<1>3. [Registry!Next]_<<Registered, Promised>> => [Registry!Next]_(Registry!vars)
  BY DEF Registry!vars, Registered, Promised
<1> QED
  BY <1>1, <1>2, <1>3, InvHolds, PTL DEF Spec, RegistrySpec, Registry!Spec
=============================================================================
