------------------------- MODULE PublicationProofs -------------------------
(***************************************************************************)
(* Proofs about Publication for any publishers, add-ons, versions and      *)
(* builds.  At any moment one call at most is under way; the inductive     *)
(* invariant says what it has replaced and what it can still put back.     *)
(***************************************************************************)
EXTENDS Publication, TLAPS

Working == {"zip", "xml", "md5", "sync"}
Ending == {"cleanup", "returned"}

(* Only the publisher inside the lock is busy, and it has a job. *)
Serialized ==
    \A p \in Publishers :
        /\ pc[p] # "idle" <=> lock = p
        /\ pc[p] # "idle" => job[p] \in Jobs

(* How the list of replaced files, the failure counter and the outcome     *)
(* follow the position of a call.                                          *)
Counted ==
    \A p \in Publishers :
        /\ pc[p] = "idle" => done[p] = 0 /\ ~failed[p] /\ outcome[p] = "none"
        /\ pc[p] = "zip" => done[p] = 0
        /\ pc[p] = "xml" => done[p] = 1
        /\ pc[p] = "md5" => done[p] = 2
        /\ pc[p] = "sync" => done[p] = 3
        /\ pc[p] \in Working => ~failed[p]
        /\ pc[p] = "undo" /\ failed[p] => lost
        /\ pc[p] \in Working \cup {"undo"} => outcome[p] = "none"
        /\ pc[p] \in Ending => outcome[p] # "none"
        /\ pc[p] = "cleanup" => outcome[p] # "cleanup_raised"
        /\ outcome[p] = "success" => done[p] = 3 /\ ~failed[p]
        /\ outcome[p] = "raised" => done[p] = 0 /\ ~failed[p]
        /\ failed[p] => done[p] < 3

(* Every restore of the call so far succeeded. *)
Intact(p) == ~failed[p] \/ (pc[p] \in Ending /\ ~torn)

(* What each file then holds. *)
FilesFollow ==
    \A p \in Publishers : pc[p] # "idle" /\ Intact(p) =>
        /\ zips[ZipOf(p)] = IF done[p] >= 1 THEN Art(p).build ELSE job[p].zip
        /\ xml = IF done[p] >= 2 THEN job[p].index ELSE job[p].xml
        /\ md5 = IF done[p] >= 3 THEN job[p].index ELSE job[p].md5

(* The copy aside is there until the zip is put back. *)
BackupKept ==
    \A p \in Publishers :
        pc[p] \in Working \/ (pc[p] = "undo" /\ done[p] >= 1) =>
            backup[p] = job[p].zip

BackupIsPrior ==
    \A p \in Publishers : backup[p] # NoFile =>
        pc[p] \notin {"idle", "returned"} /\ backup[p] = job[p].zip

(* No third content: also after failed restores each file is the one found *)
(* or the one written.                                                     *)
OneOfTwo ==
    \A p \in Publishers : pc[p] # "idle" => FoundOrWritten(p)

(* The generation before and the one after refer to present zips, also     *)
(* when the zip of the call is put back.                                   *)
Refers(idx, zs) ==
    \A a \in Addons : idx[a] # NoFile => zs[<<a, idx[a][1]>>] # NoFile

PriorRefers ==
    \A p \in Publishers :
        Matching /\ ~lost /\ pc[p] \in Working \cup {"undo"} /\ job[p].xml # NoFile =>
            Refers(job[p].xml, [zips EXCEPT ![ZipOf(p)] = job[p].zip])

NextRefers ==
    \A p \in Publishers :
        Matching /\ ~lost /\ pc[p] \in Working =>
            Refers(job[p].index, [zips EXCEPT ![ZipOf(p)] = Art(p).build])

(* Without an interrupted call index and checksum belong together before   *)
(* and after a call.                                                       *)
PairsMatch ==
    /\ lock = Nobody /\ ~torn => md5 = xml
    /\ \A p \in Publishers : pc[p] # "idle" /\ ~torn =>
          \/ job[p].md5 = job[p].xml
          \/ pc[p] \in Ending /\ done[p] = 3
    /\ \A p \in Publishers : pc[p] \in Ending /\ ~torn => done[p] # 2

Inv ==
    /\ TypeOK
    /\ Serialized
    /\ Counted
    /\ FilesFollow
    /\ BackupKept
    /\ ReferencesPresent
    /\ PriorRefers
    /\ NextRefers
    /\ PairsMatch
    /\ BackupIsPrior
    /\ OneOfTwo

(***************************************************************************)
(* One lemma per step.                                                     *)
(***************************************************************************)
USE PublicationAssumption

(* The parts of a job. *)
LEMMA JobParts ==
    ASSUME Inv, NEW p \in Publishers, pc[p] # "idle"
    PROVE  /\ job[p] \in Jobs
           /\ Art(p).addon \in Addons /\ Art(p).version \in Versions
           /\ Art(p).build \in Builds /\ Art(p).build # NoFile
           /\ ZipOf(p) \in Files
           /\ job[p].index \in Indexes
           /\ job[p].zip \in MaybeBuild
           /\ job[p].xml \in MaybeIndex /\ job[p].md5 \in MaybeIndex
BY DEF Inv, Serialized, Jobs, Art, ZipOf, Files

(* While one call is under way the others are idle. *)
LEMMA OthersIdle ==
    ASSUME Inv, NEW p \in Publishers, pc[p] # "idle"
    PROVE  /\ lock = p
           /\ \A q \in Publishers : q # p => pc[q] = "idle"
BY DEF Inv, Serialized

(* Nothing is published and nobody is busy. *)
LEMMA InvInit == Init => Inv
<1> SUFFICES ASSUME Init PROVE Inv
  OBVIOUS
<1>1. TypeOK
  <2>1. /\ zips \in [Files -> MaybeBuild] /\ xml \in MaybeIndex /\ md5 \in MaybeIndex
        /\ strays \subseteq Files \X Builds
    BY DEF Init, MaybeBuild, MaybeIndex
  <2>2. /\ lock \in Publishers \cup {Nobody} /\ pc \in [Publishers -> PCs]
        /\ job \in [Publishers -> Jobs \cup {NoFile}] /\ done \in [Publishers -> 0..3]
    BY DEF Init, PCs
  <2>3. /\ backup \in [Publishers -> MaybeBuild] /\ failed \in [Publishers -> BOOLEAN]
        /\ outcome \in [Publishers -> Outcomes]
    BY DEF Init, MaybeBuild, Outcomes
  <2>4. torn \in BOOLEAN /\ lost \in BOOLEAN
    BY DEF Init
  <2> QED
    BY <2>1, <2>2, <2>3, <2>4 DEF TypeOK
<1>2. Serialized /\ Counted /\ FilesFollow /\ BackupKept
  BY DEF Init, Serialized, Counted, FilesFollow, BackupKept, Working, Ending
<1>3. ReferencesPresent /\ PriorRefers /\ NextRefers
  BY DEF Init, ReferencesPresent, PriorRefers, NextRefers, Working
<1>4. PairsMatch /\ BackupIsPrior /\ OneOfTwo
  BY DEF Init, PairsMatch, BackupIsPrior, OneOfTwo, Ending
<1> QED
  BY <1>1, <1>2, <1>3, <1>4 DEF Inv

(* The index a call writes is well formed and refers to its own zip or to  *)
(* zips that are there.                                                    *)
LEMMA UpdatedRefers ==
    ASSUME NEW idx \in Indexes, NEW r \in Artifacts, NEW zs \in [Files -> MaybeBuild],
           Matching, Refers(idx, zs)
    PROVE  /\ Updated(idx, r) \in Indexes
           /\ Refers(Updated(idx, r), [zs EXCEPT ![<<r.addon, r.version>>] = r.build])
<1>1. r.addon \in Addons /\ r.version \in Versions /\ r.build \in Builds
  OBVIOUS
<1>2. NewEntry(r) \in Entries /\ NewEntry(r)[1] = r.version
  BY <1>1 DEF NewEntry, Entries, Matching
<1>3. Updated(idx, r) \in Indexes
  BY <1>1, <1>2 DEF Updated, Indexes
<1>4. ASSUME NEW a \in Addons, Updated(idx, r)[a] # NoFile
      PROVE  [zs EXCEPT ![<<r.addon, r.version>>] = r.build]
                 [<<a, Updated(idx, r)[a][1]>>] # NoFile
  <2>1. Updated(idx, r)[a] \in Versions \X Builds
    BY <1>3, <1>4 DEF Indexes, Entries
  <2>2. <<a, Updated(idx, r)[a][1]>> \in Files
    BY <2>1 DEF Files
  <2>3. CASE <<a, Updated(idx, r)[a][1]>> = <<r.addon, r.version>>
    BY <1>1, <2>2, <2>3
  <2>4. CASE <<a, Updated(idx, r)[a][1]>> # <<r.addon, r.version>>
    <3>1. Updated(idx, r)[a] = idx[a]
      BY <1>1, <1>2, <2>4 DEF Updated, Indexes
    <3> QED
      BY <1>4, <2>2, <2>4, <3>1 DEF Refers
  <2> QED
    BY <2>3, <2>4
<1> QED
  BY <1>3, <1>4 DEF Refers

(* Prepare remembers what it found. *)
LEMMA PrepareStep ==
    ASSUME Inv, NEW p \in Publishers, NEW r \in Artifacts, Prepare(p, r)
    PROVE  Inv'
<1> DEFINE old == IF xml = NoFile THEN Empty ELSE xml
           new == [artifact |-> r, index |-> Updated(old, r),
                   zip |-> zips[<<r.addon, r.version>>], xml |-> xml, md5 |-> md5]
<1> USE DEF Inv, Prepare, disk
<1>1. /\ r.addon \in Addons /\ r.version \in Versions /\ r.build \in Builds
      /\ <<r.addon, r.version>> \in Files
  BY DEF Files
<1>2. old \in Indexes
  BY DEF TypeOK, MaybeIndex, Empty, Indexes, Entries
<1>3. Matching /\ ~lost => Refers(old, zips)
  BY DEF ReferencesPresent, Refers, Empty
<1>4. Updated(old, r) \in Indexes
  BY <1>1, <1>2 DEF Updated, Indexes, Entries, NewEntry
<1>5. new \in Jobs
  BY <1>1, <1>4 DEF Jobs, TypeOK, MaybeIndex
<1>6. /\ job' = [job EXCEPT ![p] = new]
      /\ pc' = [pc EXCEPT ![p] = "zip"]
      /\ backup' = [backup EXCEPT ![p] = new.zip]
      /\ \A q \in Publishers : pc[q] = "idle"
  BY DEF Goto, Serialized
<1>7. job'[p] = new /\ pc'[p] = "zip" /\ backup'[p] = new.zip
  BY <1>6 DEF TypeOK
<1>8. /\ Art(p)' = r /\ ZipOf(p)' = <<r.addon, r.version>>
  BY <1>7 DEF Art, ZipOf
<1> HIDE DEF new, old
<1>9. TypeOK'
  BY <1>1, <1>5, <1>6 DEF TypeOK, PCs, MaybeBuild, new
<1>10. Serialized'
  BY <1>5, <1>6, <1>7 DEF Serialized, TypeOK
<1>11. Counted'
  BY <1>6, <1>7 DEF Counted, TypeOK, Working, Ending
<1>12. /\ job'[p].zip = zips[<<r.addon, r.version>>]
       /\ job'[p].xml = xml /\ job'[p].md5 = md5 /\ job'[p].index = Updated(old, r)
       /\ done[p] = 0 /\ ~failed[p] /\ outcome[p] = "none"
       /\ \A q \in Publishers : q # p => pc'[q] = "idle"
  BY <1>6, <1>7 DEF new, Counted, TypeOK
<1>13. FilesFollow'
  BY <1>7, <1>8, <1>12 DEF FilesFollow
<1>14. BackupKept'
  BY <1>6, <1>7, <1>12 DEF BackupKept, Working, new
<1>15. ReferencesPresent'
  BY DEF ReferencesPresent
<1>16. PriorRefers'
  <2>1. [zips EXCEPT ![<<r.addon, r.version>>] = zips[<<r.addon, r.version>>]] = zips
    BY DEF TypeOK
  <2> QED
    BY <1>7, <1>8, <1>12, <2>1 DEF PriorRefers, Refers, ReferencesPresent, Working
<1>17. NextRefers'
  <2>1. Matching /\ ~lost => Refers(Updated(old, r), [zips EXCEPT ![<<r.addon, r.version>>] = r.build])
    BY <1>2, <1>3, UpdatedRefers DEF TypeOK
  <2> QED
    BY <1>7, <1>8, <1>12, <2>1 DEF NextRefers, Refers, Working
<1>18. PairsMatch'
  BY <1>7, <1>12 DEF PairsMatch, Ending
<1>19. BackupIsPrior' /\ OneOfTwo'
  <2>1. BackupIsPrior'
    BY <1>6, <1>7, <1>12 DEF BackupIsPrior, TypeOK
  <2>2. OneOfTwo'
    BY <1>7, <1>8, <1>12 DEF OneOfTwo, FoundOrWritten
  <2> QED
    BY <2>1, <2>2
<1> QED
  BY <1>9, <1>10, <1>11, <1>13, <1>14, <1>15, <1>16, <1>17, <1>18, <1>19

(* ReplaceZip puts the build in the place the index will refer to. *)
LEMMA ReplaceZipStep ==
    ASSUME Inv, NEW p \in Publishers, ReplaceZip(p)
    PROVE  Inv'
<1> USE DEF Inv, ReplaceZip
<1>1. /\ pc' = [pc EXCEPT ![p] = "xml"]
      /\ pc'[p] = "xml" /\ done'[p] = 1 /\ done[p] = 0 /\ ~failed[p]
      /\ \A q \in Publishers : q # p => pc[q] = "idle" /\ pc'[q] = "idle" /\ done'[q] = done[q]
      /\ lock = p
  BY OthersIdle DEF Goto, TypeOK, Counted, Working
<1>2. /\ job[p] \in Jobs /\ ZipOf(p) \in Files
      /\ Art(p).build \in Builds /\ Art(p).build # NoFile
  BY JobParts
<1>3. ZipOf(p)' = ZipOf(p) /\ Art(p)' = Art(p)
  BY DEF ZipOf, Art
<1>4. \A f \in Files : zips'[f] = IF f = ZipOf(p) THEN Art(p).build ELSE zips[f]
  BY <1>2 DEF TypeOK
<1>5. TypeOK'
  BY <1>1, <1>2 DEF TypeOK, PCs, MaybeBuild
<1>6. Serialized' /\ Counted'
  BY <1>1 DEF Serialized, Counted, Working, Ending
<1>7. FilesFollow'
  BY <1>1, <1>2, <1>3, <1>4 DEF FilesFollow, Intact
<1>8. BackupKept'
  BY <1>1 DEF BackupKept, Working
<1>9. ReferencesPresent'
  <2>1. ASSUME NEW a \in Addons, xml \in Indexes, xml[a] # NoFile
        PROVE  <<a, xml[a][1]>> \in Files
    BY <2>1 DEF Indexes, Entries, Files
  <2> QED
    BY <1>2, <1>4, <2>1 DEF ReferencesPresent, TypeOK, MaybeIndex
<1>10. /\ [zips EXCEPT ![ZipOf(p)] = job[p].zip]' = [zips EXCEPT ![ZipOf(p)] = job[p].zip]
       /\ [zips EXCEPT ![ZipOf(p)] = Art(p).build]' = [zips EXCEPT ![ZipOf(p)] = Art(p).build]
  BY <1>2, <1>3 DEF TypeOK
<1>11. PriorRefers'
  <2>1. Matching /\ ~lost /\ job[p].xml # NoFile =>
            Refers(job[p].xml, [zips EXCEPT ![ZipOf(p)] = job[p].zip])
    BY DEF PriorRefers, Working
  <2>2. Matching /\ ~lost /\ job[p].xml # NoFile =>
            Refers(job[p].xml, [zips EXCEPT ![ZipOf(p)] = job[p].zip]')
    BY <1>10, <2>1
  <2> QED
    BY <1>1, <1>3, <2>2 DEF PriorRefers, Working
<1>12. NextRefers'
  <2>1. Matching /\ ~lost => Refers(job[p].index, [zips EXCEPT ![ZipOf(p)] = Art(p).build])
    BY DEF NextRefers, Working
  <2>2. Matching /\ ~lost => Refers(job[p].index, [zips EXCEPT ![ZipOf(p)] = Art(p).build]')
    BY <1>10, <2>1
  <2> QED
    BY <1>1, <1>3, <2>2 DEF NextRefers, Working
<1>13. PairsMatch'
  BY <1>1 DEF PairsMatch, Ending
<1>14. BackupIsPrior' /\ OneOfTwo'
  BY <1>1, <1>2, <1>3 DEF BackupIsPrior, OneOfTwo, FoundOrWritten, TypeOK
<1> QED
  BY <1>5, <1>6, <1>7, <1>8, <1>9, <1>11, <1>12, <1>13, <1>14

(* ReplaceXml brings an index whose zips are all there. *)
LEMMA ReplaceXmlStep ==
    ASSUME Inv, NEW p \in Publishers, ReplaceXml(p)
    PROVE  Inv'
<1> USE DEF Inv, ReplaceXml
<1>1. /\ pc' = [pc EXCEPT ![p] = "md5"]
      /\ pc'[p] = "md5" /\ done'[p] = 2 /\ done[p] = 1 /\ ~failed[p]
      /\ \A q \in Publishers : q # p => pc[q] = "idle" /\ pc'[q] = "idle" /\ done'[q] = done[q]
      /\ lock = p
  BY OthersIdle DEF Goto, TypeOK, Counted, Working
<1>2. /\ job[p] \in Jobs /\ ZipOf(p) \in Files /\ job[p].index \in Indexes
      /\ Art(p).build \in Builds /\ Art(p).build # NoFile
  BY JobParts
<1>3. ZipOf(p)' = ZipOf(p) /\ Art(p)' = Art(p)
  BY DEF ZipOf, Art
<1>4. zips[ZipOf(p)] = Art(p).build
  BY <1>1 DEF FilesFollow, Intact
<1>5. TypeOK'
  BY <1>1, <1>2 DEF TypeOK, PCs, MaybeIndex
<1>6. Serialized' /\ Counted'
  BY <1>1 DEF Serialized, Counted, Working, Ending
<1>7. FilesFollow'
  BY <1>1, <1>3 DEF FilesFollow, Intact
<1>8. BackupKept'
  BY <1>1 DEF BackupKept, Working
<1>9. [zips EXCEPT ![ZipOf(p)] = Art(p).build] = zips
  BY <1>2, <1>4 DEF TypeOK
<1>10. ReferencesPresent'
  BY <1>9 DEF ReferencesPresent, NextRefers, Refers, Working
<1>11. PriorRefers'
  BY <1>1, <1>3 DEF PriorRefers, Refers, Working
<1>12. NextRefers'
  BY <1>1, <1>3 DEF NextRefers, Refers, Working
<1>13. PairsMatch'
  BY <1>1 DEF PairsMatch, Ending
<1>14. BackupIsPrior' /\ OneOfTwo'
  BY <1>1, <1>2, <1>3 DEF BackupIsPrior, OneOfTwo, FoundOrWritten, TypeOK
<1> QED
  BY <1>5, <1>6, <1>7, <1>8, <1>10, <1>11, <1>12, <1>13, <1>14

(* ReplaceMd5 makes the pair match the new index. *)
LEMMA ReplaceMd5Step ==
    ASSUME Inv, NEW p \in Publishers, ReplaceMd5(p)
    PROVE  Inv'
<1> USE DEF Inv, ReplaceMd5
<1>1. /\ pc' = [pc EXCEPT ![p] = "sync"]
      /\ pc'[p] = "sync" /\ done'[p] = 3 /\ done[p] = 2 /\ ~failed[p]
      /\ \A q \in Publishers : q # p => pc[q] = "idle" /\ pc'[q] = "idle" /\ done'[q] = done[q]
      /\ lock = p
  BY OthersIdle DEF Goto, TypeOK, Counted, Working
<1>2. job[p] \in Jobs /\ job[p].index \in Indexes
  BY JobParts
<1>3. ZipOf(p)' = ZipOf(p) /\ Art(p)' = Art(p)
  BY DEF ZipOf, Art
<1>4. TypeOK'
  BY <1>1, <1>2 DEF TypeOK, PCs, MaybeIndex
<1>5. Serialized' /\ Counted'
  BY <1>1 DEF Serialized, Counted, Working, Ending
<1>6. FilesFollow'
  BY <1>1, <1>3 DEF FilesFollow, Intact
<1>7. BackupKept' /\ ReferencesPresent'
  BY <1>1 DEF BackupKept, Working, ReferencesPresent
<1>8. PriorRefers' /\ NextRefers'
  BY <1>1, <1>3 DEF PriorRefers, NextRefers, Refers, Working
<1>9. PairsMatch'
  BY <1>1 DEF PairsMatch, Ending
<1>10. BackupIsPrior' /\ OneOfTwo'
  BY <1>1, <1>2, <1>3 DEF BackupIsPrior, OneOfTwo, FoundOrWritten, TypeOK
<1> QED
  BY <1>4, <1>5, <1>6, <1>7, <1>8, <1>9, <1>10

(* Sync ends a complete publication. *)
LEMMA SyncStep ==
    ASSUME Inv, NEW p \in Publishers, Sync(p)
    PROVE  Inv'
<1> USE DEF Inv, Sync, disk
<1>1. /\ pc' = [pc EXCEPT ![p] = "cleanup"]
      /\ pc'[p] = "cleanup" /\ done[p] = 3 /\ ~failed[p] /\ outcome'[p] = "success"
      /\ \A q \in Publishers : q # p =>
            pc[q] = "idle" /\ pc'[q] = "idle" /\ outcome'[q] = outcome[q]
      /\ lock = p
  BY OthersIdle DEF Goto, TypeOK, Counted, Working
<1>2. ZipOf(p)' = ZipOf(p) /\ Art(p)' = Art(p)
  BY DEF ZipOf, Art
<1>3. TypeOK'
  BY <1>1 DEF TypeOK, PCs, Outcomes
<1>4. Serialized' /\ Counted'
  BY <1>1 DEF Serialized, Counted, Working, Ending
<1>5. FilesFollow'
  BY <1>1, <1>2 DEF FilesFollow, Intact
<1>6. BackupKept' /\ ReferencesPresent' /\ PriorRefers' /\ NextRefers'
  BY <1>1 DEF BackupKept, Working, ReferencesPresent, PriorRefers, NextRefers
<1>7. PairsMatch'
  BY <1>1 DEF PairsMatch, Ending
<1>8. BackupIsPrior' /\ OneOfTwo'
  BY <1>1, <1>2, <1>3 DEF BackupIsPrior, OneOfTwo, FoundOrWritten, TypeOK
<1> QED
  BY <1>3, <1>4, <1>5, <1>6, <1>7, <1>8

(* Raise starts the rollback with everything it needs. *)
LEMMA RaiseStep ==
    ASSUME Inv, NEW p \in Publishers, Raise(p)
    PROVE  Inv'
<1> USE DEF Inv, Raise, disk, locals
<1>1. /\ pc' = [pc EXCEPT ![p] = "undo"]
      /\ pc'[p] = "undo" /\ ~failed[p] /\ pc[p] \in Working
      /\ \A q \in Publishers : q # p => pc[q] = "idle" /\ pc'[q] = "idle"
      /\ lock = p
  BY OthersIdle DEF Goto, TypeOK, Counted, Working
<1>2. ZipOf(p)' = ZipOf(p) /\ Art(p)' = Art(p)
  BY DEF ZipOf, Art
<1>3. TypeOK'
  BY <1>1 DEF TypeOK, PCs
<1>4. Serialized' /\ Counted'
  BY <1>1 DEF Serialized, Counted, Working, Ending
<1>5. FilesFollow'
  BY <1>1, <1>2 DEF FilesFollow, Intact
<1>6. BackupKept' /\ ReferencesPresent' /\ NextRefers'
  BY <1>1 DEF BackupKept, Working, ReferencesPresent, NextRefers
<1>7. PriorRefers'
  BY <1>1, <1>2 DEF PriorRefers, Refers, Working
<1>8. PairsMatch'
  BY <1>1 DEF PairsMatch, Ending, Working
<1>9. BackupIsPrior' /\ OneOfTwo'
  BY <1>1, <1>2, <1>3 DEF BackupIsPrior, OneOfTwo, FoundOrWritten, TypeOK
<1> QED
  BY <1>3, <1>4, <1>5, <1>6, <1>7, <1>8, <1>9

(* A turn of the rollback puts one file back. *)
LEMMA UndoStep ==
    ASSUME Inv, NEW p \in Publishers, Undo(p)
    PROVE  Inv'
<1> USE DEF Inv, Undo
<1>1. /\ pc[p] = "undo" /\ pc' = pc /\ outcome[p] = "none"
      /\ done[p] \in 1..3 /\ done'[p] = done[p] - 1
      /\ \A q \in Publishers : q # p => pc[q] = "idle" /\ done'[q] = done[q]
      /\ lock = p
      /\ failed[p] => lost
  BY OthersIdle DEF TypeOK, Counted, RestoreMd5, RestoreXml, RestoreZip
<1>2. /\ job[p] \in Jobs /\ ZipOf(p) \in Files /\ job[p].zip \in MaybeBuild
      /\ job[p].xml \in MaybeIndex /\ job[p].md5 \in MaybeIndex
      /\ Art(p).build \in Builds /\ Art(p).build # NoFile
  BY <1>1, JobParts
<1>3. ZipOf(p)' = ZipOf(p) /\ Art(p)' = Art(p)
  BY DEF ZipOf, Art
<1>4. backup[p] = job[p].zip
  BY <1>1 DEF BackupKept
<1>5. zips' = zips \/ (done[p] = 1 /\ zips' = [zips EXCEPT ![ZipOf(p)] = job[p].zip])
  BY <1>4 DEF RestoreMd5, RestoreXml, RestoreZip
<1>6. TypeOK'
  BY <1>1, <1>2, <1>4 DEF TypeOK, MaybeBuild, RestoreMd5, RestoreXml, RestoreZip
<1>7. Serialized' /\ Counted'
  BY <1>1 DEF Serialized, Counted, Working, Ending
<1>8. FilesFollow'
  <2> SUFFICES ASSUME ~failed[p]
               PROVE  /\ zips'[ZipOf(p)] = IF done'[p] >= 1 THEN Art(p).build ELSE job[p].zip
                      /\ xml' = IF done'[p] >= 2 THEN job[p].index ELSE job[p].xml
                      /\ md5' = IF done'[p] >= 3 THEN job[p].index ELSE job[p].md5
    BY <1>1, <1>3 DEF FilesFollow, Intact, Ending
  <2>1. /\ zips[ZipOf(p)] = IF done[p] >= 1 THEN Art(p).build ELSE job[p].zip
        /\ xml = IF done[p] >= 2 THEN job[p].index ELSE job[p].xml
        /\ md5 = IF done[p] >= 3 THEN job[p].index ELSE job[p].md5
    BY <1>1 DEF FilesFollow, Intact
  <2> QED
    BY <1>1, <1>2, <1>4, <2>1 DEF TypeOK, RestoreMd5, RestoreXml, RestoreZip
<1>9. BackupKept'
  BY <1>1, <1>4 DEF BackupKept, Working, TypeOK, RestoreMd5, RestoreXml, RestoreZip
<1>10. Matching /\ ~lost /\ job[p].xml # NoFile =>
           Refers(job[p].xml, [zips EXCEPT ![ZipOf(p)] = job[p].zip])
  BY <1>1 DEF PriorRefers
<1>11. ReferencesPresent'
  <2> SUFFICES ASSUME Matching, ~lost, xml' # NoFile
               PROVE  Refers(xml', zips')
    BY DEF ReferencesPresent, Refers
  <2>1. /\ zips[ZipOf(p)] = IF done[p] >= 1 THEN Art(p).build ELSE job[p].zip
        /\ xml = IF done[p] >= 2 THEN job[p].index ELSE job[p].xml
    BY <1>1 DEF FilesFollow, Intact
  <2>2. CASE RestoreMd5(p)
    BY <2>2 DEF RestoreMd5, ReferencesPresent, Refers
  <2>3. CASE RestoreXml(p)
    <3>1. xml' = job[p].xml /\ zips' = zips /\ zips[ZipOf(p)] # NoFile /\ xml' \in Indexes
      BY <1>2, <2>1, <2>3 DEF RestoreXml, MaybeIndex
    <3>2. ASSUME NEW a \in Addons, xml'[a] # NoFile
          PROVE  zips[<<a, xml'[a][1]>>] # NoFile
      <4>1. <<a, xml'[a][1]>> \in Files
        BY <3>1, <3>2 DEF Indexes, Entries, Files
      <4>2. [zips EXCEPT ![ZipOf(p)] = job[p].zip][<<a, xml'[a][1]>>] # NoFile
        BY <1>10, <3>1, <3>2 DEF Refers
      <4> QED
        BY <1>2, <3>1, <4>1, <4>2 DEF TypeOK
    <3> QED
      BY <3>1, <3>2 DEF Refers
  <2>4. CASE RestoreZip(p)
    BY <1>4, <1>10, <2>1, <2>4 DEF RestoreZip
  <2> QED
    BY <2>2, <2>3, <2>4
<1>12. PriorRefers'
  <2>1. [zips EXCEPT ![ZipOf(p)] = job[p].zip]' = [zips EXCEPT ![ZipOf(p)] = job[p].zip]
    BY <1>2, <1>3, <1>5 DEF TypeOK
  <2>2. Matching /\ ~lost /\ job[p].xml # NoFile =>
            Refers(job[p].xml, [zips EXCEPT ![ZipOf(p)] = job[p].zip]')
    BY <1>10, <2>1
  <2> QED
    BY <1>1, <1>3, <2>2 DEF PriorRefers, Working
<1>13. NextRefers' /\ PairsMatch'
  BY <1>1 DEF NextRefers, Working, PairsMatch, Ending
<1>14. BackupIsPrior'
  BY <1>1, <1>4 DEF BackupIsPrior, TypeOK, RestoreMd5, RestoreXml, RestoreZip
<1>15. OneOfTwo'
  <2>1. FoundOrWritten(p)
    BY <1>1 DEF OneOfTwo
  <2> QED
    BY <1>1, <1>2, <1>3, <1>4, <2>1
    DEF OneOfTwo, FoundOrWritten, TypeOK, RestoreMd5, RestoreXml, RestoreZip
<1> QED
  BY <1>6, <1>7, <1>8, <1>9, <1>11, <1>12, <1>13, <1>14, <1>15

(* A failed turn changes no file; from then on nothing is claimed of the   *)
(* references, and of the zip that it is still in the copy aside.          *)
LEMMA UndoFailsStep ==
    ASSUME Inv, NEW p \in Publishers, UndoFails(p)
    PROVE  Inv'
<1> USE DEF Inv, UndoFails, disk
<1>1. /\ pc[p] = "undo" /\ pc' = pc /\ outcome[p] = "none" /\ failed'[p] = TRUE
      /\ done[p] \in 1..3 /\ done'[p] = done[p] - 1 /\ lost' = TRUE
      /\ \A q \in Publishers : q # p =>
            pc[q] = "idle" /\ done'[q] = done[q] /\ failed'[q] = failed[q]
      /\ lock = p
  BY OthersIdle DEF TypeOK, Counted
<1>2. ZipOf(p)' = ZipOf(p) /\ Art(p)' = Art(p)
  BY DEF ZipOf, Art
<1>3. TypeOK'
  BY <1>1 DEF TypeOK
<1>4. Serialized' /\ Counted'
  BY <1>1 DEF Serialized, Counted, Working, Ending
<1>5. FilesFollow'
  BY <1>1 DEF FilesFollow, Intact, Ending
<1>6. BackupKept'
  BY <1>1 DEF BackupKept, Working
<1>7. ReferencesPresent' /\ PriorRefers' /\ NextRefers'
  BY <1>1 DEF ReferencesPresent, PriorRefers, NextRefers
<1>8. PairsMatch'
  BY <1>1 DEF PairsMatch, Ending
<1>9. BackupIsPrior' /\ OneOfTwo'
  BY <1>1, <1>2, <1>3 DEF BackupIsPrior, OneOfTwo, FoundOrWritten, TypeOK
<1> QED
  BY <1>3, <1>4, <1>5, <1>6, <1>7, <1>8, <1>9

(* The rollback ends with an exception that tells whether it was complete. *)
LEMMA UndoSyncStep ==
    ASSUME Inv, NEW p \in Publishers, UndoSync(p)
    PROVE  Inv'
<1> USE DEF Inv, UndoSync, disk
<1>1. PICK bad \in {failed[p], TRUE} :
          /\ failed' = [failed EXCEPT ![p] = bad]
          /\ outcome' = [outcome EXCEPT ![p] =
                            IF bad THEN "rollback_failed" ELSE "raised"]
  OBVIOUS
<1>a. /\ pc[p] = "undo" /\ pc' = [pc EXCEPT ![p] = "cleanup"] /\ pc'[p] = "cleanup"
      /\ outcome[p] = "none" /\ done[p] = 0 /\ lock = p
  BY OthersIdle DEF Goto, TypeOK, Counted
<1>b. /\ failed[p] \in BOOLEAN /\ bad \in BOOLEAN
      /\ failed[p] => bad
  BY <1>1 DEF TypeOK
<1>c. /\ failed'[p] = bad
      /\ outcome'[p] = IF bad THEN "rollback_failed" ELSE "raised"
  BY <1>1 DEF TypeOK
<1>d. \A q \in Publishers : q # p =>
          /\ pc[q] = "idle" /\ pc'[q] = "idle"
          /\ outcome'[q] = outcome[q] /\ failed'[q] = failed[q]
  BY <1>1, <1>a, OthersIdle DEF TypeOK
<1>e. ~torn' => ~torn /\ ~failed[p]
  OBVIOUS
<1>2. /\ pc[p] = "undo" /\ pc' = [pc EXCEPT ![p] = "cleanup"] /\ pc'[p] = "cleanup"
      /\ outcome[p] = "none" /\ done[p] = 0 /\ bad \in BOOLEAN /\ failed'[p] = bad
      /\ failed[p] => bad
      /\ outcome'[p] = IF bad THEN "rollback_failed" ELSE "raised"
      /\ \A q \in Publishers : q # p =>
            /\ pc[q] = "idle" /\ pc'[q] = "idle"
            /\ outcome'[q] = outcome[q] /\ failed'[q] = failed[q]
      /\ lock = p
  BY <1>a, <1>b, <1>c, <1>d
<1>3. ZipOf(p)' = ZipOf(p) /\ Art(p)' = Art(p)
  BY DEF ZipOf, Art
<1>4. TypeOK'
  <2>1. torn' \in BOOLEAN
    BY <1>b DEF TypeOK
  <2> QED
    BY <1>1, <1>2, <2>1 DEF TypeOK, PCs, Outcomes
<1>5. Serialized'
  BY <1>2 DEF Serialized
<1>6. Counted'
  BY <1>2 DEF Counted, Working, Ending
<1>7. FilesFollow'
  <2>1. Intact(p)' => ~failed[p]
    BY <1>2, <1>e DEF Intact
  <2> QED
    BY <1>2, <1>3, <2>1 DEF FilesFollow, Intact
<1>8. BackupKept' /\ ReferencesPresent' /\ PriorRefers' /\ NextRefers'
  BY <1>2 DEF BackupKept, Working, ReferencesPresent, PriorRefers, NextRefers
<1>9. PairsMatch'
  BY <1>2, <1>e DEF PairsMatch, Ending
<1>10. BackupIsPrior' /\ OneOfTwo'
  BY <1>1, <1>2, <1>3 DEF BackupIsPrior, OneOfTwo, FoundOrWritten, TypeOK
<1> QED
  BY <1>4, <1>5, <1>6, <1>7, <1>8, <1>9, <1>10

(* Interrupt leaves the files where they are. *)
LEMMA InterruptStep ==
    ASSUME Inv, NEW p \in Publishers, Interrupt(p)
    PROVE  Inv'
<1> USE DEF Inv, Interrupt, disk
<1>1. /\ pc[p] \in Working \cup {"undo"}
      /\ pc' = [pc EXCEPT ![p] = "cleanup"] /\ pc'[p] = "cleanup"
      /\ outcome'[p] = "interrupted"
      /\ \A q \in Publishers : q # p =>
            pc[q] = "idle" /\ pc'[q] = "idle" /\ outcome'[q] = outcome[q]
      /\ lock = p
  BY OthersIdle DEF Goto, TypeOK, Working
<1>a. ~torn' => ~torn /\ done[p] # 2 /\ ~failed[p]
  BY DEF HalfWay
<1>2. ZipOf(p)' = ZipOf(p) /\ Art(p)' = Art(p)
  BY DEF ZipOf, Art
<1>3. TypeOK'
  <2>1. torn' \in BOOLEAN
    BY DEF HalfWay, TypeOK
  <2> QED
    BY <1>1, <2>1 DEF TypeOK, PCs, Outcomes
<1>4. Serialized' /\ Counted'
  BY <1>1 DEF Serialized, Counted, Working, Ending
<1>5. FilesFollow'
  <2>1. Intact(p)' => ~failed[p]
    BY <1>a DEF Intact
  <2> QED
    BY <1>1, <1>2, <2>1 DEF FilesFollow, Intact
<1>6. BackupKept' /\ ReferencesPresent' /\ PriorRefers' /\ NextRefers'
  BY <1>1 DEF BackupKept, Working, ReferencesPresent, PriorRefers, NextRefers
<1>7. PairsMatch'
  BY <1>1, <1>a DEF PairsMatch, Ending, Working
<1>8. BackupIsPrior' /\ OneOfTwo'
  BY <1>1, <1>2, <1>3 DEF BackupIsPrior, OneOfTwo, FoundOrWritten, TypeOK
<1> QED
  BY <1>3, <1>4, <1>5, <1>6, <1>7, <1>8

(* The finally block touches nothing but the copy aside. *)
LEMMA CleanupStep ==
    ASSUME Inv, NEW p \in Publishers, Cleanup(p) \/ CleanupRaises(p)
    PROVE  Inv'
<1> USE DEF Inv, disk
<1>1. /\ pc[p] = "cleanup" /\ pc' = [pc EXCEPT ![p] = "returned"] /\ pc'[p] = "returned"
      /\ backup' = [backup EXCEPT ![p] = NoFile]
      /\ \/ outcome' = outcome
         \/ outcome' = [outcome EXCEPT ![p] = "cleanup_raised"]
      /\ UNCHANGED <<zips, xml, md5, lock, job, done, failed, torn, lost>>
      /\ \A q \in Publishers : q # p => pc[q] = "idle" /\ pc'[q] = "idle"
      /\ lock = p
  BY OthersIdle DEF Cleanup, CleanupRaises, Goto, TypeOK
<1>2. ZipOf(p)' = ZipOf(p) /\ Art(p)' = Art(p)
  BY <1>1 DEF ZipOf, Art
<1>3. /\ strays \subseteq strays' /\ strays' \subseteq strays \cup {Stray(p)}
      /\ backup[p] = NoFile => strays' = strays
  BY DEF Cleanup, CleanupRaises
<1>4. strays' \subseteq Files \X Builds
  <2>1. ZipOf(p) \in Files
    BY <1>1, JobParts
  <2>2. backup[p] # NoFile => Stray(p) \in Files \X Builds
    BY <2>1 DEF Stray, TypeOK, MaybeBuild
  <2> QED
    BY <1>3, <2>2 DEF TypeOK
<1>5. TypeOK'
  BY <1>1, <1>4 DEF TypeOK, PCs, Outcomes, MaybeBuild
<1>6. Serialized'
  BY <1>1 DEF Serialized
<1>7. Counted'
  BY <1>1 DEF Counted, Working, Ending, TypeOK
<1>8. FilesFollow'
  BY <1>1, <1>2 DEF FilesFollow, Intact, Ending
<1>9. BackupKept' /\ ReferencesPresent' /\ PriorRefers' /\ NextRefers'
  BY <1>1 DEF BackupKept, Working, ReferencesPresent, PriorRefers, NextRefers
<1>10. PairsMatch'
  BY <1>1 DEF PairsMatch, Ending
<1>11. BackupIsPrior' /\ OneOfTwo'
  BY <1>1, <1>2, <1>3 DEF BackupIsPrior, OneOfTwo, FoundOrWritten, TypeOK
<1> QED
  BY <1>5, <1>6, <1>7, <1>8, <1>9, <1>10, <1>11

(* A call that is over, or whose process died, leaves the pair matching    *)
(* unless it was stopped half-way.                                         *)
LEMMA ForgetStep ==
    ASSUME Inv, NEW p \in Publishers, Return(p) \/ Crash(p)
    PROVE  Inv'
<1> USE DEF Inv, Forget, disk
<1>1. /\ pc[p] # "idle" /\ pc' = [pc EXCEPT ![p] = "idle"]
      /\ job' = [job EXCEPT ![p] = NoFile] /\ done' = [done EXCEPT ![p] = 0]
      /\ backup' = [backup EXCEPT ![p] = NoFile]
      /\ failed' = [failed EXCEPT ![p] = FALSE]
      /\ outcome' = [outcome EXCEPT ![p] = "none"]
      /\ lock = p /\ lock' = Nobody
      /\ UNCHANGED <<zips, xml, md5, lost>>
      /\ \A q \in Publishers : pc'[q] = "idle"
  BY OthersIdle DEF Return, Crash, TypeOK
<1>2. strays' \subseteq Files \X Builds
  <2>1. ZipOf(p) \in Files
    BY <1>1, JobParts
  <2>2. backup[p] # NoFile => Stray(p) \in Files \X Builds
    BY <2>1 DEF Stray, TypeOK, MaybeBuild
  <2> QED
    BY <2>2 DEF TypeOK, Return, Crash
<1>3. torn' \in BOOLEAN
  BY DEF Return, Crash, HalfWay, TypeOK
<1>4. TypeOK'
  BY <1>1, <1>2, <1>3 DEF TypeOK, PCs, Outcomes, MaybeBuild
<1>5. Serialized' /\ BackupKept' /\ FilesFollow' /\ PriorRefers' /\ NextRefers'
  BY <1>1 DEF Serialized, BackupKept, FilesFollow, PriorRefers, NextRefers, Working
<1>6. Counted'
  BY <1>1 DEF Counted, Working, Ending, TypeOK
<1>7. ReferencesPresent' /\ BackupIsPrior' /\ OneOfTwo'
  BY <1>1 DEF ReferencesPresent, BackupIsPrior, OneOfTwo, TypeOK
<1>8. PairsMatch'
  <2> SUFFICES ASSUME ~torn' PROVE md5 = xml
    BY <1>1 DEF PairsMatch, Ending
  <2>1. ~torn /\ (pc[p] = "returned" \/ (done[p] # 2 /\ ~failed[p]))
    <3>1. CASE Return(p)
      BY <3>1 DEF Return
    <3>2. CASE Crash(p)
      BY <3>2 DEF Crash, HalfWay
    <3> QED
      BY <3>1, <3>2
  <2>2. Intact(p) /\ done[p] # 2 /\ done[p] \in 0..3
    BY <2>1 DEF Intact, Ending, PairsMatch, TypeOK
  <2>3. /\ xml = IF done[p] >= 2 THEN job[p].index ELSE job[p].xml
        /\ md5 = IF done[p] >= 3 THEN job[p].index ELSE job[p].md5
    BY <1>1, <2>2 DEF FilesFollow
  <2>4. job[p].md5 = job[p].xml \/ done[p] = 3
    BY <1>1, <2>1 DEF PairsMatch
  <2> QED
    BY <2>2, <2>3, <2>4
<1> QED
  BY <1>4, <1>5, <1>6, <1>7, <1>8

(* Every step keeps the invariant. *)
LEMMA InvStep == Inv /\ [Next]_vars => Inv'
<1> SUFFICES ASSUME Inv, [Next]_vars PROVE Inv'
  OBVIOUS
<1>1. CASE UNCHANGED vars
  BY <1>1 DEF vars, disk, locals, Inv, TypeOK, Serialized, Counted, FilesFollow, Intact,
      BackupKept, ReferencesPresent, PriorRefers, NextRefers, PairsMatch,
      BackupIsPrior, OneOfTwo, FoundOrWritten, ZipOf, Art, Refers
<1>2. CASE Next
  BY <1>2, PrepareStep, ReplaceZipStep, ReplaceXmlStep, ReplaceMd5Step, SyncStep,
     RaiseStep, UndoStep, UndoFailsStep, UndoSyncStep, InterruptStep, CleanupStep,
     ForgetStep DEF Next
<1> QED
  BY <1>1, <1>2

(* The invariant holds in every publication history. *)
THEOREM InvHolds == Spec => []Inv
BY InvInit, InvStep, PTL DEF Spec

(* The state of the repository and of its publishers is well typed. *)
THEOREM TypeCorrect == Spec => []TypeOK
<1>1. Inv => TypeOK
  BY DEF Inv
<1> QED
  BY InvHolds, <1>1, PTL

(* publish_addon_artifact never shows an unlocked reader an index with a   *)
(* missing zip, when zips declare the version they are published as and    *)
(* unless a restore of a rollback failed.                                  *)
THEOREM ReferencesHold == Spec => []ReferencesPresent
<1>1. Inv => ReferencesPresent
  BY DEF Inv
<1> QED
  BY InvHolds, <1>1, PTL

(* A reader that holds the lock sees an index with its checksum, unless a  *)
(* call was stopped half-way since the last complete one.                  *)
THEOREM ReadersHold == Spec => []LockedReadersSeeOneGeneration
<1>1. Inv => LockedReadersSeeOneGeneration
  BY DEF Inv, PairsMatch, LockedReadersSeeOneGeneration
<1> QED
  BY InvHolds, <1>1, PTL

(* What a call reports tells the files: all three, none, a prefix, or,     *)
(* after a failed rollback, found and written ones.                        *)
THEOREM OutcomeHolds == Spec => []OutcomeTellsFiles
<1>1. Inv => OutcomeTellsFiles
  <2> SUFFICES ASSUME Inv, NEW p \in Publishers, pc[p] = "returned"
               PROVE  /\ outcome[p] = "success" => Reached(p, 3)
                      /\ outcome[p] = "raised" => Reached(p, 0)
                      /\ ~failed[p] => \E k \in 0..3 : Reached(p, k)
                      /\ failed[p] => FoundOrWritten(p)
    BY DEF OutcomeTellsFiles
  <2>1. /\ outcome[p] = "success" => done[p] = 3 /\ ~failed[p]
        /\ outcome[p] = "raised" => done[p] = 0 /\ ~failed[p]
        /\ done[p] \in 0..3
    BY DEF Inv, Counted, TypeOK
  <2>2. ~failed[p] => Reached(p, done[p])
    BY DEF Inv, FilesFollow, Intact, Reached
  <2>3. FoundOrWritten(p)
    BY DEF Inv, OneOfTwo
  <2> QED
    BY <2>1, <2>2, <2>3
<1> QED
  BY InvHolds, <1>1, PTL

(* Copies survive every step but the end of a call that replaced them and  *)
(* the undoing of their own publication.                                   *)
LEMMA CopiesStep ==
    ASSUME Inv, Next
    PROVE  CopiesGo
<1> SUFFICES ASSUME NEW f \in Files, NEW b \in Builds, Copy(f, b), ~Copy(f, b)'
             PROVE  \E p \in Publishers : Removes(p, f, b)
  BY DEF CopiesGo
<1>1. b # NoFile
  OBVIOUS
<1>2. zips'[f] # b /\ <<f, b>> \notin strays'
  BY DEF Copy
<1>3. ASSUME NEW p \in Publishers, pc[p] # "idle", UNCHANGED <<zips, strays>>,
             job'[p] = job[p], backup'[p] = backup[p], pc'[p] # "idle"
      PROVE  FALSE
  <2>1. PICK q \in Publishers : pc[q] # "idle" /\ ZipOf(q) = f /\ backup[q] = b
    BY <1>2, <1>3 DEF Copy
  <2>2. q = p
    BY <1>3, <2>1, OthersIdle
  <2>3. ZipOf(p)' = f
    BY <1>3, <2>1, <2>2 DEF ZipOf, Art
  <2> QED
    BY <1>3, <2>1, <2>2, <2>3 DEF Copy
<1>4. ASSUME NEW p \in Publishers, NEW r \in Artifacts, Prepare(p, r) PROVE FALSE
  <2>1. zips' = zips /\ strays' = strays /\ \A q \in Publishers : pc[q] = "idle"
    BY <1>4 DEF Prepare, disk, Inv, Serialized
  <2> QED
    BY <1>2, <2>1 DEF Copy
<1>5. ASSUME NEW p \in Publishers, ReplaceZip(p) PROVE FALSE
  <2>1. /\ pc[p] = "zip" /\ pc'[p] = "xml" /\ strays' = strays /\ backup' = backup
        /\ ZipOf(p)' = ZipOf(p)
        /\ zips[ZipOf(p)] = backup[p]
    BY <1>5 DEF ReplaceZip, Goto, Inv, TypeOK, ZipOf, Art, FilesFollow, Intact,
                BackupKept, Counted, Working
  <2>2. zips[f] # b
    BY <1>2, <1>5, <2>1 DEF ReplaceZip, Copy, Inv, TypeOK
  <2>3. PICK q \in Publishers : pc[q] # "idle" /\ ZipOf(q) = f /\ backup[q] = b
    BY <1>2, <2>1, <2>2 DEF Copy
  <2>4. q = p
    BY <2>1, <2>3, OthersIdle
  <2> QED
    BY <2>1, <2>3, <2>4 DEF Copy
<1>6. ASSUME NEW p \in Publishers,
             \/ ReplaceXml(p) \/ ReplaceMd5(p) \/ Sync(p) \/ Raise(p)
             \/ UndoFails(p) \/ UndoSync(p) \/ Interrupt(p)
      PROVE  FALSE
  <2>1. /\ pc[p] # "idle" /\ pc'[p] # "idle" /\ zips' = zips /\ strays' = strays
        /\ job'[p] = job[p] /\ backup'[p] = backup[p]
    BY <1>6 DEF ReplaceXml, ReplaceMd5, Sync, Raise, UndoFails, UndoSync, Interrupt,
                Goto, disk, locals, Inv, TypeOK
  <2> QED
    BY <1>3, <2>1
<1>7. ASSUME NEW p \in Publishers, Undo(p) PROVE Removes(p, f, b)
  <2>1. /\ pc[p] = "undo" /\ pc' = pc /\ job' = job /\ strays' = strays
    BY <1>7 DEF Undo
  <2>2. CASE RestoreMd5(p) \/ RestoreXml(p)
    BY <1>3, <2>1, <2>2 DEF RestoreMd5, RestoreXml
  <2>3. CASE RestoreZip(p)
    <3>1. /\ ZipOf(p) \in Files
          /\ zips' = [zips EXCEPT ![ZipOf(p)] = backup[p]] /\ backup[p] = job[p].zip
          /\ zips[ZipOf(p)] \in {job[p].zip, Art(p).build}
      BY <2>1, <2>3, JobParts
      DEF RestoreZip, Inv, BackupKept, OneOfTwo, FoundOrWritten, TypeOK
    <3>2. f = ZipOf(p) => b # backup[p]
      BY <1>2, <3>1 DEF Inv, TypeOK
    <3>3. ASSUME NEW q \in Publishers, pc[q] # "idle", ZipOf(q) = f, backup[q] = b
          PROVE  FALSE
      BY <2>1, <3>2, <3>3, OthersIdle
    <3>4. zips[f] = b
      BY <1>2, <2>1, <3>3 DEF Copy
    <3>5. f = ZipOf(p) /\ b = Art(p).build
      BY <1>2, <3>1, <3>2, <3>4 DEF Inv, TypeOK
    <3> QED
      BY <2>1, <3>5 DEF Removes
  <2> QED
    BY <1>7, <2>2, <2>3 DEF Undo
<1>8. ASSUME NEW p \in Publishers, pc[p] # "idle", zips' = zips, strays \subseteq strays'
      PROVE  ZipOf(p) = f /\ backup[p] = b
  BY <1>2, <1>8, OthersIdle DEF Copy
<1>9. ASSUME NEW p \in Publishers, Cleanup(p) \/ CleanupRaises(p)
      PROVE  Removes(p, f, b)
  <2>1. pc[p] = "cleanup" /\ zips' = zips /\ strays \subseteq strays'
    BY <1>9 DEF Cleanup, CleanupRaises, disk
  <2>2. ZipOf(p) = f /\ backup[p] = b
    BY <1>8, <2>1
  <2>3. b = job[p].zip
    BY <1>1, <2>2 DEF Inv, BackupIsPrior
  <2>4. outcome[p] # "rollback_failed"
    BY <1>1, <1>2, <1>9, <2>2 DEF Cleanup, CleanupRaises, Stray
  <2>5. outcome[p] # "raised"
    <3>1. outcome[p] = "raised" => zips[f] = job[p].zip
      BY <2>1, <2>2 DEF Inv, Counted, FilesFollow, Intact
    <3> QED
      BY <1>2, <2>1, <2>3, <3>1
  <2>6. outcome[p] \in {"success", "interrupted"}
    BY <2>1, <2>4, <2>5 DEF Inv, Counted, Ending, TypeOK, Outcomes
  <2> QED
    BY <2>1, <2>2, <2>3, <2>6 DEF Removes
<1>10. ASSUME NEW p \in Publishers, Return(p) \/ Crash(p) PROVE FALSE
  <2>1. pc[p] # "idle" /\ zips' = zips /\ strays \subseteq strays'
    BY <1>10 DEF Return, Crash, disk
  <2>2. ZipOf(p) = f /\ backup[p] = b
    BY <1>8, <2>1
  <2>3. pc[p] # "returned"
    BY <1>1, <2>2 DEF Inv, BackupIsPrior
  <2> QED
    BY <1>1, <1>2, <1>10, <2>2, <2>3 DEF Return, Crash, Stray
<1> QED
  BY <1>4, <1>5, <1>6, <1>7, <1>9, <1>10 DEF Next

(* The zip a call found outlives failures, failed rollbacks and deaths.    *)
THEOREM PriorZipHolds == Spec => PriorZipSurvives
<1>1. Inv /\ [Next]_vars => [CopiesGo]_vars
  BY CopiesStep
<1> QED
  BY InvHolds, <1>1, PTL DEF Spec, PriorZipSurvives
=============================================================================
