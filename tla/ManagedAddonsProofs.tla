------------------------ MODULE ManagedAddonsProofs -------------------------
(***************************************************************************)
(* What the registry of managed add-ons says was published was published,  *)
(* what a build answers is what it made, and no operation touches the      *)
(* entry of another add-on unless it could not read the registry, for any  *)
(* workers, add-ons and number of operations.  The invariant follows the   *)
(* one operation inside the lock: the registry it loaded is the one in the *)
(* file but for its own entry, or empty but for it if the read failed, and *)
(* what that entry will say when it is saved already holds.                *)
(***************************************************************************)
EXTENDS ManagedAddons, TLAPS

Entries == [last : 0..MaxVersion, public : BOOLEAN]
Todos == Plans \cup {<<>>}
Jobs == [addon : Addons, todo : Todos, version : 0..MaxVersion, built : 0..MaxVersion,
         registry : Registries, blind : BOOLEAN]
Builds == {<<"build">>, <<"build", "publish">>}

Building == {"version", "unlink", "zip"}

Exclusive == \A w \in Workers : pc[w] # "idle" => lock = w /\ job[w] \in Jobs

(* Which parts of its plan an operation has before it. *)
PlanHolds(w) ==
    /\ pc[w] = "register" => job[w].todo = <<"register">>
    /\ pc[w] \in {"build"} \cup Building => job[w].todo \in Builds
    /\ pc[w] \in {"publish", "replace"} => job[w].todo = <<"publish">>
    /\ pc[w] = "save" => job[w].todo \in Plans

(* An entry that names a publication names one that took place. *)
Published(a, e) == e.public => e.last \in Versions /\ repo[<<a, e.last>>] # NoFile
RegistryHolds == \A a \in Addons : registry[a] # NoEntry => Published(a, registry[a])

BuildHolds(w) ==
    LET a == job[w].addon IN
    /\ pc[w] \in {"register", "build"} => job[w].built = 0
    /\ pc[w] \in Building =>
          /\ job[w].built = 0 /\ job[w].version \in Versions
          /\ job[w].registry = registry /\ registry[a] \in Entries
          /\ source[a] # 0

PublishHolds(w) ==
    LET a == job[w].addon
        v == job[w].built IN
    /\ pc[w] = "publish" /\ v # 0 => registry[a] \in Entries /\ registry[a].last = v
    /\ pc[w] = "replace" =>
          /\ job[w].version \in Versions /\ v \in {0, job[w].version}
          /\ job[w].registry = registry
          /\ registry[a] \in Entries /\ registry[a].last = job[w].version
          /\ zips[NameOf(w)] # NoFile

(* What w will save, or has saved last. *)
SaveHolds(w) ==
    LET a == job[w].addon
        v == job[w].built
        e == job[w].registry[a] IN
    pc[w] \in {"save", "answer"} =>
       /\ \A b \in Addons : b # a =>
             job[w].registry[b] = IF job[w].blind THEN NoEntry ELSE registry[b]
       /\ pc[w] = "answer" => job[w].registry = registry
       /\ e \in Entries /\ Published(a, e)
       /\ v # 0 => /\ e.last = v
                   /\ e.public => repo[<<a, v>>] = zips[<<a, v>>]

(* Only a registration goes on after a failed read. *)
BlindHolds(w) ==
    job[w].blind => pc[w] = "answer" \/ (pc[w] = "save" /\ job[w].todo = <<"register">>)

(* Unless a developer interferes, a build makes what it says. *)
DeclaresHolds(w) ==
    LET a == job[w].addon
        v == job[w].built IN
    ~raced /\ a \notin Headed =>
       /\ pc[w] \in {"unlink", "zip"} => source[a] = job[w].version
       /\ pc[w] \in {"save", "publish", "replace", "answer"} /\ v # 0 =>
             zips[<<a, v>>] = [version |-> v, whole |-> TRUE]

Works(w) == PlanHolds(w) /\ BuildHolds(w) /\ PublishHolds(w) /\ SaveHolds(w)
            /\ BlindHolds(w) /\ DeclaresHolds(w)

IInv == TypeOK /\ Exclusive /\ RegistryHolds
        /\ \A w \in Workers : pc[w] # "idle" => Works(w)

-----------------------------------------------------------------------------
LEMMA PlanFacts ==
    /\ Plans = {<<"register">>, <<"publish">>} \cup Builds
    /\ \A p \in Plans : Head(p) \in {"register", "build", "publish"}
    /\ \A p \in Builds : Head(p) = "build"
    /\ \A p \in Plans : Head(p) = "register" <=> p = <<"register">>
    /\ \A p \in Plans : Head(p) = "publish" <=> p = <<"publish">>
    /\ \A p \in Plans : Len(p) # 1 => p[2] = "publish" /\ Tail(p) = <<"publish">>
    /\ \A p \in Plans : Len(p) = 1 => Tail(p) = <<>>
BY DEF Plans, Builds

LEMMA TodosAreTails == {Tail(p) : p \in Plans} \cup Plans = Todos
BY DEF Plans, Todos

LEMMA Start == Init => IInv
<1> SUFFICES ASSUME Init PROVE IInv
  OBVIOUS
<1> USE ManagedAssumption DEF Init
<1>1. TypeOK
  <2>1. registry \in Registries /\ zips \in [Names -> Zips] /\ repo \in [Names -> Zips \ {Broken}]
    BY DEF Registries, Zips
  <2>2. source \in [Addons -> 0..MaxVersion] /\ begun \in 0..MaxOperations
    BY DEF Versions
  <2>3. pc \in [Workers -> PCs]
    BY DEF PCs
  <2>4. QED
    BY <2>1, <2>2, <2>3 DEF TypeOK
<1>2. Exclusive /\ \A w \in Workers : pc[w] = "idle"
  BY DEF Exclusive
<1>3. RegistryHolds
  BY DEF RegistryHolds, Published, Entries
<1>4. QED
  BY <1>1, <1>2, <1>3 DEF IInv

LEMMA JobTypes ==
    {Tail(p) : p \in Plans} \cup Plans = Todos /\ Registries = [Addons -> Entries \cup {NoEntry}]
BY TodosAreTails DEF Registries, Entries

Others(w) == \A v \in Workers : v # w => pc[v] = "idle"

(* The worker at work is the only one. *)
LEMMA AtWork ==
    ASSUME IInv, NEW w \in Workers, pc[w] # "idle"
    PROVE  /\ job[w] \in Jobs /\ lock = w /\ Works(w) /\ Others(w)
           /\ job[w].addon \in Addons
           /\ registry \in [Addons -> Entries \cup {NoEntry}]
           /\ job[w].registry \in [Addons -> Entries \cup {NoEntry}]
<1>1. job[w] \in Jobs /\ lock = w /\ Works(w)
  BY DEF IInv, Exclusive
<1>2. Others(w)
  BY <1>1 DEF IInv, Exclusive, Others
<1>3. QED
  BY <1>1, <1>2, JobTypes DEF IInv, TypeOK, Jobs

DiskTypes ==
    /\ source \in [Addons -> 0..MaxVersion]
    /\ registry \in Registries
    /\ zips \in [Names -> Zips]
    /\ repo \in [Names -> Zips \ {Broken}]
    /\ begun \in 0..MaxOperations
    /\ raced \in BOOLEAN

(* A step of w that goes on, and leaves its job as j: what is left to show *)
(* is about w and the files.                                               *)
LEMMA MoveKeeps ==
    ASSUME IInv, NEW w \in Workers, Others(w), NEW j \in Jobs, NEW place \in PCs,
           job' = [job EXCEPT ![w] = j], Goto(w, place), lock' = w,
           DiskTypes', RegistryHolds',
           job'[w] = j /\ pc'[w] = place => Works(w)'
    PROVE  IInv'
<1>1. job \in [Workers -> Jobs \cup {Nobody}] /\ pc \in [Workers -> PCs]
  BY JobTypes DEF IInv, TypeOK, Jobs
<1>2. /\ job' \in [Workers -> Jobs \cup {Nobody}] /\ job'[w] = j
      /\ pc' \in [Workers -> PCs] /\ pc'[w] = place
  BY <1>1 DEF Goto
<1>3. Others(w)'
  BY <1>1 DEF Goto, Others
<1>4. TypeOK'
  BY <1>2, JobTypes DEF TypeOK, DiskTypes, Jobs
<1>5. Exclusive'
  BY <1>2, <1>3 DEF Exclusive, Others
<1>6. QED
  BY <1>2, <1>3, <1>4, <1>5 DEF IInv, Others

LEMMA RegisterKeeps ==
    ASSUME IInv, NEW w \in Workers, Register(w)
    PROVE  IInv'
<1>1. pc[w] = "register" /\ job[w] \in Jobs /\ lock = w /\ Works(w) /\ Others(w)
  BY AtWork DEF Register
<1>2. PICK k \in Jobs, a \in Addons : k = job[w] /\ a = k.addon
  BY <1>1 DEF Jobs
<1>3. registry \in [Addons -> Entries \cup {NoEntry}]
  BY JobTypes DEF IInv, TypeOK
<1>13. PICK blind \in BOOLEAN :
          job' = [job EXCEPT
             ![w].blind = blind,
             ![w].registry = [Loaded(blind) EXCEPT
                ![a] = IF @ = NoEntry THEN [last |-> 0, public |-> FALSE] ELSE @]]
  BY <1>2 DEF Register
<1>14. PICK l \in [Addons -> Entries \cup {NoEntry}] :
          /\ l = Loaded(blind)
          /\ \A b \in Addons : l[b] = IF blind THEN NoEntry ELSE registry[b]
  <2>1. CASE blind
    <3>1. Loaded(blind) = [b \in Addons |-> NoEntry]
      BY <2>1 DEF Loaded
    <3>2. QED
      BY <2>1, <3>1
  <2>2. CASE ~blind
    <3>1. Loaded(blind) = registry
      BY <2>2 DEF Loaded
    <3>2. QED
      BY <1>3, <2>2, <3>1
  <2>3. QED
    BY <2>1, <2>2
<1>4. PICK e \in Entries : /\ e = IF l[a] = NoEntry
                                 THEN [last |-> 0, public |-> FALSE] ELSE l[a]
                           /\ Published(a, e)
  <2> DEFINE r == IF l[a] = NoEntry
                  THEN [last |-> 0, public |-> FALSE] ELSE l[a]
  <2>1. r \in Entries
    BY <1>14, ManagedAssumption DEF Entries
  <2>2. Published(a, r)
    BY <1>14 DEF IInv, RegistryHolds, Published
  <2>3. QED
    BY <2>1, <2>2
<1>5. PICK j \in Jobs : j = [k EXCEPT !.registry = [l EXCEPT ![a] = e], !.blind = blind]
  BY <1>14, JobTypes DEF Jobs
<1>6. /\ j.addon = a /\ j.todo = k.todo /\ j.built = k.built /\ j.blind = blind
      /\ j.registry[a] = e
      /\ \A b \in Addons : b # a => j.registry[b] = IF blind THEN NoEntry ELSE registry[b]
  BY <1>2, <1>5, <1>14 DEF Jobs
<1>7. job' = [job EXCEPT ![w] = j] /\ Goto(w, "save")
  <2>1. job \in [Workers -> Jobs \cup {Nobody}] /\ job[w] = k
    BY <1>2, JobTypes DEF IInv, TypeOK, Jobs
  <2>2. j = [k EXCEPT !.blind = blind, !.registry = [l EXCEPT ![a] = e]]
    BY <1>5 DEF Jobs
  <2>3. QED
    BY <1>4, <1>13, <1>14, <2>1, <2>2 DEF Register
<1>8. lock' = w /\ UNCHANGED <<source, registry, zips, repo, begun, raced>>
  BY <1>1 DEF Register, disk
<1>9. DiskTypes' /\ RegistryHolds'
  BY <1>8 DEF IInv, TypeOK, DiskTypes, RegistryHolds, Published
<1>10. k.todo = <<"register">> /\ k.built = 0
  BY <1>1, <1>2 DEF Works, PlanHolds, BuildHolds
<1>11. ASSUME job'[w] = j, pc'[w] = "save" PROVE Works(w)'
  <2>1. PlanHolds(w)'
    BY <1>6, <1>10, <1>11 DEF PlanHolds, Building, Plans
  <2>2. BuildHolds(w)' /\ PublishHolds(w)'
    BY <1>11 DEF BuildHolds, PublishHolds, Building
  <2>3. SaveHolds(w)'
    BY <1>4, <1>6, <1>8, <1>10, <1>11 DEF SaveHolds, Published
  <2>4. DeclaresHolds(w)'
    BY <1>6, <1>10, <1>11 DEF DeclaresHolds
  <2>5. BlindHolds(w)'
    BY <1>6, <1>10, <1>11 DEF BlindHolds, Works
  <2>6. QED
    BY <2>1, <2>2, <2>3, <2>4, <2>5 DEF Works
<1>12. QED
  BY <1>1, <1>7, <1>8, <1>9, <1>11, MoveKeeps DEF PCs

LEMMA DetermineVersionKeeps ==
    ASSUME IInv, NEW w \in Workers, NEW policy \in Policies, DetermineVersion(w, policy)
    PROVE  IInv'
<1>1. pc[w] = "build" /\ job[w] \in Jobs /\ lock = w /\ Works(w) /\ Others(w)
  BY AtWork DEF DetermineVersion
<1>2. PICK k \in Jobs, a \in Addons : k = job[w] /\ a = k.addon
  BY <1>1 DEF Jobs
<1>3. registry \in [Addons -> Entries \cup {NoEntry}]
  BY JobTypes DEF IInv, TypeOK
<1>4. PICK v \in Versions :
         /\ policy = "use_addon_xml" => v = source[a]
         /\ job' = [job EXCEPT ![w].version = v, ![w].registry = registry]
  BY <1>2 DEF DetermineVersion
<1>5. PICK j \in Jobs : j = [k EXCEPT !.version = v, !.registry = registry]
  <2>1. v \in 0..MaxVersion
    BY DEF Versions
  <2>2. [k EXCEPT !.version = v, !.registry = registry] \in Jobs
    BY <1>3, <2>1, JobTypes DEF Jobs
  <2>3. QED
    BY <2>2
<1>6. /\ j.addon = a /\ j.todo = k.todo /\ j.built = k.built /\ j.blind = k.blind
      /\ j.version = v /\ j.registry = registry
  BY <1>2, <1>5 DEF Jobs
<1>7. job' = [job EXCEPT ![w] = j]
  BY <1>1, <1>2, <1>4, <1>5 DEF IInv, TypeOK
<1>8. PICK place \in {"unlink", "version"} :
         Goto(w, place) /\ (place = "unlink" => policy = "use_addon_xml")
  BY DEF DetermineVersion
<1>9. /\ lock' = w /\ UNCHANGED <<source, registry, zips, repo, begun, raced>>
      /\ registry[a] \in Entries /\ source[a] # 0
  BY <1>1, <1>2, <1>3 DEF DetermineVersion, disk
<1>10. DiskTypes' /\ RegistryHolds'
  BY <1>9 DEF IInv, TypeOK, DiskTypes, RegistryHolds, Published
<1>11. k.todo \in Builds /\ k.built = 0
  BY <1>1, <1>2 DEF Works, PlanHolds, BuildHolds, Building
<1>12. ASSUME job'[w] = j, pc'[w] = place PROVE Works(w)'
  <2>1. PlanHolds(w)'
    BY <1>6, <1>8, <1>11, <1>12 DEF PlanHolds, Building
  <2>2. BuildHolds(w)' /\ PublishHolds(w)'
    BY <1>6, <1>8, <1>9, <1>11, <1>12 DEF BuildHolds, PublishHolds, Building
  <2>3. SaveHolds(w)'
    BY <1>8, <1>12 DEF SaveHolds
  <2>4. DeclaresHolds(w)'
    BY <1>4, <1>6, <1>8, <1>9, <1>11, <1>12 DEF DeclaresHolds
  <2>5. BlindHolds(w)'
    BY <1>1, <1>2, <1>6, <1>12 DEF BlindHolds, Works
  <2>6. QED
    BY <2>1, <2>2, <2>3, <2>4, <2>5 DEF Works
<1>13. QED
  BY <1>1, <1>7, <1>8, <1>9, <1>10, <1>12, MoveKeeps DEF PCs

LEMMA WriteVersionKeeps ==
    ASSUME IInv, NEW w \in Workers, WriteVersion(w)
    PROVE  IInv'
<1>1. pc[w] = "version" /\ job[w] \in Jobs /\ lock = w /\ Works(w) /\ Others(w)
  BY AtWork DEF WriteVersion
<1>2. PICK k \in Jobs, a \in Addons : k = job[w] /\ a = k.addon
  BY <1>1 DEF Jobs
<1>3. /\ job' = [job EXCEPT ![w] = k] /\ Goto(w, "unlink")
      /\ source' = IF a \in Headed THEN source ELSE [source EXCEPT ![a] = k.version]
      /\ lock' = w /\ UNCHANGED <<registry, zips, repo, begun, raced>>
  BY <1>1, <1>2 DEF WriteVersion, IInv, TypeOK
<1>4. /\ k.todo \in Builds /\ k.built = 0 /\ k.version \in Versions
      /\ k.registry = registry /\ registry[a] \in Entries /\ source[a] # 0
  BY <1>1, <1>2 DEF Works, PlanHolds, BuildHolds, Building
<1>5. source \in [Addons -> 0..MaxVersion] /\ k.version \in 0..MaxVersion /\ k.version # 0
  BY <1>4 DEF IInv, TypeOK, Versions
<1>6. source' \in [Addons -> 0..MaxVersion] /\ source'[a] # 0
      /\ (a \notin Headed => source'[a] = k.version)
  BY <1>3, <1>4, <1>5
<1>7. DiskTypes' /\ RegistryHolds'
  BY <1>3, <1>6 DEF IInv, TypeOK, DiskTypes, RegistryHolds, Published
<1>8. ASSUME job'[w] = k, pc'[w] = "unlink" PROVE Works(w)'
  <2>1. PlanHolds(w)'
    BY <1>4, <1>8 DEF PlanHolds, Building
  <2>2. BuildHolds(w)' /\ PublishHolds(w)'
    BY <1>2, <1>3, <1>4, <1>6, <1>8 DEF BuildHolds, PublishHolds, Building
  <2>3. SaveHolds(w)'
    BY <1>8 DEF SaveHolds
  <2>4. DeclaresHolds(w)'
    BY <1>2, <1>4, <1>6, <1>8 DEF DeclaresHolds
  <2>5. BlindHolds(w)'
    BY <1>1, <1>2, <1>8 DEF BlindHolds, Works
  <2>6. QED
    BY <2>1, <2>2, <2>3, <2>4, <2>5 DEF Works
<1>9. QED
  BY <1>1, <1>3, <1>7, <1>8, MoveKeeps DEF PCs

LEMMA UnlinkKeeps ==
    ASSUME IInv, NEW w \in Workers, Unlink(w)
    PROVE  IInv'
<1>1. pc[w] = "unlink" /\ job[w] \in Jobs /\ lock = w /\ Works(w) /\ Others(w)
  BY AtWork DEF Unlink
<1>2. PICK k \in Jobs, a \in Addons : k = job[w] /\ a = k.addon
  BY <1>1 DEF Jobs
<1>3. /\ job' = [job EXCEPT ![w] = k] /\ Goto(w, "zip")
      /\ zips' = [zips EXCEPT ![<<a, k.version>>] = NoFile]
      /\ lock' = w /\ UNCHANGED <<source, registry, repo, begun, raced>>
  BY <1>1, <1>2 DEF Unlink, NameOf, IInv, TypeOK
<1>4. /\ k.todo \in Builds /\ k.built = 0 /\ k.version \in Versions
      /\ k.registry = registry /\ registry[a] \in Entries /\ source[a] # 0
      /\ (~raced /\ a \notin Headed => source[a] = k.version)
  BY <1>1, <1>2 DEF Works, PlanHolds, BuildHolds, DeclaresHolds, Building
<1>5. DiskTypes' /\ RegistryHolds'
  <2>1. zips' \in [Names -> Zips]
    BY <1>3 DEF IInv, TypeOK, Zips
  <2>2. QED
    BY <1>3, <2>1 DEF IInv, TypeOK, DiskTypes, RegistryHolds, Published
<1>6. ASSUME job'[w] = k, pc'[w] = "zip" PROVE Works(w)'
  <2>1. PlanHolds(w)'
    BY <1>4, <1>6 DEF PlanHolds, Building
  <2>2. BuildHolds(w)' /\ PublishHolds(w)'
    BY <1>2, <1>3, <1>4, <1>6 DEF BuildHolds, PublishHolds, Building
  <2>3. SaveHolds(w)'
    BY <1>6 DEF SaveHolds
  <2>4. DeclaresHolds(w)'
    BY <1>2, <1>3, <1>4, <1>6 DEF DeclaresHolds
  <2>5. BlindHolds(w)'
    BY <1>1, <1>2, <1>6 DEF BlindHolds, Works
  <2>6. QED
    BY <2>1, <2>2, <2>3, <2>4, <2>5 DEF Works
<1>7. QED
  BY <1>1, <1>3, <1>5, <1>6, MoveKeeps DEF PCs

LEMMA ZipKeeps ==
    ASSUME IInv, NEW w \in Workers, Zip(w)
    PROVE  IInv'
<1>1. pc[w] = "zip" /\ job[w] \in Jobs /\ lock = w /\ Works(w) /\ Others(w)
  BY AtWork DEF Zip
<1>2. PICK k \in Jobs, a \in Addons : k = job[w] /\ a = k.addon
  BY <1>1 DEF Jobs
<1>3. registry \in [Addons -> Entries \cup {NoEntry}]
  BY JobTypes DEF IInv, TypeOK
<1>4. /\ k.todo \in Builds /\ k.built = 0 /\ k.version \in Versions
      /\ k.registry = registry /\ registry[a] \in Entries /\ source[a] # 0
      /\ (~raced /\ a \notin Headed => source[a] = k.version)
  BY <1>1, <1>2 DEF Works, PlanHolds, BuildHolds, DeclaresHolds, Building
<1>5. PICK e \in Entries : e = [last |-> k.version, public |-> FALSE]
  <2>1. k.version \in 0..MaxVersion
    BY <1>4 DEF Versions
  <2>2. QED
    BY <2>1 DEF Entries
<1>6. PICK j \in Jobs : j = [k EXCEPT !.registry = [registry EXCEPT ![a] = e],
                                      !.built = k.version]
  BY <1>3, <1>4, JobTypes DEF Jobs, Versions
<1>7. /\ j.addon = a /\ j.todo = k.todo /\ j.built = k.version /\ j.blind = k.blind
      /\ j.registry[a] = e /\ \A b \in Addons : b # a => j.registry[b] = registry[b]
      /\ e.last = k.version /\ ~e.public
  BY <1>2, <1>3, <1>5, <1>6 DEF Jobs
<1>8. job' = [job EXCEPT ![w] = j]
  BY <1>1, <1>2, <1>4, <1>5, <1>6 DEF Zip, IInv, TypeOK
<1>9. PICK z \in Zips : z = [version |-> source[a], whole |-> TRUE]
  <2>1. source[a] \in Versions
    BY <1>4 DEF IInv, TypeOK, Versions
  <2>2. QED
    BY <2>1 DEF Zips
<1>10. /\ zips' = [zips EXCEPT ![<<a, k.version>>] = z] /\ Goto(w, "save")
       /\ lock' = w /\ UNCHANGED <<source, registry, repo, begun, raced>>
  BY <1>1, <1>2, <1>9 DEF Zip, NameOf
<1>11. zips' \in [Names -> Zips] /\ zips'[<<a, k.version>>] = z
  BY <1>4, <1>10 DEF IInv, TypeOK, Names
<1>12. DiskTypes' /\ RegistryHolds'
  BY <1>10, <1>11 DEF IInv, TypeOK, DiskTypes, RegistryHolds, Published
<1>13. ASSUME job'[w] = j, pc'[w] = "save" PROVE Works(w)'
  <2>1. PlanHolds(w)'
    BY <1>4, <1>7, <1>13 DEF PlanHolds, Building, Builds, Plans
  <2>2. BuildHolds(w)' /\ PublishHolds(w)'
    BY <1>13 DEF BuildHolds, PublishHolds, Building
  <2>3. SaveHolds(w)'
    <3>1. ~j.blind
      BY <1>1, <1>2, <1>7 DEF Works, BlindHolds
    <3>2. QED
      BY <1>7, <1>10, <1>13, <3>1 DEF SaveHolds, Published
  <2>4. DeclaresHolds(w)'
    BY <1>4, <1>7, <1>9, <1>10, <1>11, <1>13 DEF DeclaresHolds
  <2>5. BlindHolds(w)'
    BY <1>1, <1>2, <1>7, <1>13 DEF BlindHolds, Works
  <2>6. QED
    BY <2>1, <2>2, <2>3, <2>4, <2>5 DEF Works
<1>14. QED
  BY <1>1, <1>8, <1>10, <1>12, <1>13, MoveKeeps DEF PCs

LEMMA FindBuildKeeps ==
    ASSUME IInv, NEW w \in Workers, FindBuild(w)
    PROVE  IInv'
<1>1. pc[w] = "publish" /\ job[w] \in Jobs /\ lock = w /\ Works(w) /\ Others(w)
  BY AtWork DEF FindBuild
<1>2. PICK k \in Jobs, a \in Addons : k = job[w] /\ a = k.addon
  BY <1>1 DEF Jobs
<1>3. registry \in [Addons -> Entries \cup {NoEntry}]
  BY JobTypes DEF IInv, TypeOK
<1>4. PICK e \in Entries : e = registry[a]
  BY <1>2, <1>3 DEF FindBuild
<1>5. e.last \in Versions /\ e.last # 0 /\ zips[<<a, e.last>>] # NoFile
  BY <1>2, <1>4 DEF FindBuild, Entries, Versions
<1>6. PICK j \in Jobs : j = [k EXCEPT !.version = e.last, !.registry = registry]
  <2>1. e.last \in 0..MaxVersion
    BY DEF Entries
  <2>2. [k EXCEPT !.version = e.last, !.registry = registry] \in Jobs
    BY <1>3, <2>1, JobTypes DEF Jobs
  <2>3. QED
    BY <2>2
<1>7. /\ j.addon = a /\ j.todo = k.todo /\ j.built = k.built /\ j.blind = k.blind
      /\ j.version = e.last /\ j.registry = registry
  BY <1>2, <1>6 DEF Jobs
<1>8. /\ job' = [job EXCEPT ![w] = j] /\ Goto(w, "replace")
      /\ lock' = w /\ UNCHANGED <<source, registry, zips, repo, begun, raced>>
  BY <1>1, <1>2, <1>4, <1>6 DEF FindBuild, IInv, TypeOK, disk
<1>9. DiskTypes' /\ RegistryHolds'
  BY <1>8 DEF IInv, TypeOK, DiskTypes, RegistryHolds, Published
<1>10. /\ k.todo = <<"publish">> /\ (k.built # 0 => e.last = k.built)
       /\ (~raced /\ a \notin Headed /\ k.built # 0 =>
             zips[<<a, k.built>>] = [version |-> k.built, whole |-> TRUE])
  BY <1>1, <1>2, <1>4 DEF Works, PlanHolds, PublishHolds, DeclaresHolds
<1>11. ASSUME job'[w] = j, pc'[w] = "replace" PROVE Works(w)'
  <2>1. PlanHolds(w)'
    BY <1>7, <1>10, <1>11 DEF PlanHolds, Building
  <2>2. BuildHolds(w)' /\ PublishHolds(w)'
    BY <1>4, <1>5, <1>7, <1>8, <1>10, <1>11 DEF BuildHolds, PublishHolds, Building, NameOf
  <2>3. SaveHolds(w)'
    BY <1>11 DEF SaveHolds
  <2>4. DeclaresHolds(w)'
    BY <1>7, <1>8, <1>10, <1>11 DEF DeclaresHolds
  <2>5. BlindHolds(w)'
    BY <1>1, <1>2, <1>7, <1>11 DEF BlindHolds, Works
  <2>6. QED
    BY <2>1, <2>2, <2>3, <2>4, <2>5 DEF Works
<1>12. QED
  BY <1>1, <1>8, <1>9, <1>11, MoveKeeps DEF PCs

LEMMA ReplaceKeeps ==
    ASSUME IInv, NEW w \in Workers, Replace(w)
    PROVE  IInv'
<1>1. pc[w] = "replace" /\ job[w] \in Jobs /\ lock = w /\ Works(w) /\ Others(w)
  BY AtWork DEF Replace
<1>2. PICK k \in Jobs, a \in Addons : k = job[w] /\ a = k.addon
  BY <1>1 DEF Jobs
<1>3. registry \in [Addons -> Entries \cup {NoEntry}]
  BY JobTypes DEF IInv, TypeOK
<1>4. /\ k.todo = <<"publish">> /\ k.version \in Versions /\ k.built \in {0, k.version}
      /\ k.registry = registry /\ registry[a] \in Entries /\ registry[a].last = k.version
      /\ zips[<<a, k.version>>] # NoFile
      /\ (~raced /\ a \notin Headed /\ k.built # 0 =>
             zips[<<a, k.built>>] = [version |-> k.built, whole |-> TRUE])
  BY <1>1, <1>2 DEF Works, PlanHolds, PublishHolds, DeclaresHolds, NameOf
<1>5. PICK e \in Entries : e = [registry[a] EXCEPT !.public = TRUE]
  BY <1>4 DEF Entries
<1>6. PICK j \in Jobs : j = [k EXCEPT !.registry = [registry EXCEPT ![a] = e]]
  BY <1>3, JobTypes DEF Jobs
<1>7. /\ j.addon = a /\ j.todo = k.todo /\ j.built = k.built /\ j.blind = k.blind
      /\ j.registry[a] = e /\ \A b \in Addons : b # a => j.registry[b] = registry[b]
      /\ e.last = k.version
  BY <1>2, <1>3, <1>4, <1>5, <1>6 DEF Jobs, Entries
<1>8. job' = [job EXCEPT ![w] = j]
  BY <1>1, <1>2, <1>4, <1>5, <1>6 DEF Replace, IInv, TypeOK
<1>9. /\ repo' = [repo EXCEPT ![<<a, k.version>>] = zips[<<a, k.version>>]]
      /\ zips[<<a, k.version>>] # Broken /\ Goto(w, "save")
      /\ lock' = w /\ UNCHANGED <<source, registry, zips, begun, raced>>
  BY <1>1, <1>2 DEF Replace, NameOf
<1>10. /\ repo' \in [Names -> Zips \ {Broken}]
       /\ repo'[<<a, k.version>>] = zips[<<a, k.version>>]
       /\ \A n \in Names : repo[n] # NoFile => repo'[n] # NoFile
  BY <1>4, <1>9 DEF IInv, TypeOK, Names
<1>11. DiskTypes' /\ RegistryHolds'
  BY <1>9, <1>10 DEF IInv, TypeOK, DiskTypes, RegistryHolds, Published, Names
<1>12. ASSUME job'[w] = j, pc'[w] = "save" PROVE Works(w)'
  <2>1. PlanHolds(w)'
    BY <1>4, <1>7, <1>12 DEF PlanHolds, Building, Plans
  <2>2. BuildHolds(w)' /\ PublishHolds(w)'
    BY <1>12 DEF BuildHolds, PublishHolds, Building
  <2>3. SaveHolds(w)'
    <3>1. ~j.blind
      BY <1>1, <1>2, <1>7 DEF Works, BlindHolds
    <3>2. QED
      BY <1>4, <1>7, <1>9, <1>10, <1>12, <3>1 DEF SaveHolds, Published
  <2>4. DeclaresHolds(w)'
    BY <1>4, <1>7, <1>9, <1>12 DEF DeclaresHolds
  <2>5. BlindHolds(w)'
    BY <1>1, <1>2, <1>7, <1>12 DEF BlindHolds, Works
  <2>6. QED
    BY <2>1, <2>2, <2>3, <2>4, <2>5 DEF Works
<1>13. QED
  BY <1>1, <1>8, <1>9, <1>11, <1>12, MoveKeeps DEF PCs

LEMMA SaveKeeps ==
    ASSUME IInv, NEW w \in Workers, Save(w)
    PROVE  IInv'
<1>1. pc[w] = "save" /\ job[w] \in Jobs /\ lock = w /\ Works(w) /\ Others(w)
  BY AtWork DEF Save
<1>2. PICK k \in Jobs, a \in Addons : k = job[w] /\ a = k.addon
  BY <1>1 DEF Jobs
<1>3. /\ k.todo \in Plans /\ k.registry[a] \in Entries /\ Published(a, k.registry[a])
      /\ \A b \in Addons : b # a =>
             k.registry[b] = IF k.blind THEN NoEntry ELSE registry[b]
      /\ k.built # 0 => /\ k.registry[a].last = k.built
                        /\ k.registry[a].public => repo[<<a, k.built>>] = zips[<<a, k.built>>]
      /\ (~raced /\ a \notin Headed /\ k.built # 0 =>
             zips[<<a, k.built>>] = [version |-> k.built, whole |-> TRUE])
  BY <1>1, <1>2 DEF Works, PlanHolds, SaveHolds, DeclaresHolds
<1>4. Tail(k.todo) \in Todos
  BY <1>3, JobTypes
<1>5. PICK j \in Jobs : j = [k EXCEPT !.todo = Tail(k.todo)]
  BY <1>4 DEF Jobs
<1>6. /\ j.addon = a /\ j.todo = Tail(k.todo) /\ j.built = k.built /\ j.blind = k.blind
      /\ j.registry = k.registry
  BY <1>2, <1>5 DEF Jobs
<1>7. PICK place \in {"answer", "publish"} :
         Goto(w, place) /\ (place = "publish" => Tail(k.todo) = <<"publish">>)
  BY <1>2, <1>3, PlanFacts DEF Save
<1>8. /\ job' = [job EXCEPT ![w] = j] /\ registry' = k.registry
      /\ lock' = w /\ UNCHANGED <<source, zips, repo, begun, raced>>
  BY <1>1, <1>2, <1>5 DEF Save, IInv, TypeOK
<1>9. DiskTypes' /\ RegistryHolds'
  <2>1. registry' \in Registries
    BY <1>8 DEF Jobs
  <2>2. RegistryHolds'
    <3>1. ASSUME NEW b \in Addons, registry'[b] # NoEntry
          PROVE  registry'[b].public =>
                    registry'[b].last \in Versions /\ repo[<<b, registry'[b].last>>] # NoFile
      <4>1. CASE b = a
        BY <1>3, <1>8, <4>1 DEF Published
      <4>2. CASE b # a
        BY <1>3, <1>8, <3>1, <4>2 DEF IInv, RegistryHolds, Published
      <4>3. QED
        BY <4>1, <4>2
    <3>2. QED
      BY <1>8, <3>1 DEF RegistryHolds, Published
  <2>3. QED
    BY <1>8, <2>1, <2>2 DEF IInv, TypeOK, DiskTypes
<1>10. ASSUME job'[w] = j, pc'[w] = place PROVE Works(w)'
  <2>1. PlanHolds(w)'
    BY <1>6, <1>7, <1>10 DEF PlanHolds, Building
  <2>2. BuildHolds(w)' /\ PublishHolds(w)'
    BY <1>3, <1>6, <1>7, <1>8, <1>10 DEF BuildHolds, PublishHolds, Building
  <2>3. SaveHolds(w)'
    BY <1>3, <1>6, <1>7, <1>8, <1>10 DEF SaveHolds, Published
  <2>4. DeclaresHolds(w)'
    BY <1>3, <1>6, <1>7, <1>8, <1>10 DEF DeclaresHolds
  <2>5. BlindHolds(w)'
    <3>1. k.blind => k.todo = <<"register">>
      BY <1>1, <1>2 DEF BlindHolds, Works
    <3>2. Tail(<<"register">>) = <<>> /\ <<>> # <<"publish">>
      OBVIOUS
    <3>3. k.blind => place = "answer"
      BY <1>7, <3>1, <3>2
    <3>4. QED
      BY <1>6, <1>10, <3>3 DEF BlindHolds
  <2>6. QED
    BY <2>1, <2>2, <2>3, <2>4, <2>5 DEF Works
<1>11. QED
  BY <1>1, <1>7, <1>8, <1>9, <1>10, MoveKeeps DEF PCs

LEMMA BeginKeeps ==
    ASSUME IInv, NEW w \in Workers, NEW a \in Addons, NEW plan \in Plans, Begin(w, a, plan)
    PROVE  IInv'
<1>1. Others(w)
  BY ManagedAssumption DEF Begin, IInv, Exclusive, Others
<1>2. PICK j \in Jobs : j = [addon |-> a, todo |-> plan, version |-> 0,
                             built |-> 0, registry |-> registry, blind |-> FALSE]
  <2>1. 0 \in 0..MaxVersion /\ registry \in Registries /\ plan \in Todos
    BY ManagedAssumption DEF Todos, IInv, TypeOK
  <2>2. QED
    BY <2>1 DEF Jobs
<1>3. PICK place \in {"register", "build", "publish"} :
         /\ Goto(w, place)
         /\ place = "register" => plan = <<"register">>
         /\ place = "build" => plan \in Builds
         /\ place = "publish" => plan = <<"publish">>
  BY PlanFacts DEF Begin
<1>4. /\ job' = [job EXCEPT ![w] = j] /\ lock' = w
      /\ begun < MaxOperations /\ begun' = begun + 1
      /\ UNCHANGED <<source, registry, zips, repo, raced>>
  BY <1>2 DEF Begin, disk
<1>5. DiskTypes' /\ RegistryHolds'
  <2>1. begun' \in 0..MaxOperations
    BY <1>4, ManagedAssumption DEF IInv, TypeOK
  <2>2. QED
    BY <1>4, <2>1 DEF IInv, TypeOK, DiskTypes, RegistryHolds, Published
<1>6. j.addon = a /\ j.todo = plan /\ j.built = 0 /\ ~j.blind
  BY <1>2
<1>7. ASSUME job'[w] = j, pc'[w] = place PROVE Works(w)'
  <2>1. PlanHolds(w)'
    BY <1>3, <1>6, <1>7 DEF PlanHolds, Building
  <2>2. BuildHolds(w)' /\ PublishHolds(w)'
    BY <1>3, <1>6, <1>7 DEF BuildHolds, PublishHolds, Building
  <2>3. SaveHolds(w)'
    BY <1>3, <1>7 DEF SaveHolds
  <2>4. DeclaresHolds(w)'
    BY <1>3, <1>6, <1>7 DEF DeclaresHolds
  <2>5. BlindHolds(w)'
    BY <1>6, <1>7 DEF BlindHolds, Works
  <2>6. QED
    BY <2>1, <2>2, <2>3, <2>4, <2>5 DEF Works
<1>8. QED
  BY <1>1, <1>3, <1>4, <1>5, <1>7, MoveKeeps DEF PCs

(* An operation that ends leaves nobody at work. *)
LEMMA LeaveKeeps ==
    ASSUME IInv, NEW w \in Workers, pc[w] # "idle", Leave(w), DiskTypes', RegistryHolds'
    PROVE  IInv'
<1>1. Others(w) /\ lock = w
  BY AtWork
<1>2. pc' = [v \in Workers |-> "idle"]
  BY <1>1 DEF Leave, Others, IInv, TypeOK
<1>3. job' \in [Workers -> Jobs \cup {Nobody}]
  BY JobTypes DEF Leave, IInv, TypeOK, Jobs
<1>4. TypeOK'
  BY <1>1, <1>2, <1>3, JobTypes DEF Leave, TypeOK, DiskTypes, Jobs, PCs
<1>5. QED
  BY <1>2, <1>4 DEF IInv, Exclusive

LEMMA StopKeeps ==
    ASSUME IInv, NEW w \in Workers, Stop(w)
    PROVE  IInv'
<1>1. pc[w] # "idle" /\ job[w] \in Jobs /\ Works(w)
  BY AtWork DEF Stop
<1>2. PICK k \in Jobs, a \in Addons : k = job[w] /\ a = k.addon
  BY <1>1 DEF Jobs
<1>3. source' \in [Addons -> 0..MaxVersion]
  BY <1>2, ManagedAssumption DEF Stop, HalfWritten, IInv, TypeOK
<1>4. zips' \in [Names -> Zips]
  <2>1. ASSUME pc[w] = "zip" PROVE source[a] \in Versions
    BY <1>1, <1>2, <2>1 DEF Works, BuildHolds, Building, IInv, TypeOK, Versions
  <2>2. ASSUME pc[w] = "zip"
        PROVE  {Broken, [version |-> source[a], whole |-> FALSE]} \subseteq Zips
    BY <2>1, <2>2 DEF Zips
  <2>3. zips \in [Names -> Zips]
    BY DEF IInv, TypeOK
  <2>4. QED
    BY <1>2, <2>2, <2>3 DEF Stop, HalfWritten
<1>5. /\ repo' \in [Names -> Zips \ {Broken}]
      /\ \A n \in Names : repo[n] # NoFile => repo'[n] # NoFile
  <2>1. CASE repo' = repo
    BY <2>1 DEF IInv, TypeOK
  <2>2. CASE repo' # repo
    <3>1. /\ pc[w] = "replace" /\ zips[<<a, k.version>>] # Broken
          /\ repo' = [repo EXCEPT ![<<a, k.version>>] = zips[<<a, k.version>>]]
      BY <1>2, <2>2 DEF Stop, HalfWritten, NameOf
    <3>2. k.version \in Versions /\ zips[<<a, k.version>>] # NoFile
      BY <1>1, <1>2, <3>1 DEF Works, PublishHolds, NameOf
    <3>3. QED
      BY <3>1, <3>2 DEF IInv, TypeOK, Names
  <2>3. QED
    BY <2>1, <2>2
<1>6. UNCHANGED <<registry, begun, raced>>
  BY DEF Stop
<1>7. DiskTypes' /\ RegistryHolds'
  BY <1>3, <1>4, <1>5, <1>6 DEF IInv, TypeOK, DiskTypes, RegistryHolds, Published, Names
<1>8. QED
  BY <1>1, <1>7, LeaveKeeps DEF Stop

LEMMA AnswerKeeps ==
    ASSUME IInv, NEW w \in Workers, Answer(w)
    PROVE  IInv'
<1>1. UNCHANGED <<source, registry, zips, repo, begun, raced>> /\ pc[w] # "idle"
  BY DEF Answer, disk
<1>2. DiskTypes' /\ RegistryHolds'
  BY <1>1 DEF IInv, TypeOK, DiskTypes, RegistryHolds, Published
<1>3. QED
  BY <1>1, <1>2, LeaveKeeps DEF Answer

LEMMA EditKeeps ==
    ASSUME IInv, NEW a \in Addons, Edit(a)
    PROVE  IInv'
<1>1. PICK s \in Versions : source' = [source EXCEPT ![a] = s]
  BY DEF Edit
<1>2. /\ UNCHANGED <<registry, zips, repo, lock, pc, job, begun>>
      /\ raced' = (raced \/ \E w \in Workers : pc[w] # "idle" /\ job[w].addon = a)
  BY DEF Edit
<1>3. s \in 0..MaxVersion /\ s # 0
  BY DEF Versions
<1>4. /\ source' \in [Addons -> 0..MaxVersion]
      /\ \A b \in Addons : source[b] # 0 => source'[b] # 0
      /\ \A b \in Addons : b # a => source'[b] = source[b]
  BY <1>1, <1>3 DEF IInv, TypeOK
<1>5. TypeOK'
  BY <1>2, <1>4 DEF IInv, TypeOK
<1>6. Exclusive' /\ RegistryHolds'
  BY <1>2 DEF IInv, Exclusive, RegistryHolds, Published
<1>7. ASSUME NEW w \in Workers, pc'[w] # "idle" PROVE Works(w)'
  <2>1. pc[w] # "idle" /\ Works(w) /\ job[w].addon \in Addons
    BY <1>2, <1>7, AtWork
  <2>2. PlanHolds(w)' /\ PublishHolds(w)' /\ SaveHolds(w)' /\ BlindHolds(w)'
    BY <1>2, <2>1 DEF Works, PlanHolds, PublishHolds, SaveHolds, BlindHolds, Published, NameOf
  <2>3. BuildHolds(w)'
    BY <1>2, <1>4, <2>1 DEF Works, BuildHolds
  <2>4. DeclaresHolds(w)'
    BY <1>2, <1>4, <2>1 DEF Works, DeclaresHolds
  <2>5. QED
    BY <2>2, <2>3, <2>4 DEF Works
<1>8. QED
  BY <1>5, <1>6, <1>7 DEF IInv

LEMMA Step == IInv /\ [Next]_vars => IInv'
<1> SUFFICES ASSUME IInv, [Next]_vars PROVE IInv'
  OBVIOUS
<1>1. CASE UNCHANGED vars
  <2> USE <1>1 DEF vars, disk
  <2>1. TypeOK' /\ Exclusive' /\ RegistryHolds'
    BY DEF IInv, TypeOK, Exclusive, RegistryHolds, Published
  <2>2. ASSUME NEW w \in Workers, Works(w) PROVE Works(w)'
    <3>1. PlanHolds(w)' /\ BuildHolds(w)' /\ PublishHolds(w)'
      BY <2>2 DEF Works, PlanHolds, BuildHolds, PublishHolds, NameOf
    <3>2. SaveHolds(w)' /\ BlindHolds(w)' /\ DeclaresHolds(w)'
      BY <2>2 DEF Works, SaveHolds, BlindHolds, DeclaresHolds, Published
    <3>3. QED
      BY <3>1, <3>2 DEF Works
  <2>3. QED
    BY <2>1, <2>2 DEF IInv
<1>2. ASSUME NEW a \in Addons, Edit(a) PROVE IInv'
  BY <1>2, EditKeeps
<1>3. ASSUME NEW w \in Workers, NEW a \in Addons, NEW plan \in Plans, Begin(w, a, plan)
      PROVE  IInv'
  BY <1>3, BeginKeeps
<1>4. ASSUME NEW w \in Workers, NEW policy \in Policies, DetermineVersion(w, policy)
      PROVE  IInv'
  BY <1>4, DetermineVersionKeeps
<1>5. ASSUME NEW w \in Workers,
             Register(w) \/ WriteVersion(w) \/ Unlink(w) \/ Zip(w)
      PROVE  IInv'
  BY <1>5, RegisterKeeps, WriteVersionKeeps, UnlinkKeeps, ZipKeeps
<1>6. ASSUME NEW w \in Workers,
             FindBuild(w) \/ Replace(w) \/ Save(w) \/ Answer(w) \/ Stop(w)
      PROVE  IInv'
  BY <1>6, FindBuildKeeps, ReplaceKeeps, SaveKeeps, AnswerKeeps, StopKeeps
<1>7. QED
  BY <1>1, <1>2, <1>3, <1>4, <1>5, <1>6 DEF Next

LEMMA Invariance == Spec => []IInv
BY Start, Step, PTL DEF Spec

-----------------------------------------------------------------------------
(* Every variable keeps its type: what is loaded, built and saved is a     *)
(* registry, and a version that names a zip is one of the versions.        *)
THEOREM TypeCorrect == Spec => []TypeOK
<1>1. IInv => TypeOK
  BY DEF IInv
<1>2. QED
  BY <1>1, Invariance, PTL

(* managed_addon_build answers with a version only if the zip of that name *)
(* is whole and declares it, and the registry says so.                     *)
THEOREM BuildDeclares == Spec => []AnsweredBuildDeclares
<1>1. ASSUME IInv PROVE AnsweredBuildDeclares
  <2> SUFFICES ASSUME NEW w \in Workers, ~raced, pc[w] = "answer",
                      job[w].built # 0, job[w].addon \notin Headed
               PROVE  /\ zips[<<job[w].addon, job[w].built>>]
                            = [version |-> job[w].built, whole |-> TRUE]
                      /\ registry[job[w].addon].last = job[w].built
    BY DEF AnsweredBuildDeclares
  <2>1. Works(w)
    BY <1>1, AtWork
  <2>2. QED
    BY <2>1 DEF Works, SaveHolds, DeclaresHolds
<1>2. QED
  BY <1>1, Invariance, PTL

(* managed_addons.json never names a zip in the repository that is not     *)
(* there, whatever was rebuilt, refused or killed.                         *)
THEOREM PublicHolds == Spec => []PublicIsPublished
<1>1. IInv => PublicIsPublished
  BY DEF IInv, RegistryHolds, Published, PublicIsPublished
<1>2. QED
  BY <1>1, Invariance, PTL

(* managed_addon_build_publish publishes the zip it built.                 *)
THEOREM AnswerHolds == Spec => []AnswerIsPublished
<1>1. ASSUME IInv PROVE AnswerIsPublished
  <2> SUFFICES ASSUME NEW w \in Workers, pc[w] = "answer", job[w].built # 0,
                      job[w].registry[job[w].addon].public
               PROVE  /\ registry[job[w].addon] = [last |-> job[w].built, public |-> TRUE]
                      /\ repo[<<job[w].addon, job[w].built>>]
                            = zips[<<job[w].addon, job[w].built>>]
    BY DEF AnswerIsPublished
  <2>1. SaveHolds(w)
    BY <1>1, AtWork DEF Works
  <2>2. QED
    BY <2>1 DEF SaveHolds, Entries
<1>2. QED
  BY <1>1, Invariance, PTL

(* Saving the whole registry loses no update of another add-on's entry,    *)
(* unless the registration that saves it took a failed read for an empty   *)
(* registry; then the other entries are gone, not changed.                 *)
THEOREM OthersStay == Spec => EntriesOfOthersStay
<1>1. ASSUME IInv, [Next]_vars, NEW a \in Addons, registry'[a] # registry[a]
      PROVE  \E w \in Workers :
                /\ pc[w] = "save"
                /\ \/ job[w].addon = a
                   \/ job[w].blind /\ job[w].todo = <<"register">> /\ registry'[a] = NoEntry
  <2>1. PICK w \in Workers : Save(w)
    BY <1>1 DEF Next, vars, disk, Begin, DetermineVersion, Register, WriteVersion, Unlink,
                Zip, FindBuild, Replace, Answer, Stop, Edit
  <2>2. pc[w] = "save" /\ Works(w)
    BY <1>1, <2>1, AtWork DEF Save
  <2>3. CASE job[w].addon = a
    BY <2>2, <2>3
  <2>4. CASE job[w].addon # a
    <3>1. registry'[a] = IF job[w].blind THEN NoEntry ELSE registry[a]
      BY <2>1, <2>2, <2>4 DEF Save, Works, SaveHolds
    <3>2. job[w].blind
      BY <1>1, <3>1
    <3>3. job[w].todo = <<"register">>
      BY <2>2, <3>2 DEF Works, BlindHolds
    <3>4. QED
      BY <2>2, <3>1, <3>2, <3>3
  <2>5. QED
    BY <2>3, <2>4
<1>2. IInv /\ [Next]_vars =>
         [\A a \in Addons : registry'[a] # registry[a] =>
            \E w \in Workers :
               /\ pc[w] = "save"
               /\ \/ job[w].addon = a
                  \/ job[w].blind /\ job[w].todo = <<"register">> /\ registry'[a] = NoEntry]_vars
  BY <1>1
<1>3. QED
  BY <1>2, Invariance, PTL DEF Spec, EntriesOfOthersStay

=============================================================================
