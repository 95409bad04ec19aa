------------------------- MODULE ApplyWorkflowProofs -------------------------
(***************************************************************************)
(* Proofs about the apply workflows and the bridge restart, for any number *)
(* of calls, restarts, versions and outages.                               *)
(*                                                                         *)
(* What a call has learnt stays true enough to be relied on because the    *)
(* versions only move one way: Kodi installs from its catalogue, which was *)
(* copied from what is published, so installed <= catalog <= published,    *)
(* and none of the three ever falls.  A version a call has read is then at *)
(* most the one installed at any later moment.                             *)
(***************************************************************************)
EXTENDS ApplyWorkflow, TLAPS

Fields == DOMAIN Idle
Reads == Versions \cup {Unread}
Verdicts == {"open", "already_current", "bridge_unreachable", "repo_not_installed",
             "addon_not_found", "repo_not_ready"}
Statuses == Settled \cup Retryable
              \cup {"none", "failed", "repo_not_installed", "initial_install_required",
                    "installed_version_mismatch"}
RestartStates == {"idle", "between", "polling", "unconfirmed", "restarted", "no_answer",
                  "failed", "dead"}

(* The places after the one request that can install.                      *)
Sent == {"wait", "update_after", "after", "classify", "done"}

JobTypes(r) ==
    /\ DOMAIN r = Fields
    /\ r.target \in Versions /\ r.repo \in Versions
    /\ r.first \in Reads /\ r.after \in Reads
    /\ r.verdict \in Verdicts /\ r.status \in Statuses
    /\ r.blind \in BOOLEAN /\ r.ok \in BOOLEAN

(* What a call r may rely on while version v is installed.                 *)
Learnt(r, v) ==
    /\ r.first <= v /\ r.after <= v
    /\ r.verdict = "already_current" => r.target <= v
    /\ r.ok => r.target <= v
    /\ r.pc = "idle" => ~r.ok /\ r.verdict = "open"
    /\ r.pc \in {"update_refresh", "update_install"} => r.first # None
    /\ r.blind => r.first = Unread /\ r.pc \in Sent

Sound(r, v) == JobTypes(r) /\ Learnt(r, v)

World ==
    /\ published \in Versions /\ catalog \in Versions /\ installed \in Versions
    /\ installed <= catalog /\ catalog <= published
    /\ todo \subseteq {"refresh", "install"} /\ hasRepo \in BOOLEAN
    /\ enabled \in BOOLEAN /\ outage \in BOOLEAN

JobsSound ==
    /\ job = [c \in Calls |-> job[c]]
    /\ \A c \in Calls : Sound(job[c], installed)

RestartsSound ==
    /\ restart \in [Restarts -> RestartStates] /\ delayed \subseteq Restarts
    /\ disabledBy \in (Restarts \X BOOLEAN) \cup {<<>>}
    /\ DisabledOnlyByRestart

IInv == World /\ JobsSound /\ RestartsSound

-----------------------------------------------------------------------------
LEMMA VersionFacts ==
    /\ MaxVersion \in Nat \ {0} /\ None \in Versions /\ 1 \in Versions
    /\ \A v \in Versions : v \in Nat /\ v <= MaxVersion
    /\ \A v \in Reads : v \in Int /\ (v = Unread \/ v \in Versions)
    /\ Unread = -1 /\ None = 0 /\ Unread \in Reads /\ None \in Reads
BY BoundsAreNaturals DEF Versions, None, Unread, Reads

LEMMA FieldFacts ==
    Fields = {"kind", "pc", "target", "refreshed", "verdict", "action", "repo", "first",
              "blind", "errors", "success", "initial", "late", "after", "polls", "status", "ok"}
BY DEF Fields, Idle

LEMMA IdleIsSound == \A v \in Versions : Sound(Idle, v)
<1>1. SUFFICES ASSUME NEW v \in Versions PROVE Sound(Idle, v)
  OBVIOUS
<1>2. /\ Idle.pc = "idle" /\ Idle.target = None /\ Idle.repo = None /\ Idle.first = Unread
      /\ Idle.after = Unread /\ Idle.verdict = "open" /\ Idle.status = "none"
      /\ Idle.blind = FALSE /\ Idle.ok = FALSE
  BY DEF Idle
<1>3. JobTypes(Idle)
  BY <1>2, VersionFacts DEF JobTypes, Fields, Verdicts, Statuses
<1>4. QED
  BY <1>2, <1>3, VersionFacts DEF Sound, Learnt

(* Versions only rise, so what a call has learnt stays good.               *)
LEMMA LearntLasts ==
    ASSUME NEW r, NEW v \in Versions, NEW w \in Versions, v <= w, Sound(r, v)
    PROVE  Sound(r, w)
<1>1. r.first \in Reads /\ r.after \in Reads /\ r.target \in Versions
  BY DEF Sound, JobTypes
<1>2. r.first \in Int /\ r.after \in Int /\ r.target \in Int /\ v \in Int /\ w \in Int
  <2>1. \A x \in Reads : x \in Int
    BY BoundsAreNaturals DEF Versions, Unread, Reads
  <2>2. \A x \in Versions : x \in Int
    BY BoundsAreNaturals DEF Versions
  <2>3. QED
    BY <1>1, <2>1, <2>2
<1>3. QED
  BY <1>2 DEF Sound, Learnt

LEMMA InitSound == Init => IInv
<1>1. SUFFICES ASSUME Init PROVE IInv
  OBVIOUS
<1>2. World
  <2>1. published \in {None, 1} /\ catalog = published /\ installed \in {None, published}
    BY <1>1 DEF Init
  <2>2. /\ published \in Versions /\ catalog \in Versions /\ installed \in Versions
        /\ installed <= catalog /\ catalog <= published
    BY <2>1, VersionFacts
  <2>3. enabled \in BOOLEAN /\ outage \in BOOLEAN
    BY <1>1, Zenon DEF Init
  <2>4. todo \subseteq {"refresh", "install"} /\ hasRepo \in BOOLEAN
    BY <1>1 DEF Init
  <2>5. QED
    BY <2>2, <2>3, <2>4 DEF World
<1>3. JobsSound
  BY <1>1, <1>2, IdleIsSound DEF Init, JobsSound, World
<1>4. RestartsSound
  BY <1>1 DEF Init, RestartsSound, RestartStates, DisabledOnlyByRestart
<1>5. QED
  BY <1>2, <1>3, <1>4 DEF IInv

-----------------------------------------------------------------------------
(* The world moves and the calls stand still.                              *)
LEMMA WorldKeeps ==
    ASSUME IInv, World', installed <= installed', UNCHANGED <<job, enabled, restarts>>
    PROVE  IInv'
<1>1. installed \in Versions /\ installed' \in Versions
  BY DEF IInv, World
<1>2. JobsSound'
  <2>1. ASSUME NEW c \in Calls PROVE Sound(job[c], installed')
    BY <1>1, LearntLasts DEF IInv, JobsSound
  <2>2. QED
    BY <2>1 DEF IInv, JobsSound
<1>3. RestartsSound'
  BY DEF IInv, RestartsSound, DisabledOnlyByRestart, restarts
<1>4. QED
  BY <1>2, <1>3 DEF IInv

(* One call moves; of the world it may only tell Kodi something to do, or  *)
(* publish.                                                                *)
LEMMA CallKeeps ==
    ASSUME IInv, NEW c \in Calls, NEW r, Set(c, r), Sound(r, installed),
           World', UNCHANGED <<catalog, installed, bridge, restarts>>
    PROVE  IInv'
<1>1. job' = [job EXCEPT ![c] = r]
  BY DEF Set
<1>2. JobsSound'
  <2>1. ASSUME NEW d \in Calls PROVE Sound(job'[d], installed)
    BY <1>1 DEF IInv, JobsSound
  <2>2. QED
    BY <1>1, <2>1 DEF IInv, JobsSound
<1>3. RestartsSound'
  BY DEF IInv, RestartsSound, DisabledOnlyByRestart, bridge, restarts
<1>4. QED
  BY <1>2, <1>3 DEF IInv

LEMMA AskKeepsWorld == ASSUME IInv, NEW c, NEW what \in {"refresh", "install"}, AskKodi(c, what)
                       PROVE  World'
BY DEF IInv, World, AskKodi, bridge

LEMMA StillKeepsWorld == ASSUME IInv, UNCHANGED <<published, kodi, bridge>> PROVE World'
BY DEF IInv, World, kodi, bridge

LEMMA ReadIsSound == ASSUME IInv PROVE ReadVersion \in Reads /\ ReadVersion <= installed
<1>1. installed \in Versions /\ ReadVersion \in {installed, Unread}
  BY DEF IInv, World, ReadVersion
<1>2. installed <= installed /\ Unread <= installed
  BY <1>1, VersionFacts
<1>3. QED
  BY <1>1, <1>2, VersionFacts DEF Reads

LEMMA KodiKeeps ==
    ASSUME IInv, SomeonePublishes \/ KodiRefreshes \/ KodiInstalls \/ UserInstalls
                   \/ BridgeStops \/ BridgeAnswersAgain
    PROVE  IInv'
<1>1. /\ published \in Versions /\ catalog \in Versions /\ installed \in Versions
      /\ installed <= catalog /\ catalog <= published
      /\ todo \subseteq {"refresh", "install"} /\ hasRepo \in BOOLEAN
      /\ enabled \in BOOLEAN /\ outage \in BOOLEAN
      /\ MaxVersion \in Nat
  BY BoundsAreNaturals DEF IInv, World
<1>2. published \in Nat /\ catalog \in Nat /\ installed \in Nat
  BY <1>1, VersionFacts
<1>3. CASE SomeonePublishes
  <2>1. World' /\ UNCHANGED <<job, enabled, restarts, installed>>
    BY <1>1, <1>2, <1>3 DEF SomeonePublishes, World, kodi, bridge, Versions
  <2>2. QED
    BY <1>2, <2>1, WorldKeeps
<1>4. CASE KodiRefreshes
  <2>1. World' /\ UNCHANGED <<job, enabled, restarts, installed>>
    BY <1>1, <1>2, <1>4 DEF KodiRefreshes, World, bridge
  <2>2. QED
    BY <1>2, <2>1, WorldKeeps
<1>5. CASE KodiInstalls
  <2>1. World' /\ UNCHANGED <<job, enabled, restarts>> /\ installed <= installed'
    BY <1>1, <1>2, <1>5 DEF KodiInstalls, World, bridge
  <2>2. QED
    BY <2>1, WorldKeeps
<1>6. CASE UserInstalls
  <2>1. /\ UNCHANGED <<published, catalog, todo, enabled, outage, job, restarts>>
        /\ hasRepo' \in BOOLEAN
        /\ installed' = installed \/ (installed = None /\ installed' = catalog)
    BY <1>1, <1>6 DEF UserInstalls, bridge
  <2>2. installed' \in Versions /\ installed' <= catalog /\ installed <= installed'
    BY <1>1, <1>2, <2>1 DEF None
  <2>3. World'
    BY <1>1, <2>1, <2>2 DEF World
  <2>4. QED
    BY <2>1, <2>2, <2>3, WorldKeeps
<1>7. CASE BridgeStops \/ BridgeAnswersAgain
  <2>1. UNCHANGED <<published, catalog, installed, todo, hasRepo, enabled, job, restarts>>
    BY <1>7 DEF BridgeStops, BridgeAnswersAgain, kodi
  <2>2. outage' \in BOOLEAN
    BY <1>7, Zenon DEF BridgeStops, BridgeAnswersAgain
  <2>3. World'
    BY <1>1, <2>1, <2>2 DEF World
  <2>4. QED
    BY <1>2, <2>1, <2>3, WorldKeeps
<1>8. QED
  BY <1>3, <1>4, <1>5, <1>6, <1>7

(* A restart leaves the bridge disabled only in the places the invariant   *)
(* names, whatever the other restarts do meanwhile.                        *)
LEMMA RestartKeeps ==
    ASSUME IInv, NEW r \in Restarts,
           DisableBridge(r) \/ DisableArrivesLate(r) \/ EnableBridge(r)
             \/ EnableArrivesLate(r) \/ PollHealth(r) \/ RestartDies(r)
    PROVE  IInv'
<1> DEFINE Off == {"between", "unconfirmed", "failed", "dead"}
           Blamed == \E s \in Restarts : \/ disabledBy = <<s, FALSE>> /\ restart[s] \in Off
                                         \/ disabledBy = <<s, TRUE>>
<1>1. /\ restart \in [Restarts -> RestartStates] /\ enabled \in BOOLEAN
      /\ delayed \subseteq Restarts /\ disabledBy \in (Restarts \X BOOLEAN) \cup {<<>>}
      /\ ~enabled => Blamed
  BY DEF IInv, World, RestartsSound, DisabledOnlyByRestart
<1>2. UNCHANGED <<published, catalog, installed, todo, hasRepo, outage, job>>
  BY DEF DisableBridge, DisableArrivesLate, EnableBridge, EnableArrivesLate, PollHealth,
         RestartDies, kodi, bridge
<1>3. delayed' \subseteq Restarts
  BY <1>1 DEF DisableBridge, DisableArrivesLate, EnableBridge, EnableArrivesLate, PollHealth,
              RestartDies
(* What becomes of the state of the restart ...                            *)
<1>4. PICK to \in RestartStates : restart' = [restart EXCEPT ![r] = to]
  <2>1. CASE DisableArrivesLate(r) \/ EnableArrivesLate(r)
    BY <1>1, <2>1 DEF DisableArrivesLate, EnableArrivesLate
  <2>2. CASE DisableBridge(r) \/ EnableBridge(r) \/ PollHealth(r) \/ RestartDies(r)
    BY <2>2 DEF DisableBridge, EnableBridge, PollHealth, RestartDies, RestartStates
  <2>3. QED
    BY <2>1, <2>2
<1>5. restart' \in [Restarts -> RestartStates] /\ restart'[r] = to
      /\ \A s \in Restarts : s # r => restart'[s] = restart[s]
  BY <1>1, <1>4
(* ... and of the bridge.                                                  *)
<1>6. \/ enabled' = TRUE /\ disabledBy' = <<>>
      \/ enabled' = FALSE /\ disabledBy' = <<r, TRUE>>
      \/ enabled' = FALSE /\ disabledBy' = <<r, FALSE>> /\ to \in Off
      \/ UNCHANGED <<enabled, disabledBy>> /\ (restart[r] \in Off /\ ~enabled => to \in Off)
  <2>1. CASE DisableArrivesLate(r)
    <3>1. restart' = restart
      BY <2>1 DEF DisableArrivesLate
    <3>2. to = restart[r]
      BY <1>1, <1>5, <3>1
    <3>3. enabled' = FALSE /\ disabledBy' = <<r, restart[r] # "between">>
      BY <2>1 DEF DisableArrivesLate, Switch
    <3>4. CASE restart[r] = "between"
      <4>1. disabledBy' = <<r, FALSE>>
        BY <3>3, <3>4
      <4>2. QED
        BY <3>2, <3>3, <3>4, <4>1
    <3>5. CASE restart[r] # "between"
      <4>1. disabledBy' = <<r, TRUE>>
        BY <3>3, <3>5
      <4>2. QED
        BY <3>3, <4>1
    <3>6. QED
      BY <3>4, <3>5
  <2>2. CASE EnableArrivesLate(r)
    BY <2>2 DEF EnableArrivesLate, Switch
  <2>3. CASE DisableBridge(r)
    BY <1>1, <1>4, <1>5, <2>3 DEF DisableBridge, Switch
  <2>4. CASE EnableBridge(r)
    BY <1>1, <1>4, <1>5, <2>4 DEF EnableBridge, Switch
  <2>5. CASE PollHealth(r)
    BY <1>1, <1>4, <1>5, <2>5 DEF PollHealth, Reachable, bridge
  <2>6. CASE RestartDies(r)
    BY <1>1, <1>4, <1>5, <2>6 DEF RestartDies, bridge
  <2>7. QED
    BY <2>1, <2>2, <2>3, <2>4, <2>5, <2>6
<1>7. enabled' \in BOOLEAN /\ disabledBy' \in (Restarts \X BOOLEAN) \cup {<<>>}
  <2>1. enabled' \in {TRUE, FALSE, enabled}
    BY <1>6, Zenon
  <2>2. disabledBy' \in {<<>>, <<r, TRUE>>, <<r, FALSE>>, disabledBy}
    BY <1>6, Zenon
  <2>3. enabled' \in BOOLEAN
    BY <1>1, <2>1, Zenon
  <2>4. <<r, TRUE>> \in Restarts \X BOOLEAN /\ <<r, FALSE>> \in Restarts \X BOOLEAN
    <3>1. r \in Restarts /\ TRUE \in BOOLEAN /\ FALSE \in BOOLEAN
      OBVIOUS
    <3>2. QED
      BY <3>1, Zenon
  <2>5. QED
    BY <1>1, <2>2, <2>3, <2>4, Zenon
<1>8. ASSUME ~enabled'
      PROVE  \E s \in Restarts : \/ disabledBy' = <<s, FALSE>> /\ restart'[s] \in Off
                                 \/ disabledBy' = <<s, TRUE>>
  BY <1>1, <1>5, <1>6, <1>8
<1>9. World'
  BY <1>2, <1>7 DEF IInv, World
<1>10. JobsSound'
  BY <1>2 DEF IInv, JobsSound
<1>11. QED
  BY <1>3, <1>5, <1>7, <1>8, <1>9, <1>10 DEF IInv, RestartsSound, DisabledOnlyByRestart

-----------------------------------------------------------------------------
(* The steps of a call.                                                    *)
LEMMA FinishKeeps ==
    ASSUME IInv, NEW c \in Calls, NEW status \in Statuses, NEW ok \in BOOLEAN,
           Finish(c, status, ok), ok => job[c].target <= installed,
           job[c].pc \in Sent, UNCHANGED <<published, kodi, bridge, restarts>>
    PROVE  IInv'
<1> DEFINE first == IF job[c].blind THEN job[c].first ELSE Unread
           r == [Idle EXCEPT !.kind = job[c].kind, !.pc = "done", !.target = job[c].target,
                             !.first = first, !.blind = job[c].blind,
                             !.status = status, !.ok = ok]
<1>1. /\ DOMAIN r = Fields /\ r.pc = "done" /\ r.target = job[c].target
      /\ r.first = first /\ r.blind = job[c].blind /\ r.status = status /\ r.ok = ok
      /\ r.repo = None /\ r.after = Unread /\ r.verdict = "open"
  BY DEF Idle, Fields
<1>2. Set(c, r)
  BY DEF Finish, Set
<1> HIDE DEF r
<1>3. Sound(job[c], installed) /\ installed \in Versions
  BY DEF IInv, JobsSound, World
<1>4. JobTypes(r)
  BY <1>1, <1>3, VersionFacts DEF Sound, JobTypes, Verdicts
<1>5. Learnt(r, installed)
  BY <1>1, <1>3, VersionFacts DEF Sound, Learnt, Sent
<1>6. QED
  BY <1>2, <1>4, <1>5, StillKeepsWorld, CallKeeps DEF Sound, kodi

(* A step that asks Kodi for nothing new and learns what r says.           *)
LEMMA StillKeeps ==
    ASSUME IInv, NEW c \in Calls, NEW r, Set(c, r), Sound(r, installed),
           UNCHANGED <<published, kodi, bridge, restarts>>
    PROVE  IInv'
BY StillKeepsWorld, CallKeeps DEF kodi

LEMMA AskKeeps ==
    ASSUME IInv, NEW c \in Calls, NEW r, Set(c, r), Sound(r, installed),
           NEW what \in {"refresh", "install"}, AskKodi(c, what), UNCHANGED restarts
    PROVE  IInv'
BY AskKeepsWorld, CallKeeps DEF AskKodi

(* What the call it concerns is known to be.                               *)
LEMMA CallIsSound ==
    ASSUME IInv, NEW c \in Calls
    PROVE  /\ JobTypes(job[c]) /\ Learnt(job[c], installed)
           /\ installed \in Versions /\ installed \in Nat /\ 0 <= installed
           /\ published \in Versions
BY VersionFacts DEF IInv, World, JobsSound, Sound

(* A call that goes on after its update, with j as what it has learnt.     *)
LEMMA ResumeKeeps ==
    ASSUME IInv, NEW c \in Calls, NEW j, Resume(c, j), Sound(j, installed), j.pc # "idle",
           UNCHANGED <<published, kodi, bridge, restarts>>
    PROVE  IInv'
<1> DEFINE first == IF j.blind THEN j.first ELSE Unread
           managed == [j EXCEPT !.pc = "after", !.repo = None, !.success = FALSE,
                                !.initial = FALSE, !.first = first, !.after = Unread]
           staged == [j EXCEPT !.pc = "classify", !.repo = None]
<1>1. JobTypes(j) /\ Learnt(j, installed) /\ Unread <= installed
  BY CallIsSound, VersionFacts DEF Sound
<1>2. Set(c, managed) \/ Set(c, staged)
  BY <1>1, FieldFacts DEF Resume, JobTypes
<1>3. first \in Reads /\ first <= installed /\ (j.blind => first = Unread)
  BY <1>1, VersionFacts DEF JobTypes, Learnt
<1> HIDE DEF first
<1>4. Sound(managed, installed) /\ Sound(staged, installed)
  BY <1>1, <1>3, FieldFacts, VersionFacts DEF Sound, JobTypes, Learnt, Sent
<1> HIDE DEF managed, staged
<1>5. QED
  BY <1>2, <1>4, StillKeeps

LEMMA ReadRepoVersionKeeps ==
    ASSUME IInv, NEW c \in Calls, ReadRepoVersion(c), UNCHANGED restarts
    PROVE  IInv'
<1> DEFINE none == [job[c] EXCEPT !.errors = Errors(c, TRUE)]
           some == [job[c] EXCEPT !.pc = "update_before", !.repo = published]
<1>1. /\ job[c].pc = "repo_version" /\ UNCHANGED <<published, kodi, bridge>>
      /\ Resume(c, none) \/ Set(c, some)
  BY DEF ReadRepoVersion, At
<1>2. JobTypes(job[c]) /\ Learnt(job[c], installed) /\ published \in Versions
  BY CallIsSound
<1>3. Sound(none, installed) /\ none.pc # "idle" /\ Sound(some, installed)
  BY <1>1, <1>2, FieldFacts DEF Sound, JobTypes, Learnt, Sent
<1> HIDE DEF none, some
<1>4. QED
  BY <1>1, <1>3, StillKeeps, ResumeKeeps

LEMMA ReadBeforeKeeps ==
    ASSUME IInv, NEW c \in Calls, ReadBefore(c), UNCHANGED restarts
    PROVE  IInv'
<1> DEFINE none == [job[c] EXCEPT !.first = None, !.initial = TRUE]
           some == [job[c] EXCEPT !.pc = "update_refresh", !.first = ReadVersion,
                                  !.errors = Errors(c, ReadVersion = Unread)]
<1>1. /\ job[c].pc = "update_before" /\ UNCHANGED <<published, kodi, bridge>>
      /\ Resume(c, none) \/ (ReadVersion # None /\ Set(c, some))
  BY DEF ReadBefore, At
<1>2. /\ JobTypes(job[c]) /\ Learnt(job[c], installed) /\ None \in Versions
      /\ None \in Reads /\ None <= installed
  BY CallIsSound, VersionFacts
<1>3. ReadVersion \in Reads /\ ReadVersion <= installed
  BY ReadIsSound
<1>4. Sound(none, installed) /\ none.pc # "idle"
  BY <1>1, <1>2, FieldFacts DEF Sound, JobTypes, Learnt, Sent
<1>5. ReadVersion # None => Sound(some, installed)
  BY <1>1, <1>2, <1>3, FieldFacts DEF Sound, JobTypes, Learnt, Sent
<1> HIDE DEF none, some
<1>6. QED
  BY <1>1, <1>4, <1>5, StillKeeps, ResumeKeeps

LEMMA AsksKeep ==
    ASSUME IInv, NEW c \in Calls, UNCHANGED restarts,
           ExecuteUpdateAddonRepos(c) \/ RefreshDevRepoState(c)
    PROVE  IInv'
<1>1. JobTypes(job[c]) /\ Learnt(job[c], installed)
  BY CallIsSound
<1>2. CASE ExecuteUpdateAddonRepos(c)
  <2> DEFINE r == [job[c] EXCEPT !.pc = "update_install", !.errors = Errors(c, ~Reachable)]
  <2>1. job[c].pc = "update_refresh" /\ AskKodi(c, "refresh") /\ Set(c, r)
    BY <1>2 DEF ExecuteUpdateAddonRepos, At
  <2>2. Sound(r, installed)
    BY <1>1, <2>1, FieldFacts DEF Sound, JobTypes, Learnt, Sent
  <2> HIDE DEF r
  <2>3. QED
    BY <2>1, <2>2, AskKeeps
<1>3. CASE RefreshDevRepoState(c)
  <2> DEFINE r == [job[c] EXCEPT !.pc = "ready", !.refreshed = Reachable]
  <2>1. job[c].pc = "refresh" /\ AskKodi(c, "refresh") /\ Set(c, r)
    BY <1>3 DEF RefreshDevRepoState, At
  <2>2. Sound(r, installed)
    BY <1>1, <2>1, FieldFacts DEF Sound, JobTypes, Learnt, Sent
  <2> HIDE DEF r
  <2>3. QED
    BY <2>1, <2>2, AskKeeps
<1>4. QED
  BY <1>2, <1>3

(* Kodi can be without the add-on here only if the read before failed: an  *)
(* add-on that was read is still installed.                                *)
LEMMA ExecuteInstallKeeps ==
    ASSUME IInv, NEW c \in Calls, ExecuteInstallAddon(c), UNCHANGED restarts
    PROVE  IInv'
<1> DEFINE blind == Reachable /\ installed = None
           r == [job[c] EXCEPT !.pc = "wait", !.errors = Errors(c, ~Reachable), !.blind = blind]
<1>1. job[c].pc = "update_install" /\ AskKodi(c, "install") /\ Set(c, r)
  BY DEF ExecuteInstallAddon, At
<1>2. JobTypes(job[c]) /\ Learnt(job[c], installed)
  BY CallIsSound
<1>3. job[c].first \in Reads /\ job[c].first # None /\ job[c].first <= installed
  BY <1>1, <1>2 DEF JobTypes, Learnt
<1>4. blind => job[c].first = Unread
  <2>1. job[c].first = Unread \/ (job[c].first \in Nat /\ job[c].first # 0)
    BY <1>3, VersionFacts
  <2>2. blind => job[c].first <= 0
    BY <1>3 DEF None
  <2>3. QED
    BY <2>1, <2>2
<1>5. blind \in BOOLEAN
  BY DEF blind
<1> HIDE DEF blind
<1>6. Sound(r, installed)
  BY <1>1, <1>2, <1>4, <1>5, FieldFacts DEF Sound, JobTypes, Learnt, Sent
<1> HIDE DEF r
<1>7. QED
  BY <1>1, <1>6, AskKeeps

LEMMA UpdateReadsKeep ==
    ASSUME IInv, NEW c \in Calls, PollVersion(c) \/ DeadlinePasses(c) \/ ReadAfterUpdate(c),
           UNCHANGED restarts
    PROVE  IInv'
<1>1. JobTypes(job[c]) /\ Learnt(job[c], installed) /\ None \in Versions
  BY CallIsSound, VersionFacts
<1>2. CASE PollVersion(c)
  <2> DEFINE seen == [job[c] EXCEPT !.pc = "update_after", !.repo = None, !.late = FALSE,
                                    !.success = TRUE]
             over == [job[c] EXCEPT !.pc = "update_after", !.repo = None, !.late = FALSE,
                                    !.errors = Errors(c, ReadVersion = Unread)]
  <2>1. /\ job[c].pc = "wait" /\ UNCHANGED <<published, kodi, bridge>>
        /\ Set(c, seen) \/ Set(c, over) \/ UNCHANGED job
    BY <1>2 DEF PollVersion, At
  <2>2. Sound(seen, installed) /\ Sound(over, installed)
    BY <1>1, <2>1, FieldFacts DEF Sound, JobTypes, Learnt, Sent
  <2> HIDE DEF seen, over
  <2>3. ASSUME UNCHANGED job PROVE IInv'
    <3>1. UNCHANGED <<enabled, installed>> /\ World'
      BY <2>1, StillKeepsWorld DEF kodi, bridge
    <3>2. installed <= installed'
      BY <3>1, CallIsSound
    <3>3. QED
      BY <2>3, <3>1, <3>2, WorldKeeps
  <2>4. QED
    BY <2>1, <2>2, <2>3, StillKeeps
<1>3. CASE DeadlinePasses(c)
  <2> DEFINE r == [job[c] EXCEPT !.late = TRUE]
  <2>1. job[c].pc = "wait" /\ Set(c, r) /\ UNCHANGED <<published, kodi, bridge>>
    BY <1>3 DEF DeadlinePasses, At
  <2>2. Sound(r, installed)
    BY <1>1, <2>1, FieldFacts DEF Sound, JobTypes, Learnt, Sent
  <2> HIDE DEF r
  <2>3. QED
    BY <2>1, <2>2, StillKeeps
<1>4. CASE ReadAfterUpdate(c)
  <2> DEFINE r == [job[c] EXCEPT !.after = ReadVersion,
                                 !.errors = Errors(c, ReadVersion = Unread)]
  <2>1. job[c].pc = "update_after" /\ Resume(c, r) /\ UNCHANGED <<published, kodi, bridge>>
    BY <1>4 DEF ReadAfterUpdate, At
  <2>2. ReadVersion \in Reads /\ ReadVersion <= installed
    BY ReadIsSound
  <2>3. Sound(r, installed) /\ r.pc # "idle"
    BY <1>1, <2>1, <2>2, FieldFacts DEF Sound, JobTypes, Learnt, Sent
  <2> HIDE DEF r
  <2>4. QED
    BY <2>1, <2>3, ResumeKeeps
<1>5. QED
  BY <1>2, <1>3, <1>4

LEMMA StartsKeep ==
    ASSUME IInv, NEW c \in Calls, BuildPublishStage(c) \/ StageCurrentRepo(c),
           UNCHANGED restarts
    PROVE  IInv'
<1>1. /\ JobTypes(job[c]) /\ Learnt(job[c], installed) /\ job[c].pc = "idle"
      /\ None \in Versions /\ published \in Versions
  BY CallIsSound, VersionFacts DEF BuildPublishStage, StageCurrentRepo, At
<1>2. ASSUME NEW r, NEW v \in Versions, Set(c, r),
             r = [job[c] EXCEPT !.kind = "managed", !.pc = "refresh", !.target = v],
             UNCHANGED <<kodi, bridge>>, published' = v, v \in {published, published + 1}
      PROVE  IInv'
  <2>1. Sound(r, installed)
    BY <1>1, <1>2, FieldFacts DEF Sound, JobTypes, Learnt, Sent
  <2>2. catalog <= published'
    <3>1. catalog \in Nat /\ published \in Nat /\ catalog <= published
      BY VersionFacts DEF IInv, World
    <3>2. QED
      BY <1>2, <3>1
  <2>3. World'
    BY <1>2, <2>2 DEF IInv, World, kodi, bridge
  <2>4. QED
    BY <1>2, <2>1, <2>3, CallKeeps DEF kodi
<1>3. CASE BuildPublishStage(c)
  <2> DEFINE r == [job[c] EXCEPT !.kind = "managed", !.pc = "done", !.status = "failed"]
  <2>1. \/ \E v \in {published, published + 1} \cap (1 .. MaxVersion) :
              /\ published' = v
              /\ Set(c, [job[c] EXCEPT !.kind = "managed", !.pc = "refresh", !.target = v])
              /\ UNCHANGED <<kodi, bridge>>
        \/ Set(c, r) /\ UNCHANGED <<published, kodi, bridge>>
    BY <1>3 DEF BuildPublishStage
  <2>2. 1 .. MaxVersion \subseteq Versions
    BY BoundsAreNaturals DEF Versions
  <2>3. Sound(r, installed)
    BY <1>1, FieldFacts DEF Sound, JobTypes, Learnt, Sent, Statuses
  <2> HIDE DEF r
  <2>4. QED
    BY <1>2, <2>1, <2>2, <2>3, StillKeeps
<1>4. CASE StageCurrentRepo(c)
  <2>1. PICK v \in {None, published} :
           Set(c, [job[c] EXCEPT !.kind = "staged", !.pc = "repo_version", !.target = v])
    BY <1>4 DEF StageCurrentRepo
  <2> DEFINE r == [job[c] EXCEPT !.kind = "staged", !.pc = "repo_version", !.target = v]
  <2>2. Sound(r, installed)
    BY <1>1, FieldFacts DEF Sound, JobTypes, Learnt, Sent
  <2> HIDE DEF r
  <2>3. Set(c, r) /\ UNCHANGED <<published, kodi, bridge>>
    BY <1>4, <2>1 DEF StageCurrentRepo, r
  <2>4. QED
    BY <2>2, <2>3, StillKeeps
<1>5. QED
  BY <1>3, <1>4

LEMMA ChecksKeep ==
    ASSUME IInv, NEW c \in Calls, UNCHANGED restarts, CheckRepoReady(c) \/ ChooseAction(c)
    PROVE  IInv'
<1>1. JobTypes(job[c]) /\ Learnt(job[c], installed)
  BY CallIsSound
<1>2. CASE CheckRepoReady(c)
  <2>1. PICK verdict \in {"bridge_unreachable", "open", "repo_not_installed",
                          "addon_not_found"} :
           Set(c, [job[c] EXCEPT !.pc = "before", !.verdict = verdict])
    BY <1>2 DEF CheckRepoReady
  <2> DEFINE r == [job[c] EXCEPT !.pc = "before", !.verdict = verdict]
  <2>2. job[c].pc = "ready" /\ UNCHANGED <<published, kodi, bridge>> /\ Set(c, r)
    BY <1>2, <2>1 DEF CheckRepoReady, At
  <2>3. Sound(r, installed)
    BY <1>1, <2>2, FieldFacts DEF Sound, JobTypes, Learnt, Sent, Verdicts
  <2> HIDE DEF r
  <2>4. QED
    BY <2>2, <2>3, StillKeeps
<1>3. CASE ChooseAction(c)
  <2> DEFINE a == IF job[c].verdict # "open" THEN "none"
                  ELSE IF ReadVersion \in {None, Unread} THEN "install" ELSE "update"
             r == [job[c] EXCEPT !.pc = "repo_version", !.action = a]
  <2>1. job[c].pc = "action" /\ UNCHANGED <<published, kodi, bridge>> /\ Set(c, r)
    BY <1>3 DEF ChooseAction, At
  <2> HIDE DEF a
  <2>2. Sound(r, installed)
    BY <1>1, <2>1, FieldFacts DEF Sound, JobTypes, Learnt, Sent
  <2> HIDE DEF r
  <2>3. QED
    BY <2>1, <2>2, StillKeeps
<1>4. QED
  BY <1>2, <1>3

(* "already_current" is read off an installed version, which stays.        *)
LEMMA AddonBeforeKeeps ==
    ASSUME IInv, NEW c \in Calls, AddonBefore(c), UNCHANGED restarts
    PROVE  IInv'
<1> DEFINE skip == job[c].verdict \in {"repo_not_installed", "addon_not_found"}
           pc == IF skip THEN "after" ELSE "action"
           verdict == IF job[c].verdict # "open" THEN job[c].verdict
                      ELSE IF ReadVersion = Unread THEN "bridge_unreachable"
                      ELSE IF ReadVersion = job[c].target THEN "already_current"
                      ELSE IF ~job[c].refreshed THEN "repo_not_ready"
                      ELSE "open"
           r == [job[c] EXCEPT !.pc = pc, !.refreshed = FALSE, !.verdict = verdict]
<1>1. job[c].pc = "before" /\ UNCHANGED <<published, kodi, bridge>> /\ Set(c, r)
  BY DEF AddonBefore, At
<1>2. JobTypes(job[c]) /\ Learnt(job[c], installed) /\ ReadVersion <= installed
  BY CallIsSound, ReadIsSound
<1>3. pc \in {"after", "action"}
  OBVIOUS
<1>4. verdict \in Verdicts
  BY <1>2 DEF JobTypes, Verdicts
<1>5. verdict = "already_current" => job[c].target <= installed
  BY <1>2 DEF Learnt
<1> HIDE DEF pc, verdict
<1>6. Sound(r, installed)
  BY <1>1, <1>2, <1>3, <1>4, <1>5, FieldFacts DEF Sound, JobTypes, Learnt, Sent
<1> HIDE DEF r
<1>7. QED
  BY <1>1, <1>6, StillKeeps

LEMMA AddonAfterKeeps ==
    ASSUME IInv, NEW c \in Calls, AddonAfter(c), UNCHANGED restarts
    PROVE  IInv'
<1> DEFINE settled == ReadVersion = job[c].target \/ job[c].polls = SettleReads
           pc == IF settled THEN "classify" ELSE "after"
           polls == IF settled THEN 0 ELSE job[c].polls + 1
           r == [job[c] EXCEPT !.after = ReadVersion, !.polls = polls, !.pc = pc]
<1>1. job[c].pc = "after" /\ UNCHANGED <<published, kodi, bridge>> /\ Set(c, r)
  BY DEF AddonAfter, At
<1>2. /\ JobTypes(job[c]) /\ Learnt(job[c], installed)
      /\ ReadVersion \in Reads /\ ReadVersion <= installed
  BY CallIsSound, ReadIsSound
<1>3. pc \in {"after", "classify"}
  OBVIOUS
<1> HIDE DEF pc, polls
<1>4. Sound(r, installed)
  BY <1>1, <1>2, <1>3, FieldFacts DEF Sound, JobTypes, Learnt, Sent
<1> HIDE DEF r
<1>5. QED
  BY <1>1, <1>4, StillKeeps

LEMMA ClassifiesKeep ==
    ASSUME IInv, NEW c \in Calls, ClassifyManaged(c) \/ ClassifyStaged(c), UNCHANGED restarts
    PROVE  IInv'
<1>1. /\ JobTypes(job[c]) /\ Learnt(job[c], installed) /\ 0 <= installed
      /\ job[c].pc = "classify" /\ UNCHANGED <<published, kodi, bridge>>
  BY CallIsSound DEF ClassifyManaged, ClassifyStaged, At
<1>2. \E status \in Statuses, ok \in BOOLEAN :
         Finish(c, status, ok) /\ (ok => job[c].target <= installed)
  <2>1. CASE ClassifyManaged(c)
    <3> DEFINE verified == job[c].after = job[c].target
               status == IF job[c].verdict # "open" THEN job[c].verdict
                         ELSE IF verified THEN "applied"
                         ELSE IF job[c].action = "install"
                           THEN "install_attempted_not_verified"
                         ELSE "update_attempted_not_verified"
    <3>1. Finish(c, status, verified \/ status = "already_current")
      BY <2>1 DEF ClassifyManaged
    <3>2. status \in Statuses
      BY <1>1 DEF JobTypes, Verdicts, Statuses, Settled, Retryable
    <3>3. status = "already_current" => job[c].verdict = "already_current"
      OBVIOUS
    <3>4. verified \/ status = "already_current" => job[c].target <= installed
      BY <1>1, <3>3 DEF Learnt
    <3>5. (verified \/ status = "already_current") \in BOOLEAN
      OBVIOUS
    <3> HIDE DEF status, verified
    <3>6. QED
      BY <3>1, <3>2, <3>4, <3>5
  <2>2. CASE ClassifyStaged(c)
    <3> DEFINE j == job[c]
               verified == IF j.target # None THEN j.after = j.target
                           ELSE j.success /\ ~j.errors
    <3>1. Finish(c, StagedStatus(j), StagedStatus(j) \in Settled)
      BY <2>2 DEF ClassifyStaged
    <3>2. StagedStatus(j) \in Statuses
      BY DEF StagedStatus, Statuses, Settled, Retryable
    <3>3. StagedStatus(j) \in Settled => verified
      BY DEF StagedStatus, Settled
    <3>4. verified => j.target <= installed
      BY <1>1 DEF Learnt, None
    <3>5. (StagedStatus(j) \in Settled) \in BOOLEAN
      OBVIOUS
    <3>6. QED
      BY <3>1, <3>2, <3>3, <3>4, <3>5
  <2>3. QED
    BY <2>1, <2>2
<1>3. QED
  BY <1>1, <1>2, FinishKeeps DEF Sent

-----------------------------------------------------------------------------
LEMMA CallStepKeeps ==
    ASSUME IInv, NEW c \in Calls, StartCall(c) \/ CallStep(c) \/ DeadlinePasses(c)
    PROVE  IInv'
BY StartsKeep, ReadRepoVersionKeeps, ReadBeforeKeeps, AsksKeep, ExecuteInstallKeeps,
   UpdateReadsKeep, ChecksKeep, AddonBeforeKeeps, AddonAfterKeeps, ClassifiesKeep
DEF StartCall, CallStep, DeadlinePasses

LEMMA StepSound == IInv /\ [Next]_vars => IInv'
<1>1. SUFFICES ASSUME IInv, [Next]_vars PROVE IInv'
  OBVIOUS
<1>2. CASE UNCHANGED vars
  BY <1>1, <1>2, StillKeepsWorld
  DEF vars, IInv, JobsSound, RestartsSound, DisabledOnlyByRestart, kodi, bridge, restarts
<1>3. CASE SomeonePublishes \/ KodiRefreshes \/ KodiInstalls \/ UserInstalls
             \/ BridgeStops \/ BridgeAnswersAgain
  BY <1>1, <1>3, KodiKeeps
<1>4. ASSUME NEW c \in Calls, StartCall(c) \/ CallStep(c) \/ DeadlinePasses(c) PROVE IInv'
  BY <1>1, <1>4, CallStepKeeps
<1>5. ASSUME NEW r \in Restarts,
             DisableBridge(r) \/ DisableArrivesLate(r) \/ EnableBridge(r)
               \/ EnableArrivesLate(r) \/ PollHealth(r) \/ RestartDies(r)
      PROVE  IInv'
  BY <1>1, <1>5, RestartKeeps
<1>6. QED
  BY <1>1, <1>2, <1>3, <1>4, <1>5 DEF Next

LEMMA Invariant == Spec => []IInv
BY InitSound, StepSound, PTL DEF Spec

(* Every variable has its type, and a call only the fields it can have.    *)
THEOREM TypeCorrect == Spec => []TypeOK
<1>1. IInv => TypeOK
  BY DEF IInv, World, JobsSound, RestartsSound, Sound, JobTypes, TypeOK, Reads, Statuses,
         RestartStates
<1>2. QED
  BY <1>1, Invariant, PTL

(* kodi_apply.py ties ok to verification, and that is enough: the version  *)
(* an apply call answers ok for, or a later one, is installed then and ever*)
(* after, although every read it rests on is over before it answers.       *)
THEOREM OkIsInstalled == Spec => []OkMeansInstalled
<1>1. IInv => OkMeansInstalled
  BY DEF IInv, JobsSound, Sound, Learnt, OkMeansInstalled
<1>2. QED
  BY <1>1, Invariant, PTL

(* addon_ops.py asks Kodi to install only what it has read as installed:   *)
(* InstallAddon reaches a Kodi without the add-on after a failed read only.*)
THEOREM BlindInstalls == Spec => []BlindInstallFollowsFailedRead
<1>1. IInv => BlindInstallFollowsFailedRead
  BY DEF IInv, JobsSound, Sound, Learnt, BlindInstallFollowsFailedRead
<1>2. QED
  BY <1>1, Invariant, PTL

(* However many restarts overlap, a disabled bridge add-on is the work of  *)
(* the one that disabled it last: its second request is not sent or not    *)
(* confirmed, or its first one was executed late.                          *)
THEOREM DisabledByRestart == Spec => []DisabledOnlyByRestart
<1>1. IInv => DisabledOnlyByRestart
  BY DEF IInv, RestartsSound
<1>2. QED
  BY <1>1, Invariant, PTL
=============================================================================
