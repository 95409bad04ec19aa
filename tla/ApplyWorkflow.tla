--------------------------- MODULE ApplyWorkflow ---------------------------
(***************************************************************************)
(* The workflows that bring a published add-on version into Kodi:          *)
(*   "managed"  managed_addon_build_publish_stage_and_apply                *)
(*   "staged"   repo_stage_and_apply_addon                                 *)
(* and, beside them, "restart": restart_bridge_addon.  Kodi refreshes its  *)
(* catalogue and installs in its own time; the bridge add-on through which *)
(* the server sees all this can be out of reach, by an outage or because a *)
(* restart has disabled it.  Every request to Kodi is a step of its own,   *)
(* so other workflows, Kodi and the user act between any two of them.      *)
(***************************************************************************)
EXTENDS Integers, FiniteSets

CONSTANTS
    Calls,          \* calls of the two apply workflows, each made once
    Restarts,       \* calls of restart_bridge_addon, each made once
    SettleReads,    \* reads that wait for the version to settle (3 in the code)
    MaxVersion      \* bound: versions published

ASSUME BoundsAreNaturals ==
    /\ MaxVersion \in Nat \ {0}
    /\ SettleReads \in Nat

VARIABLES
    published,      \* version in dev-repo/addons.xml, 0 before the first publish
    catalog,        \* version the Kodi catalogue knows, 0 for none
    installed,      \* version installed in Kodi, 0 for none
    todo,           \* what Kodi was told to do and has not done: refresh, install
    hasRepo,        \* the repository add-on is installed in Kodi
    enabled,        \* the bridge add-on is enabled in Kodi
    outage,         \* the bridge add-on is enabled and does not answer
    job,            \* the state of each apply call
    restart,        \* how far each restart is
    delayed,        \* restarts whose first request timed out and may yet be executed
    disabledBy      \* history: whose request disabled the bridge add-on last, and
                    \* whether Kodi executed it after the restart had gone on

kodi == <<catalog, installed, todo, hasRepo>>
bridge == <<enabled, outage>>
restarts == <<restart, delayed, disabledBy>>
vars == <<published, kodi, bridge, job, restarts>>

Versions == 0 .. MaxVersion
None == 0                     \* no version: not built, not published, not asked for
Unread == -1                  \* the bridge did not answer

(* What a request through the bridge learns now.                           *)
Reachable == enabled /\ ~outage
ReadVersion == IF Reachable THEN installed ELSE Unread

(* What a call has learnt so far.  Evidence that settles the outcome of a  *)
(* managed call is kept as that outcome ("verdict"), "open" until then.    *)
Idle == [kind |-> "none", pc |-> "idle", target |-> None,
         refreshed |-> FALSE, verdict |-> "open", action |-> "none",
         repo |-> None, first |-> Unread, blind |-> FALSE,
         errors |-> FALSE, success |-> FALSE, initial |-> FALSE, late |-> FALSE,
         after |-> Unread, polls |-> 0, status |-> "none", ok |-> FALSE]

Set(c, next) == job' = [job EXCEPT ![c] = next]
Finish(c, status, ok) ==
    job' = [job EXCEPT ![c] = [Idle EXCEPT
               !.kind = job[c].kind, !.pc = "done", !.target = job[c].target,
               !.first = IF job[c].blind THEN job[c].first ELSE Unread,
               !.blind = job[c].blind,
               !.status = status, !.ok = ok]]
At(c, pc) == job[c].pc = pc

(* The errors of an update; the managed workflow does not look at them.    *)
Errors(c, failed) == job[c].kind = "staged" /\ (job[c].errors \/ failed)

Init ==
    /\ published \in {None, 1} /\ catalog = published
    /\ installed \in {None, published}
    /\ todo = {} /\ hasRepo \in BOOLEAN
    /\ enabled = TRUE /\ outage = FALSE
    /\ job = [c \in Calls |-> Idle]
    /\ restart = [r \in Restarts |-> "idle"] /\ delayed = {} /\ disabledBy = <<>>

-----------------------------------------------------------------------------
(* Kodi, its user and the network.                                         *)

SomeonePublishes ==           \* another workflow, between any two steps of this one
    /\ published < MaxVersion
    /\ published' = published + 1
    /\ UNCHANGED <<kodi, bridge, job, restarts>>

(* A refresh or an install that fails is one that Kodi never does.         *)
KodiRefreshes ==
    /\ "refresh" \in todo /\ hasRepo
    /\ todo' = todo \ {"refresh"}
    /\ catalog' = published
    /\ UNCHANGED <<published, installed, hasRepo, bridge, job, restarts>>

KodiInstalls ==
    /\ "install" \in todo /\ catalog # None
    /\ todo' = todo \ {"install"}
    /\ installed' = catalog
    /\ UNCHANGED <<published, catalog, hasRepo, bridge, job, restarts>>

UserInstalls ==               \* the one-time installations in Kodi's own interface
    /\ \/ ~hasRepo /\ hasRepo' = TRUE /\ UNCHANGED installed
       \/ hasRepo /\ installed = None /\ catalog # None
          /\ installed' = catalog /\ UNCHANGED hasRepo
    /\ UNCHANGED <<published, catalog, todo, bridge, job, restarts>>

BridgeStops ==
    /\ enabled /\ ~outage /\ outage' = TRUE
    /\ UNCHANGED <<published, kodi, enabled, job, restarts>>

BridgeAnswersAgain ==
    /\ outage /\ outage' = FALSE
    /\ UNCHANGED <<published, kodi, enabled, job, restarts>>

-----------------------------------------------------------------------------
(* update_addon and wait_for_addon_version, the part both workflows share. *)

(* The call goes on with what update_addon answers: a managed one reads    *)
(* the version again and looks at nothing of the answer.                   *)
Resume(c, j) ==
    Set(c, IF j.kind = "managed"
           THEN [j EXCEPT !.pc = "after", !.repo = None, !.success = FALSE, !.initial = FALSE,
                          !.first = IF j.blind THEN @ ELSE Unread, !.after = Unread]
           ELSE [j EXCEPT !.pc = "classify", !.repo = None])

ReadRepoVersion(c) ==
    /\ At(c, "repo_version")
    /\ IF published = None
         THEN Resume(c, [job[c] EXCEPT !.errors = Errors(c, TRUE)])
         ELSE Set(c, [job[c] EXCEPT !.pc = "update_before", !.repo = published])
    /\ UNCHANGED <<published, kodi, bridge>>

\* Mutant: an add-on that is not installed is requested like any other.
ReadBefore_Unattended(c) ==
    /\ At(c, "update_before")
    /\ Set(c, [job[c] EXCEPT !.pc = "update_refresh", !.first = ReadVersion,
               !.errors = Errors(c, ReadVersion = Unread)])
    /\ UNCHANGED <<published, kodi, bridge>>

ReadBefore(c) ==
    /\ At(c, "update_before")
    /\ IF ReadVersion = None
         THEN Resume(c, [job[c] EXCEPT !.first = None, !.initial = TRUE])
         ELSE Set(c, [job[c] EXCEPT !.pc = "update_refresh", !.first = ReadVersion,
                      !.errors = Errors(c, ReadVersion = Unread)])
    /\ UNCHANGED <<published, kodi, bridge>>

AskKodi(c, what) ==           \* execute_bridge_builtin: a failed one stops nothing
    /\ todo' = IF Reachable THEN todo \cup {what} ELSE todo
    /\ UNCHANGED <<published, catalog, installed, hasRepo, bridge>>

ExecuteUpdateAddonRepos(c) ==
    /\ At(c, "update_refresh")
    /\ AskKodi(c, "refresh")
    /\ Set(c, [job[c] EXCEPT !.pc = "update_install", !.errors = Errors(c, ~Reachable)])

ExecuteInstallAddon(c) ==
    /\ At(c, "update_install")
    /\ AskKodi(c, "install")
    /\ Set(c, [job[c] EXCEPT !.pc = "wait", !.errors = Errors(c, ~Reachable),
               !.blind = Reachable /\ installed = None])

(* The deadline of a wait passes at any time. *)
DeadlinePasses(c) ==
    /\ At(c, "wait") /\ ~job[c].late
    /\ Set(c, [job[c] EXCEPT !.late = TRUE])
    /\ UNCHANGED <<published, kodi, bridge, restarts>>

\* Mutant: a bridge that does not answer is waited for without a deadline.
PollVersion_Patient(c) ==
    /\ At(c, "wait")
    /\ ReadVersion = job[c].repo \/ (job[c].late /\ ReadVersion # Unread)
    /\ Set(c, [job[c] EXCEPT !.pc = "update_after", !.repo = None, !.late = FALSE,
               !.success = (ReadVersion = job[c].repo)])
    /\ UNCHANGED <<published, kodi, bridge>>

(* A turn of the polling loop reads the version and then looks at the      *)
(* clock: it succeeds, gives up with the error of this read, or sleeps.    *)
PollVersion(c) ==
    /\ At(c, "wait")
    /\ \/ /\ ReadVersion = job[c].repo
          /\ Set(c, [job[c] EXCEPT !.pc = "update_after", !.repo = None, !.late = FALSE,
                                   !.success = TRUE])
       \/ /\ ReadVersion # job[c].repo /\ job[c].late
          /\ Set(c, [job[c] EXCEPT !.pc = "update_after", !.repo = None, !.late = FALSE,
                                   !.errors = Errors(c, ReadVersion = Unread)])
       \/ /\ ReadVersion # job[c].repo /\ ~job[c].late
          /\ UNCHANGED job
    /\ UNCHANGED <<published, kodi, bridge>>

ReadAfterUpdate(c) ==
    /\ At(c, "update_after")
    /\ Resume(c, [job[c] EXCEPT !.after = ReadVersion, !.errors = Errors(c, ReadVersion = Unread)])
    /\ UNCHANGED <<published, kodi, bridge>>

-----------------------------------------------------------------------------
(* managed_addon_build_publish_stage_and_apply.                            *)

BuildPublishStage(c) ==       \* a new version, or use_addon_xml: the same again
    /\ At(c, "idle")
    /\ \/ \E v \in {published, published + 1} \cap (1 .. MaxVersion) :
             /\ published' = v
             /\ Set(c, [job[c] EXCEPT !.kind = "managed", !.pc = "refresh", !.target = v])
       \/ /\ Set(c, [job[c] EXCEPT !.kind = "managed", !.pc = "done", !.status = "failed"])
          /\ UNCHANGED published
    /\ UNCHANGED <<kodi, bridge>>

RefreshDevRepoState(c) ==
    /\ At(c, "refresh")
    /\ AskKodi(c, "refresh")
    /\ Set(c, [job[c] EXCEPT !.pc = "ready", !.refreshed = Reachable])

(* JSON-RPC answers beside the bridge.  An answer it fails to give counts  *)
(* as "no repository"; what its listing of available add-ons holds depends *)
(* on the Kodi build, and a build without one counts as "may be visible".  *)
CheckRepoReady(c) ==
    /\ At(c, "ready")
    /\ \E verdict \in
           IF ~Reachable THEN {"bridge_unreachable"}
           ELSE IF hasRepo THEN {"open", "repo_not_installed", "addon_not_found"}
           ELSE {"repo_not_installed"} :
          Set(c, [job[c] EXCEPT !.pc = "before", !.verdict = verdict])
    /\ UNCHANGED <<published, kodi, bridge>>

(* First match wins: what the readiness check found, then this read, then  *)
(* the refresh.  Only the readiness check can keep the apply from running. *)
AddonBefore(c) ==
    /\ At(c, "before")
    /\ LET skip == job[c].verdict \in {"repo_not_installed", "addon_not_found"}
       IN Set(c, [job[c] EXCEPT
                  !.pc = IF skip THEN "after" ELSE "action", !.refreshed = FALSE,
                  !.verdict =
                     IF job[c].verdict # "open" THEN job[c].verdict
                     ELSE IF ReadVersion = Unread THEN "bridge_unreachable"
                     ELSE IF ReadVersion = job[c].target THEN "already_current"
                     ELSE IF ~job[c].refreshed THEN "repo_not_ready"
                     ELSE "open"])
    /\ UNCHANGED <<published, kodi, bridge>>

ChooseAction(c) ==            \* kodi_install_or_update_addon reads once more
    /\ At(c, "action")
    /\ Set(c, [job[c] EXCEPT !.pc = "repo_version",
               !.action = IF job[c].verdict # "open" THEN "none"
                          ELSE IF ReadVersion \in {None, Unread} THEN "install" ELSE "update"])
    /\ UNCHANGED <<published, kodi, bridge>>

AddonAfter(c) ==              \* the read back, and some more for it to settle
    /\ At(c, "after")
    /\ LET settled == ReadVersion = job[c].target \/ job[c].polls = SettleReads
       IN Set(c, [job[c] EXCEPT !.after = ReadVersion,
                  !.polls = IF settled THEN 0 ELSE job[c].polls + 1,
                  !.pc = IF settled THEN "classify" ELSE "after"])
    /\ UNCHANGED <<published, kodi, bridge>>

\* Mutant: a dispatched request counts as an applied one.
ClassifyManaged_Dispatched(c) ==
    /\ At(c, "classify") /\ job[c].kind = "managed"
    /\ Finish(c, IF job[c].verdict # "open" THEN job[c].verdict ELSE "applied",
              job[c].verdict \in {"open", "already_current"})
    /\ UNCHANGED <<published, kodi, bridge>>

ClassifyManaged(c) ==
    /\ At(c, "classify") /\ job[c].kind = "managed"
    /\ LET verified == job[c].after = job[c].target
           status == IF job[c].verdict # "open" THEN job[c].verdict
                     ELSE IF verified THEN "applied"
                     ELSE IF job[c].action = "install" THEN "install_attempted_not_verified"
                     ELSE "update_attempted_not_verified"
       IN Finish(c, status, verified \/ status = "already_current")
    /\ UNCHANGED <<published, kodi, bridge>>

Settled == {"applied", "already_current"}
Retryable == {"bridge_unreachable", "repo_not_ready", "addon_not_found",
              "install_attempted_not_verified", "update_attempted_not_verified",
              "apply_error", "apply_not_verified"}

-----------------------------------------------------------------------------
(* repo_stage_and_apply_addon, with or without a target version.           *)

StageCurrentRepo(c) ==        \* repo_stage_current_dev_repo answers ok whatever happened
    /\ At(c, "idle")
    /\ \E target \in {None, published} :
          Set(c, [job[c] EXCEPT !.kind = "staged", !.pc = "repo_version", !.target = target])
    /\ UNCHANGED <<published, kodi, bridge>>

\* Mutant: what counts is whether the wait saw the version.
StagedStatus_ByWait(j) ==
    LET verified == j.success /\ ~j.errors
    IN IF verified
         THEN IF j.target # None /\ j.first = j.after THEN "already_current"
              ELSE "applied"
       ELSE IF j.initial THEN "initial_install_required"
       ELSE IF j.errors THEN "apply_error"
       ELSE "apply_not_verified"

StagedStatus(j) ==
    LET verified == IF j.target # None THEN j.after = j.target
                    ELSE j.success /\ ~j.errors
    IN IF verified
         THEN IF j.target # None /\ j.first = j.after THEN "already_current"
              ELSE "applied"
       ELSE IF j.target # None /\ j.after \notin {None, Unread}
         THEN "installed_version_mismatch"
       ELSE IF j.initial THEN "initial_install_required"
       ELSE IF j.errors THEN "apply_error"
       ELSE "apply_not_verified"

ClassifyStaged(c) ==
    /\ At(c, "classify") /\ job[c].kind = "staged"
    /\ LET status == StagedStatus(job[c]) IN Finish(c, status, status \in Settled)
    /\ UNCHANGED <<published, kodi, bridge>>

-----------------------------------------------------------------------------
(* restart_bridge_addon.  The two requests go over JSON-RPC.  Either can   *)
(* fail; one that timed out may have been executed, may be executed later  *)
(* or never.  The second is sent whatever became of the first.             *)

(* Kodi executes a request of r to enable or disable the bridge add-on. *)
Switch(r, on, stray) ==
    /\ enabled' = on
    /\ disabledBy' = IF on THEN <<>> ELSE <<r, stray>>

DisableBridge(r) ==
    /\ restart[r] = "idle"
    /\ restart' = [restart EXCEPT ![r] = "between"]
    /\ \/ Switch(r, FALSE, FALSE) /\ UNCHANGED delayed
       \/ UNCHANGED <<enabled, disabledBy>> /\ delayed' \in {delayed, delayed \cup {r}}
    /\ UNCHANGED <<published, kodi, outage, job>>

\* Mutant: the answer of the second request is not looked at.
EnableBridge_Unchecked(r) ==
    /\ restart[r] = "between"
    /\ restart' = [restart EXCEPT ![r] = "polling"]
    /\ Switch(r, TRUE, FALSE) \/ UNCHANGED <<enabled, disabledBy>>
    /\ UNCHANGED <<published, kodi, outage, job, delayed>>

EnableBridge(r) ==
    /\ restart[r] = "between"
    /\ \/ Switch(r, TRUE, FALSE) /\ restart' = [restart EXCEPT ![r] = "polling"]
       \/ /\ Switch(r, TRUE, FALSE) \/ UNCHANGED <<enabled, disabledBy>>
          /\ restart' = [restart EXCEPT ![r] = "unconfirmed"]
    /\ UNCHANGED <<published, kodi, outage, job, delayed>>

(* Kodi executes a request whose sender was told that it timed out.  A     *)
(* second one may come even if Kodi had executed it: it changes nothing.   *)
DisableArrivesLate(r) ==
    /\ r \in delayed
    /\ delayed' = delayed \ {r}
    /\ Switch(r, FALSE, restart[r] # "between")
    /\ UNCHANGED <<published, kodi, outage, job, restart>>

EnableArrivesLate(r) ==
    /\ restart[r] \in {"unconfirmed", "failed", "restarted"}
    /\ Switch(r, TRUE, FALSE)
    /\ UNCHANGED <<published, kodi, outage, job, restart, delayed>>

(* The turn that ends the health loop: the bridge answers, or it does not  *)
(* and the deadline has passed.  The turns before it change nothing.       *)
PollHealth(r) ==
    /\ restart[r] \in {"polling", "unconfirmed"}
    /\ restart' = [restart EXCEPT ![r] =
          IF Reachable THEN "restarted"
          ELSE IF restart[r] = "polling" THEN "no_answer" ELSE "failed"]
    /\ UNCHANGED <<published, kodi, bridge, job, delayed, disabledBy>>

(* The server dies, or the call is cancelled, between the two requests.    *)
RestartDies(r) ==
    /\ restart[r] = "between"
    /\ restart' = [restart EXCEPT ![r] = "dead"]
    /\ UNCHANGED <<published, kodi, bridge, job, delayed, disabledBy>>

-----------------------------------------------------------------------------
CallStep(c) ==
    /\ \/ ReadRepoVersion(c) \/ ReadBefore(c)
       \/ ExecuteUpdateAddonRepos(c) \/ ExecuteInstallAddon(c)
       \/ PollVersion(c) \/ ReadAfterUpdate(c)
       \/ RefreshDevRepoState(c) \/ CheckRepoReady(c) \/ AddonBefore(c)
       \/ ChooseAction(c) \/ AddonAfter(c) \/ ClassifyManaged(c)
       \/ ClassifyStaged(c)
    /\ UNCHANGED restarts

StartCall(c) == (BuildPublishStage(c) \/ StageCurrentRepo(c)) /\ UNCHANGED restarts

Next ==
    \/ SomeonePublishes \/ KodiRefreshes \/ KodiInstalls \/ UserInstalls
    \/ BridgeStops \/ BridgeAnswersAgain
    \/ \E c \in Calls : StartCall(c) \/ CallStep(c) \/ DeadlinePasses(c)
    \/ \E r \in Restarts :
          \/ DisableBridge(r) \/ DisableArrivesLate(r)
          \/ EnableBridge(r) \/ EnableArrivesLate(r)
          \/ PollHealth(r) \/ RestartDies(r)

Spec == Init /\ [][Next]_vars

(* The event loop runs every call on, and its clock passes every deadline; *)
(* of Kodi, its user and the bridge nothing is assumed.                    *)
Fairness ==
    /\ \A c \in Calls : WF_vars(CallStep(c)) /\ WF_vars(DeadlinePasses(c))
    /\ \A r \in Restarts : WF_vars(EnableBridge(r)) /\ WF_vars(PollHealth(r))
FairSpec == Spec /\ Fairness

-----------------------------------------------------------------------------
TypeOK ==
    /\ {published, catalog, installed} \subseteq Versions
    /\ todo \subseteq {"refresh", "install"} /\ hasRepo \in BOOLEAN
    /\ enabled \in BOOLEAN /\ outage \in BOOLEAN
    /\ restart \in [Restarts -> {"idle", "between", "polling", "unconfirmed", "restarted",
                                 "no_answer", "failed", "dead"}]
    /\ delayed \subseteq Restarts
    /\ disabledBy \in (Restarts \X BOOLEAN) \cup {<<>>}
    /\ \A c \in Calls :
          /\ {job[c].target, job[c].repo} \subseteq Versions
          /\ {job[c].first, job[c].after} \subseteq Versions \cup {Unread}
          /\ job[c].status \in Settled \cup Retryable
               \cup {"none", "failed", "repo_not_installed", "initial_install_required",
                     "installed_version_mismatch"}

(* A call that answers ok for a version answers it of a version Kodi has   *)
(* really installed, whatever was published, refreshed or restarted while  *)
(* the call ran (kodi_apply.py: "Overall ok is tied to verification").     *)
OkMeansInstalled ==
    \A c \in Calls : job[c].ok => job[c].target <= installed

(* InstallAddon reaches a Kodi without the add-on only after a read that   *)
(* failed: "the initial install must be user-driven" (addon_ops.py) holds  *)
(* as long as the bridge answers.                                          *)
BlindInstallFollowsFailedRead ==
    \A c \in Calls : job[c].blind => job[c].first = Unread

(* However many restarts overlap, the bridge add-on stays disabled only    *)
(* because of the restart that disabled it last: it has not sent its       *)
(* second request, died before it or has no confirmation of it -- or its   *)
(* first one timed out, and Kodi executed it after the second.             *)
DisabledOnlyByRestart ==
    ~enabled => \E r \in Restarts :
                   \/ /\ disabledBy = <<r, FALSE>>
                      /\ restart[r] \in {"between", "unconfirmed", "failed", "dead"}
                   \/ disabledBy = <<r, TRUE>>

(* A wait that gave up does not decide a call for a version: when the      *)
(* deadline passed before the answer that shows it, or while the bridge    *)
(* was away, and Kodi has the version after all, the reads that follow     *)
(* make the call ok, unless the bridge goes away or Kodi gets a newer one. *)
LateInstallCounts ==
    \A c \in Calls :
       At(c, "update_after") /\ job[c].target # None /\ installed = job[c].target /\ Reachable
          ~> job[c].ok \/ ~Reachable \/ installed # job[c].target

(* Whatever Kodi does or fails to do, every call ends.                     *)
CallsEnd ==
    /\ \A c \in Calls : ~At(c, "idle") ~> At(c, "done")
    /\ \A r \in Restarts : restart[r] # "idle" ~>
                             restart[r] \in {"restarted", "no_answer", "failed", "dead"}
=============================================================================
