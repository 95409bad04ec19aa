-------------------------- MODULE BridgeDeployment --------------------------
(***************************************************************************)
(* The scripts that build the bridge add-on from its source and deploy it  *)
(* (scripts/deploy_current_bridge.py over bridge_deployment.py) or pin it  *)
(* as the first-install bundle (scripts/prepare_bridge_bootstrap.py over   *)
(* bridge_bootstrap.py), the route that serves the bundle, and the user    *)
(* who installs what it served. One developer runs one script at a time.   *)
(***************************************************************************)
EXTENDS KodiBridge

CONSTANTS
    Attempts,      \* probes after an installation (45)
    MaxScripts,    \* bound: runs of a script
    MaxDownloads   \* bound: requests for the bundle

VARIABLES
    source,     \* the revision in the working tree
    artifact,   \* the zip of the build, at one path for one version
    manifest,   \* the sidecar that pins the bundle
    script,     \* the script that runs, or the outcome of the last one
    download    \* the request for the bundle that is served, or its outcome

filesVars == <<source, artifact, manifest, download>>

Partial == [claims |-> 0, content |-> 1]    \* a zip that is being written
NoManifest == [claims |-> 0, digest |-> NoBuild]
Unseen == [running |-> NoBuild, version |-> 0, kodi |-> FALSE, gui |-> FALSE]
NoScript == [kind |-> "none", at |-> "idle", phase |-> "before", build |-> NoBuild, seen |-> Unseen, probes |-> 0,
             before |-> [unknown |-> TRUE, hidden |-> TRUE], failing |-> FALSE, result |-> "none",
             touched |-> FALSE, unrestored |-> FALSE, late |-> {}, mixed |-> FALSE, others |-> FALSE, runs |-> 0]
NoDownload == [at |-> "idle", manifest |-> NoManifest, served |-> NoBuild, requests |-> 0]

DeploymentInit ==
    /\ InitBridge
    /\ source = 2
    /\ artifact = NoBuild /\ manifest = NoManifest
    /\ script = NoScript /\ download = NoDownload

ScriptAt(place) == script.at = place
ScriptGoesTo(place) == script' = [script EXCEPT !.at = place]
End(s, result) == [s EXCEPT !.at = "idle", !.result = result]
Fails == script' = End(script, "failed")

EditSource ==
    /\ \E revision \in Revisions \ {1, source} : revision > source /\ source' = revision
    /\ UNCHANGED <<artifact, manifest, script, download, bridge, settings, faults>>

----------------------------------------------------------------------------
(* prepare_build: fingerprint, copy, zip. An edit may come in between.     *)

\* late: requests of this and earlier runs that timed out on their way to Kodi.
\* mixed: some build was made from a source edited while it was made.
\* others: someone else's installation may take effect during the run.
Begin(kind) ==
    /\ ScriptAt("idle") /\ script.runs < MaxScripts
    /\ script' = [NoScript EXCEPT !.kind = kind, !.at = "fingerprint", !.runs = script.runs + 1, !.late = script.late,
                                  !.mixed = script.mixed, !.others = bridge.running # bridge.installed]
    /\ UNCHANGED <<filesVars, bridgeVars>>

Fingerprint ==
    /\ ScriptAt("fingerprint")
    /\ script' = [script EXCEPT !.at = "copy", !.build.claims = source]
    /\ UNCHANGED <<filesVars, bridgeVars>>

CopySource ==
    /\ ScriptAt("copy")
    /\ script' = [script EXCEPT !.at = "zip", !.build.content = source, !.mixed = @ \/ source # script.build.claims]
    /\ UNCHANGED <<filesVars, bridgeVars>>

BuildAddonZip ==
    /\ ScriptAt("zip")
    /\ artifact' = Partial
    /\ ScriptGoesTo("zipped")
    /\ UNCHANGED <<source, manifest, download, bridgeVars>>

ZipWritten ==
    /\ ScriptAt("zipped")
    /\ artifact' = script.build
    /\ ScriptGoesTo(IF script.kind = "deploy" THEN "status" ELSE "manifest")
    /\ UNCHANGED <<source, manifest, download, bridgeVars>>

\* write_bootstrap_manifest validates a temporary file and renames it.
WriteBootstrapManifest ==
    /\ ScriptAt("manifest")
    /\ manifest' = [claims |-> script.build.claims, digest |-> artifact]
    /\ script' = End(script, "ok")
    /\ UNCHANGED <<source, artifact, download, bridgeVars>>

----------------------------------------------------------------------------
(* _probe_direct: the bridge's status, Kodi's metadata and ping, the GUI.  *)
(* The four answers are of different moments.                              *)

BridgeAnswers == bridge.up /\ bridge.accepts
AskingFails == (~BridgeAnswers /\ UNCHANGED faults) \/ (BridgeAnswers /\ Fault)

ProbeStatus ==
    /\ ScriptAt("status")
    /\ \/ script' = [script EXCEPT !.at = "details", !.probes = @ + 1,
                                   !.seen.running = IF BridgeAnswers THEN bridge.running ELSE NoBuild]
          /\ UNCHANGED faults
       \/ BridgeAnswers /\ Fault
          /\ script' = [script EXCEPT !.at = "details", !.probes = @ + 1, !.seen.running = NoBuild]
    /\ UNCHANGED <<filesVars, bridge, settings>>

ProbeKodi ==
    /\ ScriptAt("details")
    /\ \/ script' = [script EXCEPT !.at = "gui", !.seen.version = Version(bridge.installed), !.seen.kodi = TRUE]
          /\ UNCHANGED faults
       \/ Fault
          /\ script' = [script EXCEPT !.at = "gui", !.seen.version = 0, !.seen.kodi = FALSE]
    /\ UNCHANGED <<filesVars, bridge, settings>>

\* Mutant: the versions are compared and the fingerprint is not.
Matches_VersionOnly(seen) ==
    /\ Version(seen.running) = Version(script.build) /\ seen.version = Version(script.build)
    /\ seen.kodi /\ seen.gui

\* verify_expected_bridge: both versions, the fingerprint and the three health flags.
Matches(seen) ==
    /\ seen.running.claims = script.build.claims /\ seen.version = Version(script.build)
    /\ seen.kodi /\ seen.gui

\* deploy_expected_bridge and the acceptance after it decide on an observation.
Decide(seen) ==
    script' =
        IF script.phase = "accept" THEN End(script, IF Matches(seen) THEN "ok" ELSE "failed")
        ELSE IF Matches(seen) THEN [script EXCEPT !.at = "home", !.seen = Unseen]
        ELSE IF script.phase = "before" THEN [script EXCEPT !.at = "upload", !.seen = Unseen]
        ELSE IF script.probes < Attempts THEN [script EXCEPT !.at = "status", !.seen = Unseen]
        ELSE End(script, "failed")

ProbeGui ==
    /\ ScriptAt("gui")
    /\ \/ Decide([script.seen EXCEPT !.gui = BridgeAnswers]) /\ UNCHANGED faults
       \/ BridgeAnswers /\ Fault /\ Decide(script.seen)
    /\ UNCHANGED <<filesVars, bridge, settings>>

\* Kodi is brought back to its home window, then the tools of the server are asked.
GuiHome ==
    /\ ScriptAt("home")
    /\ \/ BridgeAnswers /\ script' = [script EXCEPT !.at = "status", !.phase = "accept"] /\ UNCHANGED faults
       \/ AskingFails /\ Fails
    /\ UNCHANGED <<filesVars, bridge, settings>>

----------------------------------------------------------------------------
(* _install_uploaded_zip: upload, open the settings, browse, restore.      *)

Upload == bridge' = [bridge EXCEPT !.uploaded = artifact]

UploadBridgeZip ==
    /\ ScriptAt("upload")
    /\ \/ BridgeAnswers /\ Upload /\ ScriptGoesTo("settings") /\ UNCHANGED faults
       \/ BridgeAnswers /\ Fault /\ Upload /\ Fails
       \/ AskingFails /\ Fails /\ UNCHANGED bridge
    /\ UNCHANGED <<filesVars, settings>>

ReadSettings ==
    /\ ScriptAt("settings")
    /\ \/ script' = [script EXCEPT !.at = "allowUnknown", !.before = settings, !.touched = TRUE] /\ UNCHANGED faults
       \/ Fault /\ Fails
    /\ UNCHANGED <<filesVars, bridge, settings>>

Written(name, value) == [settings EXCEPT ![name] = value]

\* A request of this run that is given up by its timeout, still on its way.
OnItsWay(s, request) == [s EXCEPT !.late = @ \cup {[run |-> s.runs, request |-> request]}]
Write(name, value) == [name |-> name, value |-> value]
Selection == Write("zip", TRUE)

\* _set_bool_setting writes and reads back; either may raise, after the write
\* took place, without it, or while it is still on its way.
SetBoolSetting(name, value, next, raised) ==
    \/ settings' = Written(name, value) /\ script' = next /\ UNCHANGED faults
    \/ settings' \in {settings, Written(name, value)} /\ script' = raised /\ Fault
    \/ UNCHANGED settings /\ script' = OnItsWay(raised, Write(name, value)) /\ Fault

Restoring == [script EXCEPT !.at = "restoreHidden"]

Failing == [Restoring EXCEPT !.failing = TRUE]

\* Kodi asks its user to confirm this one; the bridge is polled to accept.
AllowUnknownSources ==
    /\ ScriptAt("allowUnknown")
    /\ LET next == [script EXCEPT !.at = "showHidden"] IN
       IF script.before.unknown THEN script' = next /\ UNCHANGED <<settings, faults>>
       ELSE BridgeAnswers /\ SetBoolSetting("unknown", TRUE, next, Failing)
    /\ UNCHANGED <<filesVars, bridge>>

\* A failing poll raises while Kodi is still asking ...
PollFails ==
    /\ ScriptAt("allowUnknown") /\ ~script.before.unknown
    /\ AskingFails
    /\ script' = OnItsWay(Failing, Write("unknown", TRUE))
    /\ UNCHANGED <<filesVars, bridge, settings>>

\* The restore of a setting that was off is still to come.
ToRestore(name) ==
    /\ ~script.before[name]
    /\ \/ script.at \in {"allowUnknown", "showHidden", "browse", "restoreHidden"}
       \/ name = "unknown" /\ script.at = "restoreUnknown"

\* ... and the user may confirm, or Kodi execute what timed out, at any later
\* time, also after the restore.
LateWrite ==
    \E w \in script.late :
        LET name == w.request.name  value == w.request.value IN
        /\ name \in DOMAIN settings
        /\ settings' = Written(name, value)
        /\ script' = [script EXCEPT !.late = @ \ {w},
                        !.unrestored = @ \/ (script.touched /\ value # script.before[name] /\ ~ToRestore(name))]
        /\ UNCHANGED <<filesVars, bridge, faults>>

\* Mutant: a failure here leaves at once, without restoring.
ShowHidden_Leaves ==
    /\ ScriptAt("showHidden")
    /\ LET next == [script EXCEPT !.at = "browse"] IN
       IF script.before.hidden THEN script' = next /\ UNCHANGED <<settings, faults>>
       ELSE SetBoolSetting("hidden", TRUE, next, End(script, "failed"))
    /\ UNCHANGED <<filesVars, bridge>>

ShowHidden ==
    /\ ScriptAt("showHidden")
    /\ LET next == [script EXCEPT !.at = "browse"] IN
       IF script.before.hidden THEN script' = next /\ UNCHANGED <<settings, faults>>
       ELSE SetBoolSetting("hidden", TRUE, next, Failing)
    /\ UNCHANGED <<filesVars, bridge>>

\* Selecting the uploaded zip makes Kodi install it.  A selection that Kodi
\* does not act on looks the same; browsing needs the bridge at each step, and
\* any of them may raise: before the selection, after it or while it is on its way.
BrowseToZip ==
    /\ ScriptAt("browse")
    /\ \/ BridgeAnswers /\ Install(bridge.uploaded) /\ script' = Restoring /\ UNCHANGED faults
       \/ BridgeAnswers /\ Fault /\ script' = Restoring /\ UNCHANGED bridge
       \/ BridgeAnswers /\ Fault /\ script' = Failing /\ Install(bridge.uploaded)
       \/ BridgeAnswers /\ Fault /\ script' = OnItsWay(Failing, Selection) /\ UNCHANGED bridge
       \/ AskingFails /\ script' = Failing /\ UNCHANGED bridge
    /\ UNCHANGED <<filesVars, settings>>

\* A late selection installs what is uploaded then, for no run that still counts on it.
LateSelection ==
    \E w \in script.late :
        /\ w.request = Selection /\ BridgeAnswers
        /\ Install(bridge.uploaded)
        /\ script' = [script EXCEPT !.late = @ \ {w}, !.others = TRUE]
        /\ UNCHANGED <<filesVars, settings, faults>>

\* A restore that raises replaces whatever happened and skips the next one.
Unrestored == [End(script, "failed") EXCEPT !.unrestored = TRUE]

RestoreHidden ==
    /\ ScriptAt("restoreHidden")
    /\ LET next == [script EXCEPT !.at = "restoreUnknown"] IN
       IF script.before.hidden THEN script' = next /\ UNCHANGED <<settings, faults>>
       ELSE SetBoolSetting("hidden", FALSE, next, Unrestored)
    /\ UNCHANGED <<filesVars, bridge>>

RestoreUnknown ==
    /\ ScriptAt("restoreUnknown")
    /\ LET next == IF script.failing THEN End(script, "failed")
                   ELSE [script EXCEPT !.at = "status", !.phase = "after", !.probes = 0] IN
       IF script.before.unknown THEN script' = next /\ UNCHANGED <<settings, faults>>
       ELSE SetBoolSetting("unknown", FALSE, next, Unrestored)
    /\ UNCHANGED <<filesVars, bridge>>

\* The script is killed: what it wrote and set stays.
ScriptDies ==
    /\ ~ScriptAt("idle") /\ Fault
    /\ script' = End(script, "died")
    /\ UNCHANGED <<filesVars, bridge, settings>>

----------------------------------------------------------------------------
(* The bootstrap route: load_bootstrap_bundle reads the manifest, then the *)
(* bytes of the artifact, and serves those bytes if they are the pinned    *)
(* ones. Its user may install them by hand.                                *)

ReadManifest ==
    /\ download.at = "idle" /\ download.requests < MaxDownloads
    /\ download' = [NoDownload EXCEPT !.at = IF manifest = NoManifest THEN "idle" ELSE "artifact",
                                      !.manifest = manifest, !.requests = download.requests + 1]
    /\ UNCHANGED <<source, artifact, manifest, script, bridgeVars>>

Pinned(zip) == zip = download.manifest.digest /\ zip.claims = download.manifest.claims

ServeBundle ==
    /\ download.at = "artifact"
    /\ download' = [download EXCEPT !.at = "idle", !.served = IF Pinned(artifact) THEN artifact ELSE NoBuild]
    /\ UNCHANGED <<source, artifact, manifest, script, bridgeVars>>

UserInstalls ==
    /\ download.at = "idle" /\ download.served # NoBuild
    /\ Install(download.served)
    /\ download' = [download EXCEPT !.served = NoBuild]
    /\ script' = [script EXCEPT !.others = TRUE]
    /\ UNCHANGED <<source, artifact, manifest, settings, faults>>

Deploy ==
    \/ ProbeStatus \/ ProbeKodi \/ ProbeGui \/ GuiHome
    \/ UploadBridgeZip \/ ReadSettings \/ AllowUnknownSources \/ PollFails \/ ShowHidden
    \/ BrowseToZip \/ LateWrite \/ LateSelection
    \/ RestoreHidden \/ RestoreUnknown

Prepare == Fingerprint \/ CopySource \/ BuildAddonZip \/ ZipWritten \/ WriteBootstrapManifest

DeploymentStep ==
    \/ \E kind \in {"deploy", "prepare"} : Begin(kind)
    \/ Prepare \/ Deploy \/ ScriptDies
    \/ EditSource
    \/ ReadManifest \/ ServeBundle \/ UserInstalls

deploymentVars == <<source, artifact, manifest, script, download, bridge, settings, faults>>

DeploymentNext == DeploymentStep \/ (BridgeEnvironment /\ UNCHANGED <<filesVars, script>>)
DeploymentSpec == DeploymentInit /\ [][DeploymentNext]_deploymentVars

----------------------------------------------------------------------------
(* Properties.                                                             *)

\* A deployment that ends well leaves the build it made installed and running,
\* unless another installation came in meanwhile: neither a build of the same
\* version nor the service that was not yet replaced passes for it
\* (verify_expected_bridge over probes that are not atomic).  What is compared is
\* the fingerprint: it stands for the content as long as no build was made from a
\* source edited between the fingerprint and the copy (prepare_build).
OkMeansDeployed ==
    script.kind = "deploy" /\ script.result = "ok" /\ ~script.others
        => /\ {bridge.running.claims, bridge.installed.claims} = {script.build.claims}
           /\ ~script.mixed => {bridge.running, bridge.installed} = {script.build}

\* Whatever fails during an installation, the two Kodi settings come back as
\* they were, unless the restore itself fails, the script is killed, or a write
\* that timed out (or that Kodi's user had still to confirm) is executed when
\* its restore is over.
SettingsComeBack ==
    script.touched /\ script.result \in {"ok", "failed"} /\ ~script.unrestored => settings = script.before
=============================================================================
