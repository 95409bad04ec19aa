----------------------------- MODULE KodiBridge -----------------------------
(***************************************************************************)
(* The bridge add-on service.kodi_mcp and the Kodi it runs in, as far as   *)
(* the server, the deployment script and the bootstrap route use them:     *)
(* what is installed and what runs, the registration of the server with    *)
(* its time to live, the staged repository zip, and two Kodi settings.     *)
(* All of it is external, modelled from how the code uses it.              *)
(*                                                                         *)
(* A build is what a zip declares of its source (version, git commit and   *)
(* fingerprint) and what it contains; revision 1 is an earlier release,    *)
(* the later ones are edits of the present one; 0 stands for no build.     *)
(***************************************************************************)
EXTENDS Naturals, FiniteSets

CONSTANTS
    Revisions,   \* the revisions of the add-on source, numbers
    TTLs,        \* what the add-on may apply as time to live
    Zips,        \* what may be staged at first: "none", "unusable", "usable"
    MaxFaults    \* bound: outages, failing requests and slow answers

ASSUME BridgeAssumption ==
    /\ Revisions \subseteq Nat \ {0} /\ 1 \in Revisions
    /\ TTLs \subseteq Nat \ {0}
    /\ Zips \subseteq {"none", "unusable", "usable"}
    /\ MaxFaults \in Nat

VARIABLES
    bridge,     \* the add-on
    settings,   \* Kodi's settings the deployment touches: unknown sources, hidden files
    faults      \* faults so far

bridgeVars == <<bridge, settings, faults>>

Builds == [claims : Revisions, content : Revisions]
NoBuild == [claims |-> 0, content |-> 0]
Release == [claims |-> 1, content |-> 1]
Version(build) == IF build.claims <= 1 THEN build.claims ELSE 2

\* calm: nothing has disturbed the bridge since it last accepted a registration.
InitBridge ==
    /\ \E installed \in {NoBuild, Release}, ttl \in TTLs, zip \in Zips, accepts \in BOOLEAN :
          bridge = [installed |-> installed, running |-> installed, up |-> installed # NoBuild,
                    accepts |-> accepts, registered |-> FALSE, left |-> 0, ttl |-> ttl, calm |-> FALSE,
                    zip |-> zip, uploaded |-> NoBuild]
    /\ settings \in [unknown : BOOLEAN, hidden : BOOLEAN]
    /\ faults = 0

Fault == faults < MaxFaults /\ faults' = faults + 1

\* The service of the installed build replaces the running one.
InstallTakesEffect ==
    /\ bridge.running # bridge.installed
    /\ bridge' = [bridge EXCEPT !.running = bridge.installed, !.up = FALSE, !.registered = FALSE, !.calm = FALSE]
    /\ UNCHANGED <<settings, faults>>

BridgeStarts ==
    /\ ~bridge.up /\ bridge.running # NoBuild
    /\ bridge' = [bridge EXCEPT !.up = TRUE]
    /\ UNCHANGED <<settings, faults>>

\* An outage, with or without the registration surviving it.
BridgeStops ==
    /\ bridge.up /\ Fault
    /\ \E kept \in BOOLEAN :
          bridge' = [bridge EXCEPT !.up = FALSE, !.registered = @ /\ kept, !.calm = FALSE]
    /\ UNCHANGED settings

UserSetsToken ==
    /\ bridge.running # NoBuild /\ ~bridge.accepts
    /\ bridge' = [bridge EXCEPT !.accepts = TRUE]
    /\ UNCHANGED <<settings, faults>>

Install(build) == bridge' = [bridge EXCEPT !.installed = build]

BridgeEnvironment == InstallTakesEffect \/ BridgeStarts \/ BridgeStops \/ UserSetsToken

\* Kodi starts the service it installed; nothing else of the environment must happen.
BridgeFairness == WF_bridgeVars(InstallTakesEffect) /\ WF_bridgeVars(BridgeStarts)
=============================================================================
