-------------------------- MODULE RegistrationLoop --------------------------
(***************************************************************************)
(* _addon_registration_loop of src/kodi_mcp_server/http_app.py: a task of  *)
(* the HTTP server that registers the server with the bridge add-on, keeps *)
(* the registration fresh, and stages the repository add-on when the       *)
(* add-on has no zip at all.                                               *)
(*                                                                         *)
(* Time is counted in ticks. A request is answered within the tick unless  *)
(* a fault makes it slow; whatever is counted down waits for Tick.         *)
(***************************************************************************)
EXTENDS KodiBridge, FiniteSetsExt

CONSTANTS
    UnhealthyRetry,   \* sleep after an unhealthy round (5 s)
    IntervalFloor,    \* least sleep after a healthy one (10 s)
    IntervalCap,      \* longest sleep after a healthy one (30 s)
    StageRetry,       \* least time between two stagings (60 s)
    StageRetryMax     \* longest such time (300 s)

ASSUME LoopAssumption ==
    /\ {UnhealthyRetry, IntervalFloor, IntervalCap, StageRetry, StageRetryMax} \subseteq Nat \ {0}
    /\ IntervalFloor <= IntervalCap /\ StageRetry <= StageRetryMax

\* gap: the time since this loop last began to stage, as far as it matters.
VARIABLE loop

NewLoop == [at |-> "register", healthy |-> FALSE, ttl |-> 0, needs |-> FALSE, sleep |-> 0,
            retry |-> StageRetry, wait |-> 0, took |-> 0, gap |-> StageRetry]

LoopAt(place) == loop.at = place

\* Mutant: the sleep is the whole time to live.
Interval_Whole(healthy, ttl, needs) ==
    LET fresh == Max({IntervalFloor, Min({IntervalCap, ttl})}) IN
    IF ~healthy THEN UnhealthyRetry ELSE IF needs THEN Min({fresh, IntervalFloor}) ELSE fresh

\* Half the applied time to live between floor and cap, sooner while a zip is wanted.
Interval(healthy, ttl, needs) ==
    LET fresh == Max({IntervalFloor, Min({IntervalCap, ttl \div 2})}) IN
    IF ~healthy THEN UnhealthyRetry ELSE IF needs THEN Min({fresh, IntervalFloor}) ELSE fresh

Sleep(round) == loop' = [round EXCEPT !.at = "sleep", !.sleep = Interval(round.healthy, round.ttl, round.needs)]

\* Mutant: a failing round ends the task.
Unhealthy_Ends == loop' = [loop EXCEPT !.at = "ended"]

Unhealthy == Sleep([loop EXCEPT !.healthy = FALSE, !.needs = FALSE])

----------------------------------------------------------------------------
(* Register, then read the add-on's own view of the registration.          *)

Registered == [bridge EXCEPT !.registered = TRUE, !.left = bridge.ttl, !.calm = TRUE]

RegisterWithAddon ==
    /\ LoopAt("register") /\ bridge.up
    /\ IF bridge.accepts
       THEN bridge' = Registered /\ loop' = [loop EXCEPT !.at = "state"]
       ELSE Unhealthy /\ UNCHANGED bridge
    /\ UNCHANGED <<settings, faults>>

\* The answer of a registration that took place is lost.
RegisterAnswerLost ==
    /\ LoopAt("register") /\ bridge.up /\ bridge.accepts /\ Fault
    /\ bridge' = [Registered EXCEPT !.calm = FALSE]
    /\ Unhealthy
    /\ UNCHANGED settings

\* A request meets no bridge, or fails on the way.
RequestFails ==
    /\ LoopAt("register") \/ LoopAt("state")
    /\ \/ ~bridge.up /\ UNCHANGED <<bridge, faults>>
       \/ bridge.up /\ Fault /\ bridge' = [bridge EXCEPT !.calm = FALSE]
    /\ Unhealthy
    /\ UNCHANGED settings

Fresh == bridge.registered /\ bridge.left > 0

\* Mutant: no waiting after an attempt that did not work.
NextStaging_Immediate(ready) ==
    LET retry == IF ready THEN StageRetry ELSE Min({StageRetryMax, 2 * loop.retry}) IN
    Sleep([loop EXCEPT !.retry = retry, !.wait = IF ready THEN retry ELSE 0, !.took = 0])

\* The next attempt is counted from where this one began.
NextStaging(ready) ==
    LET retry == IF ready THEN StageRetry ELSE Min({StageRetryMax, 2 * loop.retry}) IN
    Sleep([loop EXCEPT !.retry = retry, !.wait = Max({0, retry - loop.took}), !.took = 0])

ReadAddonState ==
    /\ LoopAt("state") /\ bridge.up
    /\ IF ~bridge.accepts \/ ~Fresh
       THEN Unhealthy
       ELSE LET round == [loop EXCEPT !.healthy = TRUE, !.ttl = bridge.ttl, !.needs = bridge.zip = "none"] IN
            IF round.needs /\ loop.wait = 0
            THEN loop' = [round EXCEPT !.at = "build", !.gap = 0]
            ELSE Sleep(round)
    /\ UNCHANGED bridgeVars

----------------------------------------------------------------------------
(* Stage the repository add-on: build, upload, verify.                     *)

\* Initialising, building or checking the repository add-on raises, or the
\* upload does before it is sent.
StagingRaises ==
    /\ LoopAt("build") /\ Fault
    /\ NextStaging(FALSE)
    /\ UNCHANGED <<bridge, settings>>

BuildRepoAddon ==
    /\ LoopAt("build")
    /\ loop' = [loop EXCEPT !.at = "upload"]
    /\ UNCHANGED bridgeVars

\* A failing upload is not raised: the state is read all the same.
StageDevRepoZip ==
    /\ LoopAt("upload")
    /\ loop' = [loop EXCEPT !.at = "verify"]
    /\ \/ bridge.up /\ bridge.accepts /\ bridge' = [bridge EXCEPT !.zip = "usable"] /\ UNCHANGED faults
       \/ ~(bridge.up /\ bridge.accepts) /\ UNCHANGED <<bridge, faults>>
       \/ Fault /\ UNCHANGED bridge
    /\ UNCHANGED settings

VerifyStaged ==
    /\ LoopAt("verify")
    /\ \/ NextStaging(bridge.up /\ bridge.zip = "usable") /\ UNCHANGED faults
       \/ bridge.up /\ Fault /\ NextStaging(FALSE)
    /\ UNCHANGED <<bridge, settings>>

----------------------------------------------------------------------------
Wake ==
    /\ LoopAt("sleep") /\ loop.sleep = 0
    /\ loop' = [loop EXCEPT !.at = "register", !.healthy = FALSE, !.needs = FALSE, !.ttl = 0]
    /\ UNCHANGED bridgeVars

\* The server shuts down: the task is cancelled wherever it waits. A new
\* server starts with a new loop.
ServerStops ==
    /\ ~LoopAt("stopped") /\ Fault
    /\ loop' = [NewLoop EXCEPT !.at = "stopped"]
    /\ bridge' = [bridge EXCEPT !.calm = FALSE]
    /\ UNCHANGED settings

ServerStarts ==
    /\ LoopAt("stopped")
    /\ loop' = NewLoop
    /\ UNCHANGED bridgeVars

Down(n) == IF n = 0 THEN 0 ELSE n - 1

\* Whether the tick finds the loop asleep; otherwise a request or a staging is slow.
Tick ==
    /\ \/ LoopAt("sleep") /\ loop.sleep > 0 /\ UNCHANGED faults /\ bridge' = [bridge EXCEPT !.left = Down(@)]
       \/ LoopAt("stopped") /\ bridge.left > 0 /\ UNCHANGED faults /\ bridge' = [bridge EXCEPT !.left = Down(@)]
       \/ ~LoopAt("sleep") /\ ~LoopAt("stopped") /\ Fault /\ bridge' = [bridge EXCEPT !.left = Down(@), !.calm = FALSE]
    /\ loop' = [loop EXCEPT !.sleep = Down(@), !.wait = Down(@), !.gap = Min({StageRetry, @ + 1}),
                            !.took = IF loop.at \in {"build", "upload", "verify"} THEN @ + 1 ELSE @]
    /\ UNCHANGED settings

LoopStep ==
    \/ Wake \/ RegisterWithAddon \/ RegisterAnswerLost \/ RequestFails \/ ReadAddonState
    \/ BuildRepoAddon \/ StagingRaises \/ StageDevRepoZip \/ VerifyStaged

\* A deployment or the user installs a build; the service is replaced later.
BridgeIsReplaced ==
    /\ Fault
    /\ \E r \in Revisions : Install([claims |-> r, content |-> r])
    /\ UNCHANGED <<settings, loop>>

ServerNext == LoopStep \/ ServerStops \/ ServerStarts \/ Tick

loopVars == <<loop, bridge, settings, faults>>

LoopInit == InitBridge /\ loop = NewLoop
LoopNext == ServerNext \/ BridgeIsReplaced \/ (BridgeEnvironment /\ UNCHANGED loop)
LoopSpec == LoopInit /\ [][LoopNext]_loopVars

\* The task's steps are taken and time goes on; a server that stopped need not come back.
LoopFairness == WF_loopVars(LoopStep) /\ WF_loopVars(Tick) /\ BridgeFairness
FairLoopSpec == LoopSpec /\ LoopFairness

----------------------------------------------------------------------------
(* Properties.                                                             *)

\* While nothing disturbs it, a registration does not lapse before the loop
\* renews it, provided the add-on applied more than the least sleep of ten
\* seconds (the interval of _addon_registration_loop; at ten seconds or less
\* the floor wins and the registration lapses in every round).
KeptFresh == bridge.registered /\ bridge.calm /\ bridge.ttl > IntervalFloor => bridge.left > 0

\* However stagings fail, two of them begin at least the retry time apart,
\* so that a bridge that refuses the zip is not flooded with uploads.
StagingIsPaced == [][LoopAt("state") /\ loop'.at = "build" => loop.gap >= StageRetry]_loopVars

Reachable == bridge.up /\ bridge.accepts /\ bridge.running = bridge.installed /\ ~LoopAt("stopped")

\* Once the bridge stays reachable, the loop registers and finds or stages
\* a repository zip, wherever it was when that began.
Converges == <>[]Reachable => <>[](bridge.registered /\ bridge.zip # "none")
=============================================================================
