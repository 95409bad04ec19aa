----------------------------- MODULE KodiTools ------------------------------
(***************************************************************************)
(* The tools that change one Kodi or wait for it, as the MCP server runs   *)
(* them (kodi_mcp_mcp/server_core.py, tools/settings.py, tools/jsonrpc.py):*)
(* each is a sequence of requests with the checks between them.  Calls run *)
(* as tasks of one server or of several, and nothing is locked.            *)
(***************************************************************************)
EXTENDS KodiRequests, Sequences

CONSTANTS
    VerifyAttempts, \* reads by which a stop must be seen (20 in the code)
    StableChecks,   \* consecutive inactive reads that make it stable (5)
    Polls,          \* reads before the deadline of an observation passes
    MaxCaptures     \* SCREENSHOT_CAPTURE_MAX_ATTEMPTS, 5 in the code

(* MaxWrites leaves room for every stop of a kodi_player_stop.              *)
ASSUME ToolAssumption ==
    /\ VerifyAttempts \in Nat \ {0}
    /\ VerifyAttempts <= MaxWrites

VARIABLE call       \* how far each tool call is, and its outcome

vars == <<kodi, transport, call>>

Fresh == [tool |-> "none", pc |-> "idle", want |-> 0, tries |-> 0, stable |-> 0,
          expect |-> {}, went |-> FALSE, ok |-> FALSE, got |-> <<>>, libraries |-> <<>>]

At(c, pc) == call[c].pc = pc
Back(c, pc) == At(c, pc) /\ ~InFlight(c)
Failed(c) == answer[c].status = "error"
Value(c) == answer[c].value

Start(c, first) ==
    /\ At(c, "idle") /\ ~InFlight(c)
    /\ call' = [call EXCEPT ![c] = first]
Go(c, next) == call' = [call EXCEPT ![c] = next]

Finish(c, ok) ==
    /\ call' = [call EXCEPT ![c] = [Fresh EXCEPT !.tool = call[c].tool, !.pc = "done",
                                                 !.went = call[c].went, !.ok = ok,
                    !.got = call[c].got, !.libraries = call[c].libraries]]
    /\ UNCHANGED <<kodi, transport>>

-----------------------------------------------------------------------------
(* set_setting: read, compare, write, read back.                           *)

RefuseSetting(c) ==           \* sensitive, not listed, read-only, or the value out of bounds
    /\ Start(c, [Fresh EXCEPT !.tool = "set_setting", !.pc = "done"])
    /\ UNCHANGED <<kodi, transport>>

ReadSetting(c, value) ==      \* metadata that does not fit the policy is an error
    Issue(c, "Settings.GetSettings", value)

SetSetting(c) ==
    \E v \in Values :
        /\ Start(c, [Fresh EXCEPT !.tool = "set_setting", !.pc = "before", !.want = v])
        /\ ReadSetting(c, v)

SettingBefore(c) ==
    /\ Back(c, "before")
    /\ IF Failed(c) \/ Value(c) = call[c].want
         THEN Finish(c, ~Failed(c))
         ELSE /\ Go(c, [call[c] EXCEPT !.pc = "written", !.went = TRUE])
              /\ Issue(c, "Settings.SetSettingValue", call[c].want)

\* Mutant: a write that timed out is verified like any other.
SettingWritten_Anyway(c) ==
    /\ Back(c, "written")
    /\ Go(c, [call[c] EXCEPT !.pc = "read_back"])
    /\ ReadSetting(c, call[c].want)

SettingWritten(c) ==
    /\ Back(c, "written")
    /\ IF Failed(c)
         THEN Finish(c, FALSE)
         ELSE /\ Go(c, [call[c] EXCEPT !.pc = "read_back"])
              /\ ReadSetting(c, call[c].want)

SettingReadBack(c) ==
    /\ Back(c, "read_back")
    /\ Finish(c, ~Failed(c) /\ Value(c) = call[c].want)

-----------------------------------------------------------------------------
(* ensure_addon_enabled: the write is not read back.                       *)

EnsureAddonEnabled(c) ==
    /\ Start(c, [Fresh EXCEPT !.tool = "ensure_addon_enabled", !.pc = "details"])
    /\ Issue(c, "Addons.GetAddonDetails", 0)

AddonDetails(c) ==
    /\ Back(c, "details")
    /\ IF Failed(c) \/ Value(c) = TRUE
         THEN Finish(c, ~Failed(c))
         ELSE /\ Go(c, [call[c] EXCEPT !.pc = "enabled", !.went = TRUE])
              /\ Issue(c, "Addons.SetAddonEnabled", 0)

AddonEnabled(c) == Back(c, "enabled") /\ Finish(c, ~Failed(c))

-----------------------------------------------------------------------------
(* kodi_player_stop: stop, then look until the player has stayed inactive; *)
(* stop again whenever it is seen active.                                  *)

PlayerStop(c) ==
    \E verify \in {{}, {"verify"}} :
        /\ Start(c, [Fresh EXCEPT !.tool = "player_stop", !.pc = "stopped",
                                  !.expect = verify, !.went = TRUE])
        /\ Issue(c, "Player.Stop", 0)

Look(c, quiet) ==
    /\ Go(c, [call[c] EXCEPT !.pc = "looked", !.tries = @ + 1, !.stable = quiet])
    /\ Issue(c, "Player.GetActivePlayers", 0)

PlayerStopped(c) ==           \* the answer of the first stop, or of a later one
    /\ Back(c, "stopped")
    /\ IF Failed(c) \/ call[c].expect = {}
         THEN Finish(c, ~Failed(c))
         ELSE Look(c, 0)

PlayerLooked(c) ==
    /\ Back(c, "looked")
    /\ LET last == call[c].tries = VerifyAttempts
           quiet == call[c].stable + 1
       IN IF Failed(c) THEN Finish(c, FALSE)
          ELSE IF Value(c) = TRUE
            THEN IF last THEN Finish(c, FALSE)
                 ELSE /\ Go(c, [call[c] EXCEPT !.pc = "stopped"])
                      /\ Issue(c, "Player.Stop", 0)
            ELSE IF quiet >= StableChecks \/ last
                   THEN Finish(c, quiet >= StableChecks)
                   ELSE Look(c, quiet)

-----------------------------------------------------------------------------
(* addon_execute: dispatch, then watch for a player, then for the window;  *)
(* a failed dispatch is watched like any other.                            *)

AddonExecute(c) ==
    \E expect \in SUBSET {"player", "window"} :
        /\ Start(c, [Fresh EXCEPT !.tool = "addon_execute", !.pc = "executed",
                                  !.expect = expect, !.went = TRUE])
        /\ Issue(c, "Addons.ExecuteAddon", 0)

\* Mutant: the observation does not wait for the dispatch to be answered.
Executed_Unawaited(c) ==
    /\ At(c, "executed")
    /\ Go(c, [call[c] EXCEPT !.pc = "observe", !.ok = TRUE, !.tries = 1])
    /\ Issue(c, "Player.GetActivePlayers", 0)

Executed(c) ==
    /\ Back(c, "executed")
    /\ Go(c, [call[c] EXCEPT !.pc = "observe", !.ok = ~Failed(c), !.tries = 1])
    /\ Issue(c, "Player.GetActivePlayers", 0)

Active(c) == ~Failed(c) /\ Value(c) = TRUE

Observed(c) ==                \* the deadline is looked at after the read
    /\ Back(c, "observe")
    /\ IF Active(c) \/ call[c].tries = Polls
         THEN /\ Go(c, [call[c] EXCEPT !.pc = "window", !.tries = 1,
                        !.ok = call[c].ok /\ ("player" \in call[c].expect => Active(c))])
              /\ Issue(c, "gui_state", 0)
         ELSE /\ Go(c, [call[c] EXCEPT !.tries = @ + 1])
              /\ Issue(c, "Player.GetActivePlayers", 0)

WindowSeen(c) ==              \* an expected fullscreen video, or no expectation
    /\ Back(c, "window")
    /\ LET matched == "window" \in call[c].expect => ~Failed(c) /\ Value(c) = FALSE
       IN IF matched \/ call[c].tries = Polls
            THEN Finish(c, call[c].ok /\ matched)
            ELSE /\ Go(c, [call[c] EXCEPT !.tries = @ + 1])
                 /\ Issue(c, "gui_state", 0)

-----------------------------------------------------------------------------
(* kodi_gui_screenshot: a black frame of an idle Home is captured again.   *)

GuiScreenshot(c) ==
    /\ Start(c, [Fresh EXCEPT !.tool = "gui_screenshot", !.pc = "captured", !.tries = 1])
    /\ Issue(c, "gui_screenshot", 0)

Captured(c) ==                \* from the first black frame on, time can run out
    /\ Back(c, "captured")
    /\ IF Failed(c) THEN Finish(c, FALSE)
       ELSE IF Value(c) = "picture" THEN Finish(c, TRUE)
       ELSE \/ Finish(c, FALSE)
            \/ Go(c, [call[c] EXCEPT !.pc = "context"]) /\ Issue(c, "gui_state", 0)

BlackContext(c) ==            \* the GUI is looked at after the frame was taken
    /\ Back(c, "context")
    /\ IF Failed(c) \/ Value(c) = FALSE THEN Finish(c, TRUE)
       ELSE IF call[c].tries = MaxCaptures THEN Finish(c, FALSE)
       ELSE \/ Finish(c, FALSE)
            \/ /\ Go(c, [call[c] EXCEPT !.pc = "captured", !.tries = @ + 1])
               /\ Issue(c, "gui_screenshot", 0)

-----------------------------------------------------------------------------
StartTool(c) ==
    RefuseSetting(c) \/ SetSetting(c) \/ EnsureAddonEnabled(c) \/ PlayerStop(c)
        \/ AddonExecute(c) \/ GuiScreenshot(c)

ToolStep(c) ==
    \/ SettingBefore(c) \/ SettingWritten(c) \/ SettingReadBack(c)
    \/ AddonDetails(c) \/ AddonEnabled(c)
    \/ PlayerStopped(c) \/ PlayerLooked(c)
    \/ Executed(c) \/ Observed(c) \/ WindowSeen(c)
    \/ Captured(c) \/ BlackContext(c)

-----------------------------------------------------------------------------
(* A call that answers ok has had every write it issued executed, once,    *)
(* and leaves none behind that could still arrive; a call that answers ok  *)
(* without having issued one has changed nothing.                          *)
OkMeansExecuted ==
    \A c \in Calls : At(c, "done") /\ call[c].ok =>
        /\ \A n \in 1 .. sent[c] : runs[c][n] = 1
        /\ \A m \in late : m.call # c
        /\ sent[c] > 0 <=> call[c].went
=============================================================================
