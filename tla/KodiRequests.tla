---------------------------- MODULE KodiRequests ----------------------------
(***************************************************************************)
(* Requests to one Kodi: the JSON-RPC transport (transport/http_jsonrpc.py)*)
(* and the bridge client (transport/http_bridge.py).  A tool call has one  *)
(* request in flight at a time.  An attempt can be executed and answered,  *)
(* executed and its answer lost, refused, or given up by its timeout while *)
(* it is still on its way: then Kodi may execute it at any later moment.   *)
(* What is transient (TIMEOUT, NETWORK_ERROR) is tried once more, for the  *)
(* methods the transport takes for safe.                                   *)
(***************************************************************************)
EXTENDS Integers, FiniteSets

CONSTANTS
    Calls,          \* tool calls that use this Kodi
    Values,         \* values of the Kodi setting
    Titles,         \* what the library may hold, in its sort order
    MaxWrites,      \* bound: write requests of one call
    MaxRetries      \* the transports' max_retries, 1 in the code

ASSUME BoundsAreNaturals == MaxWrites \in Nat /\ MaxRetries \in Nat /\ Titles \subseteq Int

VARIABLES
    kodi,           \* setting, enabled, playing, library: Kodi's own state
    request,        \* the request each call has in flight
    answer,         \* what the last request of each call was answered
    late,           \* write requests given up by their timeout, still on their way
    sent,           \* write requests each call has issued
    runs            \* how often Kodi has executed each of them

transport == <<request, answer, late, sent, runs>>

Writes == {"Settings.SetSettingValue", "Addons.SetAddonEnabled", "Player.Stop",
           "Addons.ExecuteAddon"}
SafeReads == {"Settings.GetSettings", "Player.GetActivePlayers", "Addons.GetAddonDetails",
              "VideoLibrary.GetMovies", "VideoLibrary.GetTVShowDetails",
              "VideoLibrary.GetSeasons"}
Unrepeated == {"gui_state", "gui_screenshot"}     \* reads the bridge client sends once
Methods == Writes \cup SafeReads \cup Unrepeated

IsSafeToRetry(m) == m \in SafeReads

Nothing == [method |-> "none", arg |-> 0, left |-> 0, n |-> 0]
Pending == [status |-> "pending", value |-> "none"]
Error == [status |-> "error", value |-> "none"]
Ok(value) == [status |-> "ok", value |-> value]

InFlight(c) == request[c] # Nothing
IsWrite(r) == r.method \in Writes

(* How Kodi executes a request: the states it may lead to, and the answer. *)
Effects(r, arg) ==
    CASE r = "Settings.SetSettingValue" -> {[kodi EXCEPT !.setting = arg]}
      [] r = "Addons.SetAddonEnabled"   -> {[kodi EXCEPT !.enabled = TRUE]}
      [] r = "Player.Stop"              -> {[kodi EXCEPT !.playing = FALSE]}
      [] r = "Addons.ExecuteAddon"      -> {kodi, [kodi EXCEPT !.playing = kodi.enabled \/ @]}
      [] OTHER                          -> {kodi}

Replies(r, arg) ==
    CASE r = "Settings.GetSettings"     -> {kodi.setting}
      [] r = "Addons.GetAddonDetails"   -> {kodi.enabled}
      [] r = "Player.GetActivePlayers"  -> {kodi.playing}
      [] r = "VideoLibrary.GetMovies"   -> {kodi.library}
      [] r = "VideoLibrary.GetSeasons"  -> {kodi.library}
      [] r = "VideoLibrary.GetTVShowDetails" -> {arg \in kodi.library}
      [] r = "gui_state"                -> {~kodi.playing}    \* an idle Home window
      [] r = "gui_screenshot"           -> {"black", "picture"}
      [] OTHER                          -> {TRUE}

Issue(c, method, arg) ==
    /\ sent' = IF method \in Writes THEN [sent EXCEPT ![c] = @ + 1] ELSE sent
    /\ request' = [request EXCEPT ![c] = [method |-> method, arg |-> arg,
                     left |-> IF IsSafeToRetry(method) THEN MaxRetries ELSE 0,
                     n |-> IF method \in Writes THEN sent[c] + 1 ELSE 0]]
    /\ answer' = [answer EXCEPT ![c] = Pending]
    /\ UNCHANGED <<kodi, late, runs>>

Counted(c, r) == IF IsWrite(r) THEN [runs EXCEPT ![c][r.n] = @ + 1] ELSE runs

Answered(c, a) ==
    /\ answer' = [answer EXCEPT ![c] = a]
    /\ request' = [request EXCEPT ![c] = Nothing]

\* Mutant: every method is sent again after a transient failure.
Retried_Any(c) ==
    /\ request[c].left = 0
    /\ UNCHANGED <<request, answer>>

(* A transient failure: sent again while a retry is left.                  *)
Retried(c) ==
    /\ request[c].left > 0
    /\ request' = [request EXCEPT ![c].left = @ - 1]
    /\ UNCHANGED answer

FailsTransiently(c) == Retried(c) \/ (request[c].left = 0 /\ Answered(c, Error))

-----------------------------------------------------------------------------
KodiAnswers(c) ==
    /\ InFlight(c)
    /\ LET r == request[c] IN
       /\ kodi' \in Effects(r.method, r.arg)
       /\ \E value \in Replies(r.method, r.arg) : Answered(c, Ok(value))
       /\ runs' = Counted(c, r)
    /\ UNCHANGED <<late, sent>>

AnswerIsLost(c) ==            \* executed: a broken answer, or none in time
    /\ InFlight(c)
    /\ LET r == request[c] IN
       /\ kodi' \in Effects(r.method, r.arg)
       /\ runs' = Counted(c, r)
    /\ Answered(c, Error) \/ FailsTransiently(c)
    /\ UNCHANGED <<late, sent>>

KodiRefuses(c) ==             \* a JSON-RPC or HTTP error: final, nothing is executed
    /\ InFlight(c)
    /\ Answered(c, Error)
    /\ UNCHANGED <<kodi, late, sent, runs>>

Unreachable(c) ==
    /\ InFlight(c)
    /\ FailsTransiently(c)
    /\ UNCHANGED <<kodi, late, sent, runs>>

TimesOut(c) ==                \* a write that may still arrive
    /\ InFlight(c) /\ IsWrite(request[c])
    /\ FailsTransiently(c)
    /\ late' = late \cup {[call |-> c, method |-> request[c].method,
                           arg |-> request[c].arg, n |-> request[c].n]}
    /\ UNCHANGED <<kodi, sent, runs>>

ArrivesLate(m) ==
    /\ m \in late
    /\ kodi' \in Effects(m.method, m.arg)
    /\ runs' = [runs EXCEPT ![m.call][m.n] = @ + 1]
    /\ late' = late \ {m}
    /\ UNCHANGED <<request, answer, sent>>

IsDropped(m) ==               \* or it never arrives
    /\ m \in late
    /\ late' = late \ {m}
    /\ UNCHANGED <<kodi, request, answer, sent, runs>>

Transport(c) ==
    KodiAnswers(c) \/ AnswerIsLost(c) \/ KodiRefuses(c) \/ Unreachable(c) \/ TimesOut(c)

(* The user at the screen, and other clients of this Kodi.                 *)
OthersAct ==
    /\ kodi' \in {[kodi EXCEPT !.setting = v] : v \in Values}
                   \cup {[kodi EXCEPT !.playing = ~@], [kodi EXCEPT !.enabled = ~@]}
                   \cup {[kodi EXCEPT !.library = @ \cup {t}] : t \in Titles}
                   \cup {[kodi EXCEPT !.library = @ \ {t}] : t \in Titles}
    /\ kodi' # kodi
    /\ UNCHANGED transport

Kodis == [setting : Values, enabled : BOOLEAN, playing : BOOLEAN, library : SUBSET Titles]

InitRequests ==
    /\ kodi \in Kodis
    /\ request = [c \in Calls |-> Nothing]
    /\ answer = [c \in Calls |-> Pending]
    /\ late = {}
    /\ sent = [c \in Calls |-> 0]
    /\ runs = [c \in Calls |-> [n \in 1 .. MaxWrites |-> 0]]

(* The transports by themselves: clients that ask for anything, one        *)
(* request at a time.                                                      *)
NextRequest ==
    \/ \E c \in Calls, m \in Methods, arg \in {0} \cup Values \cup Titles :
          ~InFlight(c) /\ (m \in Writes => sent[c] < MaxWrites) /\ Issue(c, m, arg)
    \/ \E c \in Calls : Transport(c)
    \/ \E m \in late : ArrivesLate(m) \/ IsDropped(m)
    \/ OthersAct

RequestSpec == InitRequests /\ [][NextRequest]_<<kodi, transport>>

-----------------------------------------------------------------------------
(* No write is executed twice, although the client cannot tell a request   *)
(* that failed from one whose answer was lost or is still to come.         *)
AtMostOnce == \A c \in Calls, n \in 1 .. MaxWrites : runs[c][n] <= 1

(* What is on its way, or in flight, has not been executed yet.            *)
NotYet ==
    /\ \A m \in late : m.n <= sent[m.call] /\ runs[m.call][m.n] = 0
    /\ \A c \in Calls : IsWrite(request[c]) =>
          /\ request[c].n = sent[c] /\ runs[c][sent[c]] = 0
          /\ \A m \in late : m.call = c => m.n # sent[c]
=============================================================================
