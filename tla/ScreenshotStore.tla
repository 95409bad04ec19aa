-------------------------- MODULE ScreenshotStore --------------------------
(***************************************************************************)
(* The screenshot directory of src/kodi_mcp_server/screenshot_store.py and *)
(* the route of repo_server.py that serves it. Every server process (the   *)
(* HTTP server, each stdio server) captures into the one directory, and    *)
(* cleans it before each capture and before each GET, without a lock.      *)
(*                                                                         *)
(* A file is named by the moment it was created; mtime holds its           *)
(* modification time, also after it is gone. horizon is the time before    *)
(* which a file is past its retention. Statements between two system calls *)
(* on the directory are one step; the stat and the unlink of one file in   *)
(* the loop over expired files count as one, because the code tolerates a  *)
(* file that vanishes between them.                                        *)
(***************************************************************************)
EXTENDS Naturals, Sequences, FiniteSets

CONSTANTS
    Processes,     \* the server processes
    MaxFiles,      \* SCREENSHOT_MAX_FILES, 0 for no limit
    Retention,     \* whether SCREENSHOT_RETENTION_SECONDS is above 0
    MaxCaptures,   \* bound: files ever created
    MaxGets,       \* bound: GETs ever asked
    MaxAgings,     \* bound: how often time passes as far as to expire a file
    MaxFailures    \* bound: deaths and failing writes

ASSUME StoreAssumption ==
    /\ IsFiniteSet(Processes)
    /\ MaxFiles \in Nat
    /\ Retention \in BOOLEAN
    /\ {MaxCaptures, MaxGets, MaxAgings, MaxFailures} \subseteq Nat

VARIABLES
    present,   \* the files in the directory
    whole,     \* the files whose content was written to the end
    mtime,     \* when each file ever created was last written or touched
    clock,     \* the moments that passed
    horizon,   \* files modified until this moment are past their retention
    answered,  \* the names some capture answered
    job,       \* what each process does: a capture, a GET, or nothing
    sending,   \* the response each process still has to send
    gets,      \* GETs asked so far
    agings,    \* how often time passed
    failures   \* deaths and failing writes so far

screenshotVars == <<present, whole, mtime, clock, horizon, answered, job, sending, gets, agings, failures>>

None == 0
Idle == [at |-> "idle", want |-> None, seen |-> {}, files |-> <<>>, kept |-> <<>>, cutoff |-> 0]
NoResponse == [name |-> None, state |-> "none"]

Created == DOMAIN mtime

ScreenshotInit ==
    /\ present = {} /\ whole = {} /\ mtime = <<>>
    /\ clock = 0 /\ horizon = 0
    /\ answered = {}
    /\ job = [p \in Processes |-> Idle]
    /\ sending = [p \in Processes |-> NoResponse]
    /\ gets = 0 /\ agings = 0 /\ failures = 0

At(p, place) == job[p].at = place
Becomes(p, next) == job' = [job EXCEPT ![p] = next]
Go(p, place) == Becomes(p, [job[p] EXCEPT !.at = place])
End(p) == Becomes(p, Idle)

\* write and utime: the file gets the present moment as its time.
Stamp(name) ==
    /\ clock' = clock + 1
    /\ mtime' = [n \in Created \cup {name} |-> IF n = name THEN clock + 1 ELSE mtime[n]]

----------------------------------------------------------------------------
(* A capture or a GET begins; both clean the directory first.              *)

Capture(p) ==
    /\ At(p, "idle")
    /\ Cardinality(Created) + Cardinality({q \in Processes : job[q].at # "idle" /\ job[q].want = None}) < MaxCaptures
    /\ Go(p, "list")
    /\ UNCHANGED <<present, whole, mtime, clock, horizon, answered, sending, gets, failures, agings>>

Get(p, name) ==
    /\ At(p, "idle") /\ sending[p].state # "open" /\ gets < MaxGets
    /\ Becomes(p, [Idle EXCEPT !.at = "list", !.want = name])
    /\ gets' = gets + 1
    /\ UNCHANGED <<present, whole, mtime, clock, horizon, answered, sending, failures, agings>>

(***************************************************************************)
(* cleanup_screenshots. The directory is listed, vanished names are        *)
(* filtered by is_file, and the sort then takes the time of each: a file   *)
(* removed in between makes it raise.                                      *)
(***************************************************************************)
List(p) ==
    /\ At(p, "list")
    /\ Becomes(p, [job[p] EXCEPT !.at = "filter", !.seen = present, !.cutoff = horizon])
    /\ UNCHANGED <<present, whole, mtime, clock, horizon, answered, sending, gets, failures, agings>>

Filter(p) ==
    /\ At(p, "filter")
    /\ Becomes(p, [job[p] EXCEPT !.at = "sort", !.seen = @ \cap present])
    /\ UNCHANGED <<present, whole, mtime, clock, horizon, answered, sending, gets, failures, agings>>

Orders(S) == [1 .. Cardinality(S) -> S]

\* Mutant: the newest first.
ByTime_NewestFirst(S) == {o \in Orders(S) : \A i, j \in DOMAIN o : i < j => mtime[o[i]] > mtime[o[j]]}

\* No two files have the same time.
ByTime(S) == {o \in Orders(S) : \A i, j \in DOMAIN o : i < j => mtime[o[i]] < mtime[o[j]]}

Sort(p) ==
    /\ At(p, "sort")
    /\ IF job[p].seen \subseteq present
       THEN \E sorted \in ByTime(job[p].seen) :
               Becomes(p, [job[p] EXCEPT !.at = "remove", !.seen = {},
                                         !.files = IF Retention THEN sorted ELSE <<>>,
                                         !.kept = IF Retention THEN <<>> ELSE sorted])
       ELSE End(p)
    /\ UNCHANGED <<present, whole, mtime, clock, horizon, answered, sending, gets, failures, agings>>

Expired(p, name) == mtime[name] <= job[p].cutoff

ExpireOne(p) ==
    /\ At(p, "remove") /\ job[p].files # <<>>
    /\ LET name == Head(job[p].files) IN
       /\ present' = IF name \in present /\ Expired(p, name) THEN present \ {name} ELSE present
       /\ Becomes(p, [job[p] EXCEPT !.files = Tail(@),
                                    !.kept = IF name \in present /\ ~Expired(p, name) THEN Append(@, name) ELSE @])
    /\ UNCHANGED <<whole, mtime, clock, horizon, answered, sending, gets, failures, agings>>

\* Mutant: one file more is let through by every cleanup.
TooMany_OneMore(p) == MaxFiles > 0 /\ Len(job[p].kept) > MaxFiles + 1

TooMany(p) == MaxFiles > 0 /\ Len(job[p].kept) > MaxFiles

TrimOne(p) ==
    /\ At(p, "remove") /\ job[p].files = <<>> /\ TooMany(p)
    /\ present' = present \ {Head(job[p].kept)}
    /\ Becomes(p, [job[p] EXCEPT !.kept = Tail(@)])
    /\ UNCHANGED <<whole, mtime, clock, horizon, answered, sending, gets, failures, agings>>

Cleaned(p) == At(p, "remove") /\ job[p].files = <<>> /\ ~TooMany(p)

----------------------------------------------------------------------------
(* The rest of a capture: decode, create, write, touch, answer.            *)

\* An image that is no PNG ends the call: the cleanup it made stays.
Decode(p, good) ==
    /\ Cleaned(p) /\ job[p].want = None
    /\ IF good THEN Becomes(p, [Idle EXCEPT !.at = "create"]) ELSE End(p)
    /\ UNCHANGED <<present, whole, mtime, clock, horizon, answered, sending, gets, failures, agings>>

\* Mutant: the name is answered as soon as the file exists.
Create_Answers(p) ==
    /\ At(p, "create")
    /\ LET name == clock + 1 IN
       /\ present' = present \cup {name}
       /\ Stamp(name)
       /\ answered' = answered \cup {name}
       /\ Becomes(p, [job[p] EXCEPT !.at = "write", !.want = name])
    /\ UNCHANGED <<whole, horizon, sending, gets, failures, agings>>

\* write_bytes opens a file of a new name ...
Create(p) ==
    /\ At(p, "create")
    /\ LET name == clock + 1 IN
       /\ present' = present \cup {name}
       /\ Stamp(name)
       /\ Becomes(p, [job[p] EXCEPT !.at = "write", !.want = name])
    /\ UNCHANGED <<whole, horizon, answered, sending, gets, failures, agings>>

\* ... and fills it, whether or not a cleanup unlinked it meanwhile.
Write(p) ==
    /\ At(p, "write")
    /\ whole' = whole \cup {job[p].want}
    /\ Go(p, "touch")
    /\ UNCHANGED <<present, mtime, clock, horizon, answered, sending, gets, failures, agings>>

\* utime raises when the file is gone; otherwise the name is answered.
Touch(p) ==
    /\ At(p, "touch")
    /\ IF job[p].want \in present
       THEN Stamp(job[p].want) /\ answered' = answered \cup {job[p].want}
       ELSE UNCHANGED <<mtime, clock, answered>>
    /\ End(p)
    /\ UNCHANGED <<present, whole, horizon, sending, gets, failures, agings>>

\* The process dies or a write raises: whatever was created stays.
Fails(p) ==
    /\ ~At(p, "idle") /\ failures < MaxFailures
    /\ failures' = failures + 1
    /\ End(p)
    /\ UNCHANGED <<present, whole, mtime, clock, horizon, answered, sending, gets, agings>>

----------------------------------------------------------------------------
(* The rest of a GET. The response is sent after the handler returned, so  *)
(* other work of the same process may come between.                        *)

ScreenshotPathFor(p) ==
    /\ Cleaned(p) /\ job[p].want # None
    /\ sending' = [sending EXCEPT ![p] = IF job[p].want \in present
                                         THEN [name |-> job[p].want, state |-> "open"]
                                         ELSE [NoResponse EXCEPT !.state = "missing"]]
    /\ End(p)
    /\ UNCHANGED <<present, whole, mtime, clock, horizon, answered, gets, failures, agings>>

SendFile(p) ==
    /\ sending[p].state = "open"
    /\ sending' = [sending EXCEPT ![p].state = IF sending[p].name \notin present THEN "failed"
                                               ELSE IF sending[p].name \in whole THEN "whole" ELSE "part"]
    /\ UNCHANGED <<present, whole, mtime, clock, horizon, answered, job, gets, failures, agings>>

\* Time passes: the oldest files are past their retention.
TimePasses ==
    /\ agings < MaxAgings
    /\ agings' = agings + 1
    /\ horizon' \in horizon + 1 .. clock
    /\ UNCHANGED <<present, whole, mtime, clock, answered, job, sending, gets, failures>>

Clean(p) == List(p) \/ Filter(p) \/ Sort(p) \/ ExpireOne(p) \/ TrimOne(p)

Step(p) ==
    \/ Capture(p) \/ \E name \in answered : Get(p, name)
    \/ Clean(p)
    \/ \E good \in BOOLEAN : Decode(p, good)
    \/ Create(p) \/ Write(p) \/ Touch(p)
    \/ ScreenshotPathFor(p) \/ SendFile(p)
    \/ Fails(p)

ScreenshotNext == TimePasses \/ \E p \in Processes : Step(p)

ScreenshotSpec == ScreenshotInit /\ [][ScreenshotNext]_screenshotVars

----------------------------------------------------------------------------
(* Properties.                                                             *)

\* The directory holds at most the configured number of screenshots and one
\* more for each process, whatever the processes list, remove and create at
\* the same time and wherever they fail (cleanup_screenshots runs before
\* the write and works on a listing that may be out of date).
StoreIsBounded == MaxFiles > 0 => Cardinality(present) <= MaxFiles + Cardinality(Processes)

\* A screenshot leaves the directory only when it is past its retention or
\* as many others as the store may hold were written or touched after it
\* was created: no stale listing costs a screenshot its place.
OnlySupersededLeave ==
    [][\A n \in present \ present' :
          \/ Retention /\ mtime[n] <= horizon
          \/ MaxFiles > 0 /\ Cardinality({m \in Created \ {n} : mtime[m] > n}) >= MaxFiles]_screenshotVars

\* What a GET sends is a whole image, although a screenshot is written in
\* place: nobody learns its name before it is complete.
ServedIsWhole == \A p \in Processes : sending[p].state # "part"
=============================================================================
