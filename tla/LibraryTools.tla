---------------------------- MODULE LibraryTools ----------------------------
(***************************************************************************)
(* The library tools (tools/library.py, tools/music.py) beside the others, *)
(* and everything that runs against one Kodi together.  Each library tool  *)
(* call returns one page; a client that wants all of a category calls      *)
(* again with start = end while has_more, and the library may change       *)
(* between two pages.  An item without valid id and title spoils its page. *)
(* search pages like browse, and episodes like seasons.                    *)
(***************************************************************************)
EXTENDS KodiTools

CONSTANTS
    Limit,          \* items of a page
    Malformed,      \* titles whose items lack a valid identity
    CountRequests   \* requests of a summary

ASSUME LibraryAssumption == IsFiniteSet(Titles) /\ Limit \in Nat \ {0}

(* What Kodi answers for the limits start .. start + Limit.                *)
Rank(library, t) == Cardinality({u \in library : u < t})
Smaller(a, b) == IF a < b THEN a ELSE b
Pagination(library, start) ==
    [end |-> Smaller(start + Limit, Cardinality(library)), total |-> Cardinality(library)]
PageItems(library, start) ==
    LET end == Pagination(library, start).end
        at[i \in start .. end - 1] == CHOOSE t \in library : Rank(library, t) = i
    IN [i \in 1 .. end - start |-> at[start + i - 1]]

\* Mutant: the page that ends one before the total counts as the last.
HasMore_Rounded(library, start) ==
    LET limits == Pagination(library, start) IN limits.end + 1 < limits.total

HasMore(library, start) ==
    LET limits == Pagination(library, start) IN limits.end < limits.total

-----------------------------------------------------------------------------
(* Kodi may leave the list of an empty result out; the music tools take    *)
(* that for an empty page, the video tools for a malformed one.            *)
Listed(c, library, keyed) ==
    keyed \/ (library = {} /\ call[c].expect = {"music"})

WellFormed(items) == \A i \in DOMAIN items : items[i] \notin Malformed

StartWalk(c, medium) ==
    /\ Start(c, [Fresh EXCEPT !.tool = "browse", !.pc = "page", !.expect = {medium}])
    /\ Issue(c, "VideoLibrary.GetMovies", 0)
BrowseVideo(c) == StartWalk(c, "video")
BrowseMusic(c) == StartWalk(c, "music")

Page(c) ==
    /\ Back(c, "page")
    /\ \E keyed \in BOOLEAN :
       LET library == Value(c)
           items == PageItems(library, call[c].want)
           walked == [call[c] EXCEPT !.got = @ \o items, !.libraries = Append(@, library)]
       IN /\ ~keyed => ~Failed(c) /\ items = <<>>
          /\ IF Failed(c) \/ ~Listed(c, library, keyed) \/ ~WellFormed(items)
               THEN Finish(c, FALSE)
             ELSE IF HasMore(library, call[c].want)
               THEN /\ Go(c, [walked EXCEPT !.want = Pagination(library, call[c].want).end])
                    /\ Issue(c, "VideoLibrary.GetMovies", 0)
               ELSE /\ Go(c, [walked EXCEPT !.pc = "done", !.want = 0, !.ok = TRUE])
                    /\ UNCHANGED <<kodi, transport>>

Parts(c, tool) ==             \* the identity first, then one page of its parts
    \E id \in Titles :
        /\ Start(c, [Fresh EXCEPT !.tool = tool, !.pc = "show", !.want = id])
        /\ Issue(c, "VideoLibrary.GetTVShowDetails", id)
Seasons(c) == Parts(c, "seasons")
AlbumSongs(c) == Parts(c, "album_songs")

ShowDetails(c) ==             \* -32602: not found
    /\ Back(c, "show")
    /\ IF Failed(c) \/ Value(c) = FALSE
         THEN Finish(c, FALSE)
         ELSE /\ Go(c, [call[c] EXCEPT !.pc = "seasons"])
              /\ Issue(c, "VideoLibrary.GetSeasons", call[c].want)

SeasonsPage(c) == Back(c, "seasons") /\ Finish(c, ~Failed(c))

Summary(c) ==
    /\ Start(c, [Fresh EXCEPT !.tool = "summary", !.pc = "counts", !.tries = 1])
    /\ Issue(c, "VideoLibrary.GetMovies", 0)

Counts(c) ==                  \* the first count that fails ends the summary
    /\ Back(c, "counts")
    /\ IF Failed(c) \/ call[c].tries = CountRequests
         THEN Finish(c, ~Failed(c))
         ELSE /\ Go(c, [call[c] EXCEPT !.tries = @ + 1])
              /\ Issue(c, "VideoLibrary.GetMovies", 0)

-----------------------------------------------------------------------------
Init == InitRequests /\ call = [c \in Calls |-> Fresh]

StartLibraryTool(c) ==
    BrowseVideo(c) \/ BrowseMusic(c) \/ Seasons(c) \/ AlbumSongs(c) \/ Summary(c)
LibraryStep(c) == Page(c) \/ ShowDetails(c) \/ SeasonsPage(c) \/ Counts(c)

(* A call's own steps: the transport's for it, then the tool's.            *)
Step(c) == ToolStep(c) \/ LibraryStep(c) \/ (Transport(c) /\ UNCHANGED call)

Next ==
    \/ \E c \in Calls : StartTool(c) \/ StartLibraryTool(c) \/ Step(c)
    \/ \E m \in late : (ArrivesLate(m) \/ IsDropped(m)) /\ UNCHANGED call
    \/ OthersAct /\ UNCHANGED call

Spec == Init /\ [][Next]_vars

-----------------------------------------------------------------------------
(* The tools use the transports as any client could.                       *)
TransportSpec == RequestSpec

(* A walk over a library that only grew meanwhile leaves out nothing that  *)
(* was there from the start; over one that only shrank it meets nothing    *)
(* twice.  So over a still library it meets everything exactly once.       *)
WalkIsComplete ==
    \A c \in Calls : call[c].tool = "browse" /\ At(c, "done") /\ call[c].ok =>
        LET got == call[c].got
            libraries == call[c].libraries
            pages == DOMAIN libraries
            met == {got[i] : i \in DOMAIN got}
        IN /\ (\A i, j \in pages : i <= j => libraries[i] \subseteq libraries[j])
                => libraries[1] \subseteq met
           /\ (\A i, j \in pages : i <= j => libraries[j] \subseteq libraries[i])
                => Len(got) = Cardinality(met)

=============================================================================
