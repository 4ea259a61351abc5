---------------------------- MODULE VideoSearch -----------------------------
(***************************************************************************)
(* The dialog that searches videos by title (app-ui/download-manager/      *)
(* events.js, view/dialogs.js; modules/components/optional-install.js): a  *)
(* search asks for two pages, may find that a component is missing and ask *)
(* whether to install it, and is given up for a newer one. The dialog may  *)
(* be closed and opened again while an answer is on its way.               *)
(***************************************************************************)
EXTENDS Naturals, FiniteSets

CONSTANTS
    Queries,      \* what is searched
    NoQuery,
    MaxQueries     \* what the user does

VARIABLES
    modal,                  \* "none" or "video-search"
    videoSearchRequestId, videoSearchQuery, videoSearchBusy,
    videoSearchResults,     \* the query whose results they are; NoQuery is none
    videoSearchComponentPrompt,
    pages,                \* the searches that go on
    installs,               \* how often the components' manager was asked for one
    queries

videoVars == <<modal, videoSearchRequestId, videoSearchQuery, videoSearchBusy,
               videoSearchResults, videoSearchComponentPrompt, pages, installs, queries>>

VideoConstants == NoQuery \notin Queries /\ MaxQueries \in Nat

Acts == queries < MaxQueries /\ queries' = queries + 1

\* at is what the search waits for: a page, or the decision on the component.
Flight == [id : Nat, query : Queries, at : {"first", "second", "prompt"}]

VideoInit ==
    /\ modal = "none"
    /\ videoSearchRequestId = 0 /\ videoSearchQuery = NoQuery /\ videoSearchBusy = FALSE
    /\ videoSearchResults = NoQuery /\ videoSearchComponentPrompt = FALSE
    /\ pages = {} /\ installs = 0 /\ queries = 0

\* Whether an answer is still asked for. (IsCurrentDialog: the dialog alone decides.)
IsCurrentDialog(f) == modal = "video-search"
IsCurrent(f) ==
    /\ videoSearchRequestId = f.id
    /\ modal = "video-search"
    /\ videoSearchQuery = f.query

\* videoSearchPromptResolve: the one search that waits for a decision.
Deciding == {f \in pages : f.at = "prompt"}

----------------------------------------------------------------------------
(* The dialog                                                              *)

OpenDialog ==
    /\ Acts /\ modal = "none" /\ modal' = "video-search"
    /\ videoSearchResults' = NoQuery /\ videoSearchComponentPrompt' = FALSE
    /\ UNCHANGED <<videoSearchRequestId, videoSearchQuery, videoSearchBusy, pages, installs>>

\* Its button declines the component that is asked about.
CloseButton ==
    /\ Acts /\ modal = "video-search" /\ modal' = "none"
    /\ IF Deciding = {} THEN UNCHANGED <<videoSearchComponentPrompt, videoSearchBusy>>
       ELSE videoSearchComponentPrompt' = FALSE /\ videoSearchBusy' = FALSE
    /\ pages' = pages \ Deciding
    /\ UNCHANGED <<videoSearchRequestId, videoSearchQuery, videoSearchResults, installs>>
\* Escape, a click beside it, a result that is analysed, a torrent that is dropped.
DismissDialog ==
    /\ Acts /\ modal = "video-search" /\ modal' = "none"
    /\ UNCHANGED <<videoSearchRequestId, videoSearchQuery, videoSearchBusy, videoSearchResults,
                   videoSearchComponentPrompt, pages, installs>>

\* clearDownloadManagerSearchState.
ClearState ==
    /\ Acts /\ modal' = "none"
    /\ videoSearchRequestId' = videoSearchRequestId + 1
    /\ videoSearchQuery' = NoQuery /\ videoSearchBusy' = FALSE
    /\ videoSearchResults' = NoQuery /\ videoSearchComponentPrompt' = FALSE
    /\ pages' = pages \ Deciding
    /\ UNCHANGED installs

----------------------------------------------------------------------------
(* A search                                                                *)

\* The search before goes on unheard, but declines its component.
Search(query) ==
    /\ Acts /\ modal = "video-search" /\ modal' = modal
    /\ videoSearchRequestId' = videoSearchRequestId + 1
    /\ videoSearchQuery' = query /\ videoSearchBusy' = TRUE
    /\ videoSearchComponentPrompt' = FALSE
    /\ pages' = (pages \ Deciding)
                  \cup {[id |-> videoSearchRequestId + 1, query |-> query, at |-> "first"]}
    /\ UNCHANGED <<videoSearchResults, installs>>

\* The first page is shown while the second is asked for.
FirstPage(f) ==
    /\ f \in pages /\ f.at = "first"
    /\ IF IsCurrent(f)
       THEN /\ videoSearchResults' = f.query
            /\ pages' = (pages \ {f}) \cup {[f EXCEPT !.at = "second"]}
       ELSE pages' = pages \ {f} /\ UNCHANGED videoSearchResults
    /\ UNCHANGED <<modal, videoSearchRequestId, videoSearchQuery, videoSearchBusy,
                   videoSearchComponentPrompt, installs, queries>>
SecondPage(f) ==
    /\ f \in pages /\ f.at = "second" /\ pages' = pages \ {f}
    /\ IF IsCurrent(f) THEN videoSearchResults' = f.query /\ videoSearchBusy' = FALSE
       ELSE UNCHANGED <<videoSearchResults, videoSearchBusy>>
    /\ UNCHANGED <<modal, videoSearchRequestId, videoSearchQuery, videoSearchComponentPrompt,
                   installs, queries>>
PageFails(f) ==
    /\ f \in pages /\ f.at # "prompt" /\ pages' = pages \ {f}
    /\ IF IsCurrent(f) THEN videoSearchResults' = NoQuery /\ videoSearchBusy' = FALSE
       ELSE UNCHANGED <<videoSearchResults, videoSearchBusy>>
    /\ UNCHANGED <<modal, videoSearchRequestId, videoSearchQuery, videoSearchComponentPrompt,
                   installs, queries>>

\* invokeWithOptionalComponent: a component is missing, and is not being installed.
\* A search that is not asked for any more is not asked about either.
ComponentMissing(f) ==
    /\ f \in pages /\ f.at # "prompt"
    /\ IF IsCurrent(f)
       THEN /\ videoSearchComponentPrompt' = TRUE /\ videoSearchBusy' = FALSE
            /\ pages' = (pages \ {f}) \cup {[f EXCEPT !.at = "prompt"]}
       ELSE /\ pages' = pages \ {f}
            /\ UNCHANGED <<videoSearchComponentPrompt, videoSearchBusy>>
    /\ UNCHANGED <<modal, videoSearchRequestId, videoSearchQuery, videoSearchResults, installs, queries>>

\* The components' manager takes over; the search ends unheard.
Accept ==
    /\ Acts /\ modal = "video-search" /\ videoSearchComponentPrompt /\ Deciding # {}
    /\ modal' = "none" /\ videoSearchRequestId' = videoSearchRequestId + 1
    /\ videoSearchComponentPrompt' = FALSE /\ videoSearchBusy' = FALSE
    /\ installs' = installs + Cardinality(Deciding)
    /\ pages' = pages \ Deciding
    /\ UNCHANGED <<videoSearchQuery, videoSearchResults>>
Decline ==
    /\ Acts /\ modal = "video-search" /\ videoSearchComponentPrompt
    /\ modal' = modal
    /\ videoSearchComponentPrompt' = FALSE /\ videoSearchBusy' = FALSE
    /\ videoSearchResults' = IF \E f \in Deciding : IsCurrent(f) THEN NoQuery ELSE videoSearchResults
    /\ pages' = pages \ Deciding
    /\ UNCHANGED <<videoSearchRequestId, videoSearchQuery, installs>>

VideoNext ==
    \/ OpenDialog \/ CloseButton \/ DismissDialog \/ ClearState \/ Accept \/ Decline
    \/ \E query \in Queries : Search(query)
    \/ \E f \in pages : FirstPage(f) \/ SecondPage(f) \/ PageFails(f) \/ ComponentMissing(f)

VideoSpec == VideoInit /\ [][VideoNext]_videoVars

----------------------------------------------------------------------------
(* Properties                                                              *)

\* Every variable has its type.
VideoTypes ==
    /\ modal \in {"none", "video-search"}
    /\ {videoSearchQuery, videoSearchResults} \subseteq Queries \cup {NoQuery}
    /\ {videoSearchBusy, videoSearchComponentPrompt} \subseteq BOOLEAN
    /\ pages \subseteq Flight
    /\ {videoSearchRequestId, installs, queries} \subseteq Nat

\* What the dialog shows is what was found for the words it shows, whatever was
\* searched before and answers late; and one search at most waits for a decision,
\* so that one consent asks for one installation.
VideoResultsFit ==
    /\ modal = "video-search" /\ ~videoSearchBusy /\ ~videoSearchComponentPrompt
       /\ videoSearchResults # NoQuery => videoSearchResults = videoSearchQuery
    /\ Cardinality(Deciding) <= 1
=============================================================================
