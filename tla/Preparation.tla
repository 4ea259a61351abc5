----------------------------- MODULE Preparation -----------------------------
(***************************************************************************)
(* The preparation window (app-ui/subwindow.js): a link is inspected, and  *)
(* resolved when it is a medium or a playlist; the sizes of a playlist's   *)
(* items are looked up in the background; the user chooses, confirms, and  *)
(* the window closes. Everything asked of the application is answered      *)
(* late, refused, or not current any more.                                 *)
(***************************************************************************)
EXTENDS Integers, Sequences, FiniteSets

CONSTANTS
    Items,           \* how many items the playlist has
    Preparations,    \* BOOLEAN for a window of HTTP downloads: no resolver
    MaxAsked         \* analyses, selections, formats and previews of the user

VARIABLES
    analyses, choices,          \* what the user has asked for
    request, generation,        \* activeAnalysisRequestId, sizeGeneration
    window,                     \* "open", "closing" (closeRequested) or "closed"
    busy, error, submitted,     \* what the window shows
    analysis,                   \* analysis or direct: what the link turned out to be
    items,                      \* selection and sizeStatus of each item
    sizeQueue, sizeActive,
    known,                      \* analysisCache
    pumps,                      \* timers of pumpSizeAnalysis
    calls                       \* what the application has not answered

prepVars == <<analyses, choices, request, generation, window, busy, error, submitted,
              analysis, items, sizeQueue, sizeActive, known, pumps, calls>>

PrepConstants == {Items, MaxAsked} \subseteq Nat /\ Preparations \subseteq BOOLEAN

Ids      == 1 .. Items
Statuses == {"pending", "analyzing", "known", "unknown"}
Item     == [selected : BOOLEAN, status : Statuses]
Results  == {"none", "media", "playlist", "direct"}

\* show is what the window shows of the run of the analysis.
shown  == <<busy, error, submitted>>
sizes  == <<items, sizeQueue, sizeActive, known, pumps>>
asked  == <<analyses, choices>>

\* Items in the order of the playlist.
InOrder(set) == [n \in 1 .. Cardinality(set) |->
                    CHOOSE i \in set : Cardinality({j \in set : j <= i}) = n]

Selected == {i \in Ids : items[i].selected}

\* analysisIsCurrent.
Current(c) == window = "open" /\ c.req = request /\ c.gen = generation

PrepInit ==
    /\ analyses = 0 /\ choices = 0 /\ request = 0 /\ generation = 0
    /\ window = "open"
    /\ busy = FALSE /\ error = FALSE /\ submitted = FALSE
    /\ analysis = "none"
    /\ items = [i \in Ids |-> [selected |-> TRUE, status |-> "pending"]]
    /\ sizeQueue = <<>> /\ sizeActive = 0 /\ known = {} /\ pumps = {} /\ calls = {}

Call(kind, item) == [kind |-> kind, item |-> item, req |-> request', gen |-> generation']

----------------------------------------------------------------------------
(* The analysis of the link                                                *)

\* analyzeSource, at the start and from the button of an error; a window whose
\* closing failed is opened again by it.
Analyze ==
    /\ window # "closed" /\ (analyses = 0 \/ error)
    /\ analyses + choices < MaxAsked
    /\ analyses' = analyses + 1
    /\ request' = analyses' /\ generation' = generation + 1
    /\ window' = "open"
    /\ sizeQueue' = <<>> /\ sizeActive' = 0
    /\ error' = FALSE /\ busy' = TRUE
    /\ analysis' = "none"
    /\ calls' = calls \cup {Call("inspect", 0)}
    /\ UNCHANGED <<choices, submitted, items, known, pumps>>

Rendered == UNCHANGED <<asked, request, generation, window, submitted>>

\* inspect_download_url is answered: a file, or a medium to be resolved.
Inspected(c) ==
    /\ c \in calls /\ c.kind = "inspect"
    /\ UNCHANGED <<asked, request, generation, window, submitted, error>> /\ UNCHANGED sizes
    /\ \/ /\ calls' = calls \ {c}
          /\ IF Current(c) THEN analysis' = "direct" /\ busy' = FALSE
             ELSE UNCHANGED <<analysis, busy>>
       \/ /\ FALSE \in Preparations
          /\ calls' = IF Current(c) THEN (calls \ {c}) \cup {[c EXCEPT !.kind = "media"]}
                      ELSE calls \ {c}
          /\ UNCHANGED <<analysis, busy>>

\* invokeMediaAnalysisWithRetry is answered; of a playlist the sizes are next.
Resolved(c) ==
    /\ c \in calls /\ c.kind = "media"
    /\ Rendered /\ UNCHANGED error
    /\ calls' = calls \ {c}
    /\ IF ~Current(c) THEN UNCHANGED <<analysis, busy>> /\ UNCHANGED sizes
       ELSE /\ busy' = FALSE
            /\ \/ analysis' = "media" /\ UNCHANGED sizes
               \/ /\ analysis' = "playlist"
                  /\ \E sized \in SUBSET Ids :
                        /\ items' = [i \in Ids |-> [selected |-> TRUE,
                                        status |-> IF i \in sized THEN "known" ELSE "pending"]]
                        /\ sizeQueue' = InOrder(Ids \ sized)
                  /\ pumps' = pumps \cup {generation}
                  /\ UNCHANGED <<sizeActive, known>>

\* Either fails, after the last attempt; the component that is missing may be
\* declined, which closes the window (onPromptCancelled).
FailedAnalysisUnsettled(c) ==
    /\ c \in calls /\ c.kind \in {"inspect", "media"}
    /\ Rendered
    /\ calls' = calls \ {c}
    /\ error' = IF Current(c) THEN TRUE ELSE error
    /\ UNCHANGED <<analysis, busy, sizes>>
FailedAnalysis(c) ==
    /\ c \in calls /\ c.kind \in {"inspect", "media"}
    /\ Rendered
    /\ calls' = calls \ {c}
    /\ IF Current(c) THEN error' = TRUE /\ busy' = FALSE ELSE UNCHANGED <<error, busy>>
    /\ UNCHANGED <<analysis, sizes>>

----------------------------------------------------------------------------
(* The sizes of the items                                                  *)

\* startSizeAnalysis.
Wanted(of) == InOrder({i \in Ids : of[i].selected /\ of[i].status # "known"})
StartsSizes(of) ==
    /\ sizeQueue' = Wanted(of)
    /\ pumps' = pumps \cup {generation'}

\* The search of the next item of pumpSizeAnalysis takes one entry off the queue
\* for every item it compares, and finds only the item that happens to be
\* compared with its own number.
Hits(queue) == {i \in Ids : i <= Len(queue) /\ queue[i] = i}
First(set)  == CHOOSE i \in set : \A j \in set : i <= j
Found(queue) == IF Hits(queue) = {} THEN 0 ELSE First(Hits(queue))
Left(queue)  == SubSeq(queue, (IF Found(queue) = 0 THEN Items ELSE Found(queue)) + 1, Len(queue))

\* pumpSizeAnalysis: at most two items at a time; what is not selected any more
\* is passed over.
Pumps(gen) ==
    /\ gen \in pumps
    /\ IF gen = generation /\ sizeActive < 2 /\ sizeQueue # <<>>
       THEN /\ sizeQueue' = Left(sizeQueue)
            /\ LET i == Found(sizeQueue) IN
               IF i = 0 THEN UNCHANGED <<items, sizeActive, calls>>
               ELSE IF ~items[i].selected THEN UNCHANGED <<items, sizeActive, calls>>
               ELSE /\ items' = [items EXCEPT ![i].status = "analyzing"]
                    /\ sizeActive' = sizeActive + 1
                    /\ calls' = calls \cup {[kind |-> "size", item |-> i, req |-> request, gen |-> gen]}
            /\ UNCHANGED pumps
       ELSE pumps' = pumps \ {gen} /\ UNCHANGED <<items, sizeQueue, sizeActive, calls>>
    /\ UNCHANGED <<asked, request, generation, window, shown, analysis, known>>

\* The item is analysed, or was before; an older generation only fills the cache.
Sized(c) ==
    /\ c \in calls /\ c.kind = "size"
    /\ calls' = calls \ {c}
    /\ \E answered \in BOOLEAN :
          /\ c.item \in known => answered
          /\ known' = IF answered THEN known \cup {c.item} ELSE known
          /\ IF c.gen # generation THEN UNCHANGED <<items, sizeActive, pumps>>
             ELSE /\ \E status \in {"unknown"} \cup IF answered THEN {"known"} ELSE {} :
                        items' = [items EXCEPT ![c.item].status = status]
                  /\ sizeActive' = IF sizeActive > 0 THEN sizeActive - 1 ELSE 0
                  /\ pumps' = pumps \cup {c.gen}
    /\ UNCHANGED <<asked, request, generation, window, shown, analysis, sizeQueue>>

----------------------------------------------------------------------------
(* What the user chooses                                                   *)

Chooses == window = "open" /\ analyses + choices < MaxAsked /\ choices' = choices + 1 /\ UNCHANGED analyses
List    == analysis = "playlist" /\ ~busy /\ ~error

\* The box of an item, or of all.
Select(chosen, value) ==
    /\ Chooses /\ List
    /\ items' = [i \in Ids |-> IF i \in chosen THEN [items[i] EXCEPT !.selected = value] ELSE items[i]]
    /\ UNCHANGED <<request, generation, window, shown, analysis, sizeActive, known, calls>>
    /\ IF value THEN StartsSizes(items') ELSE UNCHANGED <<sizeQueue, pumps>>

\* The format of the playlist: its sizes are looked up again, and what is under
\* way is no longer counted.
ChooseFormat ==
    /\ Chooses /\ List
    /\ generation' = generation + 1 /\ sizeActive' = 0
    /\ items' = [i \in Ids |-> IF items[i].status = "unknown" THEN items[i]
                               ELSE [items[i] EXCEPT !.status = "pending"]]
    /\ StartsSizes(items')
    /\ UNCHANGED <<request, window, shown, analysis, known, calls>>

\* A preview, or the choice of a folder: only its failure is seen.
Opens ==
    /\ Chooses /\ ~busy /\ analysis # "none"
    /\ UNCHANGED <<request, generation>>
    /\ calls' = calls \cup {Call("open", 0)}
    /\ UNCHANGED <<window, shown, analysis, sizes>>

\* showError.
Errs == error' = TRUE /\ busy' = FALSE /\ submitted' = FALSE

Opened(c) ==
    /\ c \in calls /\ c.kind = "open"
    /\ calls' = calls \ {c}
    /\ UNCHANGED shown \/ Errs
    /\ UNCHANGED <<asked, request, generation, window, analysis, sizes>>

\* confirmDownload.
Confirm ==
    /\ window = "open" /\ ~busy /\ ~submitted /\ ~error /\ analysis # "none"
    /\ analysis = "playlist" => Selected # {}
    /\ submitted' = TRUE /\ busy' = TRUE
    /\ UNCHANGED <<request, generation>>
    /\ calls' = calls \cup {Call("queue", 0)}
    /\ UNCHANGED <<asked, window, error, analysis, sizes>>

\* It is queued, and the window closes; or refused; or the user gave up the
\* choice of a folder, and may confirm again.
Queued(c) ==
    /\ c \in calls /\ c.kind = "queue"
    /\ \/ /\ busy' = FALSE
          /\ calls' = (calls \ {c}) \cup {[c EXCEPT !.kind = "leave"]}
          /\ UNCHANGED <<error, submitted>>
       \/ calls' = calls \ {c} /\ Errs
       \/ calls' = calls \ {c} /\ busy' = FALSE /\ submitted' = FALSE /\ UNCHANGED error
    /\ UNCHANGED <<asked, request, generation, window, analysis, sizes>>

\* The button that closes, and a component that is declined.
Close ==
    /\ window = "open" /\ window' = "closing"
    /\ generation' = generation + 1 /\ request' = 0
    /\ sizeQueue' = <<>>
    /\ calls' = calls \cup {Call("close", 0)}
    /\ UNCHANGED <<asked, shown, analysis, items, sizeActive, known, pumps>>
Closed(c) ==
    /\ c \in calls /\ c.kind \in {"close", "leave"}
    /\ calls' = calls \ {c}
    /\ \/ window' = "closed" /\ UNCHANGED shown
       \/ UNCHANGED window /\ IF c.kind = "close" THEN Errs ELSE UNCHANGED shown
    /\ UNCHANGED <<asked, request, generation, analysis, sizes>>

----------------------------------------------------------------------------
Answered(kinds) == window # "closed" /\ \E c \in calls :
    /\ c.kind \in kinds
    /\ \/ Inspected(c) \/ Resolved(c) \/ FailedAnalysis(c)
       \/ Sized(c) \/ Opened(c) \/ Queued(c) \/ Closed(c)
Analyses == {"inspect", "media"}
Decisions  == {"open", "queue", "close", "leave"}
PumpsDue == window # "closed" /\ \E gen \in pumps : Pumps(gen)
Chosen ==
    \/ ChooseFormat \/ Opens \/ Confirm \/ Close
    \/ \E chosen \in {{i} : i \in Ids} \cup {Ids}, value \in BOOLEAN : Select(chosen, value)

PrepNext ==
    \/ window # "closed" /\ (Analyze \/ Chosen)
    \/ Answered(Analyses) \/ Answered({"size"}) \/ Answered(Decisions)
    \/ PumpsDue

\* Answers come, and timers run out; the user owes nothing.
PrepSpec ==
    /\ PrepInit /\ [][PrepNext]_prepVars
    /\ WF_prepVars(Answered(Analyses)) /\ WF_prepVars(Answered({"size"}))
    /\ WF_prepVars(Answered(Decisions)) /\ WF_prepVars(PumpsDue)

TypeOK ==
    /\ analyses \in 0 .. MaxAsked /\ choices \in 0 .. MaxAsked
    /\ request \in 0 .. MaxAsked /\ generation \in Nat
    /\ window \in {"open", "closing", "closed"} /\ {busy, error, submitted} \subseteq BOOLEAN
    /\ analysis \in Results /\ items \in [Ids -> Item]
    /\ \A i \in 1 .. Len(sizeQueue) : sizeQueue[i] \in Ids
    /\ sizeActive \in 0 .. 2 /\ known \subseteq Ids

\* The window does not work for ever: an analysis and a confirmation end, with
\* an error if need be, or the window is left.
BusyEnds == busy ~> (~busy \/ window # "open")
=============================================================================
