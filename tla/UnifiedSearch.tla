---------------------------- MODULE UnifiedSearch ----------------------------
(***************************************************************************)
(* The search box of the list (app-ui/download-manager/search.js): what is *)
(* typed is searched for after a pause, in two pages; the searches that    *)
(* are under way are shared by their text, and are cancelled, fail, take   *)
(* too long or ask for a component; a link, or a suggestion, is submitted. *)
(***************************************************************************)
EXTENDS Naturals, FiniteSets

CONSTANTS
    Words,       \* texts that are searched for
    Link,        \* a text that is a source
    Title,       \* the title of a suggestion
    Nothing,     \* no text; and no suggestions
    MaxInputs    \* texts typed, boxes cleared, links submitted

VARIABLES
    query, request,     \* unifiedQuery, unifiedRequestId
    busy,               \* unifiedSuggestionBusy
    suggestions,        \* the text whose results are shown
    timer, drain,       \* the pause, and the search that follows it
    flights,            \* invocations that have not ended
    kept, remote,       \* the cache, and remoteQuery
    prompt,             \* the flight that asks for the component
    submitting,         \* unifiedBusy
    inputs

searchVars == <<query, request, busy, suggestions, timer, drain, flights, kept, remote,
                prompt, submitting, inputs>>

SearchConstants ==
    /\ MaxInputs \in Nat /\ Words # {}
    /\ {Link, Title, Nothing} \cap Words = {} /\ Cardinality({Link, Title, Nothing}) = 3

Pages   == {1, 2}
Keys    == Words \X Pages
Ids     == 0 .. MaxInputs + MaxInputs
\* A flight is known by the request it was made for; it is in the cache until it is late.
Flights == [by : Ids, word : Words, page : Pages, cached : BOOLEAN]
\* on is the flight that is awaited.
Drain   == [word : Words, req : Ids, page : 0 .. 2, on : Ids]
Idle    == [word |-> CHOOSE w \in Words : TRUE, req |-> 0, page |-> 0, on |-> 0]

SearchInit ==
    /\ query = Nothing /\ request = 0 /\ busy = FALSE /\ suggestions = Nothing
    /\ timer = Idle /\ drain = Idle /\ flights = {}
    /\ kept = [key \in Keys |-> "none"] /\ remote = Nothing
    /\ prompt = 0 /\ submitting = FALSE /\ inputs = 0

\* A drain is stale once something else was typed. isCurrent of a flight is the
\* same of the request that made it.
CurrentById(d) == d.req = request
Current(d)     == d.req = request /\ d.word = query

----------------------------------------------------------------------------
(* The searches                                                            *)

\* The key of the cache answers, a flight under way is joined, or one is made.
Ask(word, page, others) ==
    LET shared == {f \in others : f.word = word /\ f.page = page /\ f.cached}
    IN  /\ kept[<<word, page>>] = "none"
        /\ IF shared = {}
           THEN /\ flights' = others \cup {[by |-> request, word |-> word, page |-> page,
                                            cached |-> TRUE]}
                /\ drain' = [word |-> word, req |-> request, page |-> page, on |-> request]
           ELSE /\ flights' = others
                /\ \E f \in shared :
                      drain' = [word |-> word, req |-> request, page |-> page, on |-> f.by]

Results(word, value) == IF value = "some" THEN word ELSE Nothing

\* The end of drainUnifiedSuggestionRequest.
Drained(others, shown) ==
    /\ drain' = Idle /\ busy' = FALSE /\ suggestions' = shown /\ flights' = others

\* What follows the first page, and the second.
Goes(word, page, value, others) ==
    \/ /\ page = 1
       /\ suggestions' = Results(word, value)
       /\ Ask(word, 2, others)
       /\ UNCHANGED <<busy, remote>>
    \/ /\ page = 2
       /\ Drained(others, IF value = "some" THEN word ELSE suggestions)
       /\ remote' = suggestions'
    \/ /\ page = 1 /\ kept[<<word, 2>>] # "none"
       /\ Drained(others, IF kept[<<word, 2>>] = "some" THEN word ELSE Results(word, value))
       /\ remote' = suggestions'

\* The pause is over: results at hand are filtered, or the first page is asked for.
Pause ==
    /\ timer.page = 1
    /\ timer' = Idle
    /\ UNCHANGED <<query, request, kept, prompt, submitting, inputs>>
    /\ \/ ~Current(timer) /\ UNCHANGED <<busy, suggestions, drain, flights, remote>>
       \/ /\ Current(timer) /\ remote # Nothing
          /\ Drained(flights, timer.word) /\ remote' = timer.word
       \/ /\ Current(timer) /\ Ask(timer.word, 1, flights)
          /\ UNCHANGED <<busy, suggestions, remote>>
       \/ /\ Current(timer) /\ kept[<<timer.word, 1>>] # "none"
          /\ Goes(timer.word, 1, kept[<<timer.word, 1>>], flights)

\* Of the flights that end, or are late, the one that is awaited is heard of. A
\* first page that failed shows nothing; a second one leaves what the first showed.
Awaited(f) == drain.page # 0 /\ drain.on = f.by /\ drain.page = f.page /\ f.cached
Hears(f, value, others) ==
    IF ~Awaited(f)
    THEN flights' = others /\ UNCHANGED <<drain, busy, suggestions, remote>>
    ELSE IF ~Current(drain)
    THEN drain' = Idle /\ flights' = others /\ UNCHANGED <<busy, suggestions, remote>>
    ELSE IF value \in {"some", "empty"}
    THEN Goes(f.word, f.page, value, others)
    ELSE /\ Drained(others, IF value = "cancelled" \/ f.page = 2 THEN suggestions ELSE Nothing)
         /\ remote' = IF f.page = 2 THEN suggestions ELSE remote

\* A flight ends. Its results are kept, whoever reads them, if it was not late.
Ends(f, value) ==
    /\ kept' = IF value \in {"some", "empty"} /\ f.cached
               THEN [kept EXCEPT ![<<f.word, f.page>>] = value] ELSE kept
    /\ Hears(f, value, flights \ {f})

\* The application answers; a later search cancels the ones before.
Answer(f) ==
    /\ f \in flights /\ prompt # f.by
    /\ \E value \in {"some", "empty", "failed", "cancelled"} :
          /\ value = "cancelled" => f.by # request
          /\ Ends(f, value)
    /\ UNCHANGED <<query, request, timer, prompt, submitting, inputs>>

\* The race with UNIFIED_SUGGESTION_TIMEOUT_MS; the invocation goes on, unheard.
TimesOutUnheard(f) ==
    /\ f \in flights /\ f.cached
    /\ flights' = (flights \ {f}) \cup {[f EXCEPT !.cached = FALSE]}
    /\ UNCHANGED <<query, request, timer, kept, prompt, submitting, inputs>>
    /\ UNCHANGED <<drain, busy, suggestions, remote>>
TimesOut(f) ==
    /\ f \in flights /\ f.cached
    /\ Hears(f, "late", (flights \ {f}) \cup {[f EXCEPT !.cached = FALSE]})
    /\ UNCHANGED <<query, request, timer, kept, prompt, submitting, inputs>>

\* The component is missing: the user is asked, or nobody is when something else
\* was typed meanwhile.
Missing(f) ==
    /\ f \in flights /\ prompt # f.by
    /\ IF f.by = request /\ f.word = query
       THEN /\ prompt' = f.by /\ busy' = FALSE
            /\ UNCHANGED <<kept, drain, suggestions, remote, flights>>
       ELSE Ends(f, "failed") /\ UNCHANGED prompt
    /\ UNCHANGED <<query, request, timer, submitting, inputs>>

\* The component is installed elsewhere, and the search ends without a result,
\* which is kept; or the prompt is dismissed.
Decide ==
    /\ prompt # 0 /\ prompt' = 0
    /\ \E f \in flights : f.by = prompt /\
        \/ /\ request' = request + 1
           /\ kept' = IF f.cached THEN [kept EXCEPT ![<<f.word, f.page>>] = "empty"] ELSE kept
           /\ flights' = flights \ {f} /\ drain' = Idle
           /\ UNCHANGED <<busy, suggestions, remote>>
        \/ UNCHANGED request /\ Ends(f, "failed")
    /\ UNCHANGED <<query, timer, submitting, inputs>>

----------------------------------------------------------------------------
(* What the user does                                                      *)

Input == inputs < MaxInputs /\ inputs' = inputs + 1

\* The search of the prompt is refused; what awaited it is stale.
Refuse == prompt' = 0 /\ flights' = {f \in flights : prompt = 0 \/ f.by # prompt}

\* scheduleUnifiedSuggestions.
Type(text) ==
    /\ Input /\ Refuse
    /\ query' = text /\ request' = request + 1
    /\ suggestions' = Nothing /\ busy' = (text \in Words)
    /\ timer' = IF text \in Words THEN [word |-> text, req |-> request', page |-> 1, on |-> 0]
                ELSE Idle
    /\ UNCHANGED <<drain, kept, remote, submitting>>

\* The button that clears the box leaves the request and the pause alone.
Clear ==
    /\ Input /\ Refuse /\ query # Nothing
    /\ query' = Nothing /\ suggestions' = Nothing /\ busy' = FALSE
    /\ UNCHANGED <<request, timer, drain, kept, remote, submitting>>

\* submitUnifiedInput, of a link or of a suggestion, whose title becomes the text;
\* a torrent has a dialog of its own.
Submit ==
    /\ Input /\ ~submitting
    /\ request' = request + 1 /\ timer' = Idle
    /\ busy' = FALSE
    /\ \/ query = Link /\ submitting' \in BOOLEAN /\ UNCHANGED query
       \/ suggestions # Nothing /\ submitting' = TRUE /\ query' = Title
    /\ UNCHANGED <<suggestions, drain, flights, kept, remote, prompt>>

\* onAnalyzeSource has opened its window, or failed.
Submitted ==
    /\ submitting /\ submitting' = FALSE
    /\ \/ query' = Nothing /\ suggestions' = Nothing
       \/ UNCHANGED <<query, suggestions>>
    /\ UNCHANGED <<request, busy, timer, drain, flights, kept, remote, prompt, inputs>>

\* UNIFIED_SUGGESTION_CACHE_TTL_MS have passed, or the cache is full.
Forget ==
    /\ \/ \E key \in Keys : /\ kept[key] # "none"
                            /\ kept' = [kept EXCEPT ![key] = "none"] /\ UNCHANGED remote
       \/ remote # Nothing /\ remote' = Nothing /\ UNCHANGED kept
    /\ UNCHANGED <<query, request, busy, suggestions, timer, drain, flights, prompt,
                   submitting, inputs>>

Users   == Clear \/ Submit \/ \E text \in Words \cup {Link, Nothing} : Type(text)
Answers == \E f \in flights : Answer(f) \/ Missing(f)
Late    == \E f \in flights : TimesOut(f)

SearchNext == Users \/ Answers \/ Late \/ Pause \/ Decide \/ Submitted \/ Forget

\* Timers run out; the application, and the user, need not answer.
SearchSpec ==
    /\ SearchInit /\ [][SearchNext]_searchVars
    /\ WF_searchVars(Pause) /\ WF_searchVars(Late)

TypeOK ==
    /\ query \in Words \cup {Link, Title, Nothing} /\ suggestions \in Words \cup {Nothing}
    /\ {request, prompt, inputs} \subseteq Ids
    /\ {timer, drain} \subseteq Drain /\ flights \subseteq Flights
    /\ kept \in [Keys -> {"none", "some", "empty"}] /\ remote \in Words \cup {Nothing}
    /\ {busy, submitting} \subseteq BOOLEAN

\* What is suggested was found for the text in the box, or for the text whose
\* suggestion was submitted.
SuggestionsFit == suggestions \in {Nothing, query} \/ query = Title

\* A text that is being searched for does not stay so: results come, or none.
SearchEnds == (busy /\ query \in Words) ~> (~busy \/ query \notin Words)
=============================================================================
