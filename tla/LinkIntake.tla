----------------------------- MODULE LinkIntake -----------------------------
(***************************************************************************)
(* The links the main window takes in: the one in the clipboard, looked at *)
(* when the window gets the focus (modules/link-intake), the prompts that  *)
(* propose it, one at a time, and the routing of any link, the user's, the *)
(* extension's or the clipboard's, to the window that prepares it          *)
(* (modules/downloads).                                                    *)
(***************************************************************************)
EXTENDS Naturals, Sequences, SequencesExt

CONSTANTS
    Files,       \* links whose inspection says "direct"
    Videos,      \* links whose inspection says "media" or "playlist"
    NoLink,      \* no link in the clipboard, no prompt
    MaxCopies,   \* links put in the clipboard
    MaxInputs    \* links the user, or the extension, asks for; menus and dialogs opened

VARIABLES
    clipboard, focused,        \* what it holds; focusTimer
    check, observed,           \* pending, and how far; lastObservedUrl
    suggest, suppressing,      \* clipboardAutoSuggest; its change is being saved
    queue, active,             \* the coordinator's
    prompt, drawn,             \* clipboardPrompt, and the one on the page
    transient,                 \* what is open: "none", "menu", "dialog"
    latest, routes,            \* linkRouteRequestId; the requests under way
    windows, refused,          \* requests sent to their window, in order; and refused
    copies, inputs, proposed, answered, handled

intakeVars == <<clipboard, focused, check, observed, suggest, suppressing, queue, active, prompt,
                drawn, transient, latest, routes, windows, refused, copies, inputs, proposed,
                answered, handled>>

IntakeConstants ==
    /\ NoLink \notin Files \cup Videos /\ Files \cap Videos = {}
    /\ {MaxCopies, MaxInputs} \subseteq Nat

Links == Files \cup Videos
Intents == 1 .. MaxCopies + MaxCopies + MaxInputs
Route == [id : Intents, link : Links, auto : BOOLEAN, stage : {"inspecting", "opening"}]
Idle  == [stage |-> "none", link |-> NoLink]

IntakeInit ==
    /\ clipboard = NoLink /\ focused = FALSE /\ check = Idle /\ observed = NoLink
    /\ suggest = TRUE /\ suppressing = FALSE
    /\ queue = <<>> /\ active = NoLink /\ prompt = NoLink /\ drawn = NoLink /\ transient = "none"
    /\ latest = 0 /\ routes = {} /\ windows = <<>> /\ refused = {}
    /\ copies = 0 /\ inputs = 0 /\ proposed = 0 /\ answered = 0 /\ handled = 0

watching == <<focused, check, observed, handled>>
settings == <<suggest, suppressing>>
prompts  == <<queue, active, prompt, drawn, proposed, answered>>
routing  == <<latest, routes, windows, refused>>
used     == <<clipboard, copies, inputs>>

----------------------------------------------------------------------------
(* Routing                                                                 *)

\* routeLinkIntent up to its first await. A link already inspected goes straight
\* to its window; another is inspected first.
Take(link, auto, known) ==
    /\ latest' = latest + 1
    /\ routes' = routes \cup {[id |-> latest', link |-> link, auto |-> auto,
                               stage |-> IF known THEN "opening" ELSE "inspecting"]}
    /\ windows' = IF known THEN Append(windows, latest') ELSE windows
    /\ UNCHANGED refused

\* The inspection answers: a request that is not the latest ends without a word.
Stale(r) == r.id # latest
Inspected ==
    /\ \E r \in {x \in routes : x.stage = "inspecting"} :
         \/ /\ Stale(r)
            /\ routes' = routes \ {r} /\ UNCHANGED <<windows, refused>>
         \/ /\ ~Stale(r)                            \* openNativePreparationWindow
            /\ routes' = (routes \ {r}) \cup {[r EXCEPT !.stage = "opening"]}
            /\ windows' = Append(windows, r.id) /\ UNCHANGED refused
         \/ /\ ~Stale(r)                            \* the inspection failed
            /\ routes' = routes \ {r} /\ refused' = refused \cup {r.id} /\ UNCHANGED windows
    /\ UNCHANGED <<latest, used, watching, settings, prompts, transient>>

\* The window is there, or could not be opened and a toast says so. The clipboard's
\* check waits for its own.
Opened ==
    /\ \E r \in {x \in routes : x.stage = "opening"} :
         /\ routes' = routes \ {r}
         /\ refused' \in {refused, refused \cup {r.id}}
         /\ IF r.auto THEN check' = Idle /\ observed' = r.link
                      ELSE UNCHANGED <<check, observed>>
    /\ UNCHANGED <<latest, windows, focused, handled, used, settings, prompts, transient>>

\* A link is submitted in the box, dropped, or asked for by the extension.
Asked ==
    /\ inputs < MaxInputs /\ inputs' = inputs + 1
    /\ \E link \in Links : Take(link, FALSE, FALSE)
    /\ UNCHANGED <<clipboard, copies, watching, settings, prompts, transient>>

----------------------------------------------------------------------------
(* The prompts                                                             *)

\* The page as it is drawn: a dialog hides the prompt.
Page(link, open) == IF open = "dialog" THEN NoLink ELSE link

\* requestDownloadManagerRender waits while a menu or a dialog is open.
Presented(link) == drawn' = IF transient = "none" THEN link ELSE drawn

\* presentNext: what is shown keeps its place.
Present(waiting) ==
    IF active # NoLink
    THEN queue' = waiting /\ UNCHANGED <<active, prompt, drawn>>
    ELSE /\ queue' = Tail(waiting) /\ active' = Head(waiting) /\ prompt' = Head(waiting)
         /\ Presented(Head(waiting))

\* enqueue: the same link is not taken twice.
Enqueue(link) ==
    IF link = active \/ link \in ToSet(queue)
    THEN UNCHANGED prompts
    ELSE Present(Append(queue, link)) /\ proposed' = proposed + 1 /\ UNCHANGED answered

\* finishClipboardPrompt: the page is drawn at once, and the next prompt presented
\* once the first one's promise is resolved.
Answer ==
    /\ answered' = answered + 1 /\ UNCHANGED proposed
    /\ IF queue = <<>>
       THEN active' = NoLink /\ prompt' = NoLink /\ drawn' = NoLink /\ UNCHANGED queue
       ELSE /\ queue' = Tail(queue) /\ active' = Head(queue) /\ prompt' = Head(queue)
            /\ drawn' = IF transient = "none" THEN Head(queue) ELSE NoLink

\* A button of the prompt: cancelled, analysed, and never again if the box is ticked.
Chosen ==
    /\ drawn # NoLink
    /\ Answer
    /\ \/ Take(prompt, FALSE, FALSE)
       \/ UNCHANGED routing
    /\ suppressing' \in {suppressing, TRUE} /\ UNCHANGED suggest
    /\ UNCHANGED <<used, watching, transient>>

\* Escape, with a menu open: it takes the prompt for what is to be closed, seen or not.
Escape ==
    /\ transient = "menu" /\ prompt # NoLink
    /\ Answer
    /\ UNCHANGED <<used, watching, settings, routing, transient>>

Suppressed ==
    /\ suppressing /\ suppressing' = FALSE /\ suggest' = FALSE
    /\ UNCHANGED <<used, watching, prompts, routing, transient>>

\* A menu or a dialog is opened, not over a prompt, and closed: both draw the page.
Cover ==
    /\ inputs < MaxInputs /\ inputs' = inputs + 1
    /\ transient = "none" /\ drawn = NoLink
    /\ transient' \in {"menu", "dialog"}
    /\ drawn' = Page(prompt, transient')
    /\ UNCHANGED <<clipboard, copies, watching, settings, queue, active, prompt, proposed,
                   answered, routing>>
Uncover ==
    /\ transient # "none" /\ transient' \in {transient, "none"}   \* or drawn as it stands
    /\ drawn' = Page(prompt, transient')
    /\ UNCHANGED <<used, watching, settings, queue, active, prompt, proposed, answered, routing>>

----------------------------------------------------------------------------
(* The clipboard                                                           *)

Copy ==
    /\ copies < MaxCopies /\ copies' = copies + 1
    /\ clipboard' \in Links \ {clipboard}
    /\ UNCHANGED <<inputs, watching, settings, prompts, routing, transient>>

\* The window gets the focus: the look at the clipboard is put off a little.
Focus ==
    /\ ~focused /\ focused' = TRUE
    /\ UNCHANGED <<check, observed, handled, used, settings, prompts, routing, transient>>

\* checkClipboard: not during another, nor when suggestions are off or a dialog shows.
Enabled == suggest /\ drawn = NoLink /\ transient # "dialog"
Look ==
    /\ focused /\ focused' = FALSE
    /\ check' = IF check = Idle /\ Enabled THEN [Idle EXCEPT !.stage = "reading"] ELSE check
    /\ UNCHANGED <<observed, handled, used, settings, prompts, routing, transient>>

\* What was read is not a link, or is the one observed last; or it is inspected.
Read ==
    /\ check.stage = "reading"
    /\ check' \in {Idle} \cup (IF clipboard \in {NoLink, observed} THEN {}
                               ELSE {[stage |-> "inspecting", link |-> clipboard]})
    /\ UNCHANGED <<focused, observed, handled, used, settings, prompts, routing, transient>>

\* A file goes straight to its window; a video is proposed; the rest, and what could
\* not be inspected, is ignored. But for the file, the link is observed now.
Classified ==
    /\ check.stage = "inspecting"
    /\ \/ /\ check.link \in Files
          /\ Take(check.link, TRUE, TRUE)
          /\ check' = [check EXCEPT !.stage = "opening"]
          /\ handled' = handled + 1
          /\ UNCHANGED <<observed, prompts>>
       \/ /\ check.link \in Videos
          /\ Enqueue(check.link)
          /\ check' = Idle /\ observed' = check.link
          /\ handled' = handled + 1
          /\ UNCHANGED routing
       \/ /\ check' = Idle /\ observed' = check.link
          /\ UNCHANGED <<handled, prompts, routing>>
    /\ UNCHANGED <<focused, used, settings, transient>>

----------------------------------------------------------------------------

IntakeNext ==
    \/ Copy \/ Focus \/ Look \/ Read \/ Classified
    \/ Asked \/ Inspected \/ Opened
    \/ Chosen \/ Escape \/ Suppressed \/ Cover \/ Uncover

IntakeSpec == IntakeInit /\ [][IntakeNext]_intakeVars

----------------------------------------------------------------------------
(* Properties                                                              *)

\* Every variable has its type.
IntakeTypes ==
    /\ {clipboard, observed, active, prompt, drawn} \subseteq Links \cup {NoLink}
    /\ {focused, suggest, suppressing} \subseteq BOOLEAN
    /\ check \in [stage : {"none", "reading", "inspecting", "opening"}, link : Links \cup {NoLink}]
    /\ queue \in Seq(Links) /\ transient \in {"none", "menu", "dialog"}
    /\ latest \in 0 .. MaxCopies + MaxCopies + MaxInputs /\ routes \subseteq Route
    /\ windows \in Seq(Intents) /\ refused \subseteq Intents
    /\ copies \in 0 .. MaxCopies /\ inputs \in 0 .. MaxInputs
    /\ {proposed, answered, handled} \subseteq Nat

\* Every link the coordinator took is answered, shown or waiting for its turn: a prompt
\* never replaces another one, whose promise nobody would resolve.
PromptsKept ==
    /\ proposed = answered + Len(queue) + (IF active # NoLink THEN 1 ELSE 0)
    /\ active = prompt

\* What opens is what was asked for last: windows are asked for in the order of the
\* requests, and once nothing is under way the latest request has opened a window or
\* been refused aloud. A copied link is handled at most once, however often the
\* window gets the focus.
LinksServed ==
    /\ \A i, j \in DOMAIN windows : i < j => windows[i] < windows[j]
    /\ (routes = {} /\ latest > 0) => latest \in ToSet(windows) \cup refused
    /\ handled <= copies
=============================================================================
