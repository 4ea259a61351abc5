----------------------------- MODULE Rendering -----------------------------
(***************************************************************************)
(* When the main window is drawn.  A refresh that comes while a control is *)
(* open or edited is put off to a flush; a change of section is drawn      *)
(* inside a view transition, in a callback of the browser; a change of     *)
(* theme is captured, shown and cleaned up, holds every drawing meanwhile  *)
(* and keeps at most one later request.                                    *)
(***************************************************************************)
EXTENDS Naturals

CONSTANTS
    Sections,      \* appState.activeSection
    Themes,        \* the themes to choose from
    Untouched,     \* Themes: the theme the window opens with
    NoTheme,       \* no pendingThemeRequest
    MaxRefreshes,  \* refreshes of what is shown
    MaxGestures    \* controls opened, sections and themes chosen

RenderConstants ==
    /\ "downloads" \in Sections /\ Untouched \in Themes /\ NoTheme \notin Themes
    /\ MaxRefreshes \in Nat /\ MaxGestures \in Nat

VARIABLES
    unshown,       \* something differs from what is drawn
    interacting,   \* downloadManagerInteractionIsActive()
    deferred,      \* deferredDownloadManagerRefresh
    flush,         \* deferredDownloadManagerRefreshTimer
    active,        \* activeSection, chosen
    lastSection,   \* lastRenderedSection
    callbacks,     \* document transitions whose update has not run yet
    chosen,        \* the theme of appState.appearance
    theme,         \* data-theme of the page
    transition,    \* data-theme-transitioning, and how far it is: "none" when absent
    running,       \* activeThemeTransition
    goal,          \* the theme a transition was started for
    pending,       \* pendingThemeRequest
    renderHeld,    \* themeRenderPending
    refreshes, gestures

renderVars == <<unshown, interacting, deferred, flush, active, lastSection, callbacks, chosen,
                theme, transition, running, goal, pending, renderHeld, refreshes, gestures>>
themeVars == <<theme, transition, running, goal, pending>>

RenderInit ==
    /\ unshown = FALSE /\ interacting = FALSE /\ deferred = FALSE /\ flush = FALSE
    /\ active = "downloads" /\ lastSection = active /\ callbacks = 0
    /\ chosen = Untouched /\ theme = Untouched /\ transition = "none" /\ running = FALSE
    /\ goal = NoTheme /\ pending = NoTheme /\ renderHeld = FALSE
    /\ refreshes = 0 /\ gestures = 0

\* render(): held by a theme transition; a new section is drawn in a callback.
Render(place, state) ==
    /\ renderHeld' = (renderHeld \/ state # "none")
    /\ IF state # "none"
       THEN unshown' = TRUE /\ UNCHANGED <<lastSection, callbacks>>
       ELSE IF lastSection # place
            THEN callbacks' = callbacks + 1 /\ unshown' = TRUE /\ UNCHANGED lastSection
            ELSE unshown' = FALSE /\ UNCHANGED <<lastSection, callbacks>>

\* requestDownloadManagerRender, for a snapshot, a message, an answer.
Refresh ==
    /\ refreshes < MaxRefreshes /\ refreshes' = refreshes + 1
    /\ IF interacting
       THEN /\ deferred' = TRUE /\ flush' = TRUE /\ unshown' = TRUE
            /\ UNCHANGED <<lastSection, callbacks, renderHeld>>
       ELSE deferred' = FALSE /\ Render(active, transition) /\ UNCHANGED flush
    /\ UNCHANGED <<interacting, active, chosen, gestures>> /\ UNCHANGED themeVars

\* The timer of flushDeferredDownloadManagerRefresh.
FlushDropped ==
    /\ flush /\ flush' = FALSE /\ deferred' = FALSE
    /\ IF deferred /\ ~interacting THEN Render(active, transition)
       ELSE UNCHANGED <<unshown, lastSection, callbacks, renderHeld>>
    /\ UNCHANGED <<interacting, active, chosen, refreshes, gestures>> /\ UNCHANGED themeVars
Flush ==
    /\ flush /\ flush' = FALSE
    /\ IF deferred /\ ~interacting
       THEN deferred' = FALSE /\ Render(active, transition)
       ELSE UNCHANGED <<deferred, unshown, lastSection, callbacks, renderHeld>>
    /\ UNCHANGED <<interacting, active, chosen, refreshes, gestures>> /\ UNCHANGED themeVars

Gesture == gestures < MaxGestures /\ gestures' = gestures + 1

\* A control is opened, which draws it, or an input takes the focus.
Open ==
    /\ Gesture /\ ~interacting /\ interacting' = TRUE
    /\ \/ Render(active, transition)
       \/ UNCHANGED <<unshown, lastSection, callbacks, renderHeld>>
    /\ UNCHANGED <<deferred, flush, active, chosen, refreshes>> /\ UNCHANGED themeVars

\* It is left: the focus, the pointer or a key says so, or closing it draws the page.
Leave ==
    /\ interacting /\ interacting' = FALSE
    /\ \/ flush' = TRUE /\ UNCHANGED <<unshown, lastSection, callbacks, renderHeld>>
       \/ Render(active, transition) /\ UNCHANGED flush
    /\ UNCHANGED <<deferred, active, chosen, refreshes, gestures>> /\ UNCHANGED themeVars

\* Another section: its first drawing is a document transition.
Navigate ==
    /\ Gesture /\ ~interacting
    /\ \E place \in Sections \ {active} :
         active' = place /\ Render(place, transition)
    /\ UNCHANGED <<interacting, deferred, flush, chosen, refreshes>> /\ UNCHANGED themeVars

\* The browser runs the update of a document transition, skipped or not: renderUnsafe().
Callback ==
    /\ callbacks > 0 /\ callbacks' = callbacks - 1
    /\ lastSection' = active /\ unshown' = FALSE
    /\ theme' = chosen
    /\ UNCHANGED <<interacting, deferred, flush, active, chosen, transition, running, goal,
                   pending, renderHeld, refreshes, gestures>>

\* applyThemeWithMotion: one transition at a time, the last request waits; a theme
\* that is there, reduced motion and a trigger without a place apply at once.
Start(t) ==
    \/ theme' = t /\ UNCHANGED <<transition, running, goal>>
    \/ /\ theme # t /\ transition' = "captured" /\ running' = TRUE /\ goal' = t
       /\ UNCHANGED theme
ChooseTheme ==
    /\ Gesture
    /\ \E t \in Themes \ {chosen} :
         /\ chosen' = t
         /\ IF running THEN pending' = t /\ UNCHANGED <<theme, transition, running, goal>>
            ELSE Start(t) /\ UNCHANGED pending
    /\ UNCHANGED <<unshown, interacting, deferred, flush, active, lastSection, callbacks,
                   renderHeld, refreshes>>

\* runThemeTransition: the update, ...
Captured ==
    /\ transition = "captured" /\ transition' = "shown" /\ theme' = goal
    /\ UNCHANGED <<unshown, interacting, deferred, flush, active, lastSection, callbacks,
                   chosen, running, goal, pending, renderHeld, refreshes, gestures>>

\* ... and cleanupTheme, whose event releases the drawing that was held.
Finished ==
    /\ transition = "shown" /\ transition' = "none"
    /\ IF renderHeld
       THEN /\ renderHeld' = FALSE
            /\ IF lastSection # active
               THEN callbacks' = callbacks + 1 /\ UNCHANGED <<unshown, theme>>
               ELSE unshown' = FALSE /\ theme' = chosen /\ UNCHANGED callbacks
       ELSE UNCHANGED <<renderHeld, unshown, callbacks, theme>>
    /\ UNCHANGED <<interacting, deferred, flush, active, lastSection, chosen, running, goal,
                   pending, refreshes, gestures>>

\* The request that waited is taken up.
ResumedFirst ==
    /\ running /\ transition = "none" /\ running' = FALSE /\ pending' = NoTheme
    /\ UNCHANGED <<theme, transition, goal>>
Resumed ==
    /\ running /\ transition = "none" /\ pending' = NoTheme
    /\ IF pending = NoTheme
       THEN running' = FALSE /\ UNCHANGED <<theme, transition, goal>>
       ELSE \/ theme' = pending /\ running' = FALSE /\ UNCHANGED <<transition, goal>>
            \/ /\ theme # pending /\ transition' = "captured" /\ goal' = pending
               /\ running' = TRUE /\ UNCHANGED theme
Resume ==
    /\ Resumed
    /\ UNCHANGED <<unshown, interacting, deferred, flush, active, lastSection, callbacks,
                   chosen, renderHeld, refreshes, gestures>>

RenderNext ==
    \/ Refresh \/ Flush \/ Open \/ Leave \/ Navigate \/ Callback
    \/ ChooseTheme \/ Captured \/ Finished \/ Resume

\* Timers and the browser's callbacks come; nobody has to leave a control.
RenderFair ==
    /\ WF_renderVars(Flush) /\ WF_renderVars(Callback)
    /\ WF_renderVars(Captured \/ Finished \/ Resume)
RenderSpec == RenderInit /\ [][RenderNext]_renderVars /\ RenderFair

TypeOK ==
    /\ {unshown, interacting, deferred, flush, running, renderHeld} \subseteq BOOLEAN
    /\ {active, lastSection} \subseteq Sections /\ callbacks \in Nat
    /\ {chosen, theme} \subseteq Themes /\ {goal, pending} \subseteq Themes \cup {NoTheme}
    /\ transition \in {"none", "captured", "shown"}

\* Once nothing is edited any more the page shows what there is, in the section
\* and in the theme chosen last: no refresh that was put off and no drawing that a
\* transition held is forgotten (requestDownloadManagerRender, render,
\* applyThemeWithMotion).
RendersCatchUp ==
    <>[]~interacting => <>[](~unshown /\ lastSection = active /\ theme = chosen)
=============================================================================
