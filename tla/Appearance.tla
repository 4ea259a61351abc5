----------------------------- MODULE Appearance -----------------------------
(***************************************************************************)
(* The look of the application: what the main window holds and shows, the  *)
(* save that follows a change (main.js), the revision the application puts *)
(* on it and tells every window (commands/settings.rs, appearance/sync.js) *)
(* and the icon of the application (modules/appearance). Each look has an  *)
(* accent, and an icon, of its own.                                        *)
(***************************************************************************)
EXTENDS Naturals, Sequences

CONSTANTS
    Looks, NoLook,
    MaxLooks,      \* looks the user tries or takes
    MaxOpenings,   \* windows opened
    MaxMishaps     \* saves and icons that fail

VARIABLES
    look, revision,              \* appState.appearance, of the main window
    dom, preview,                \* what it shows; pendingLiveAppearance
    persisting, draft,           \* appearancePersistTimer; a look tried and not taken
    calls,                       \* the saves sent and not yet executed
    stored,                      \* the application's
    announced,                   \* appearance-changed, told and not yet heard, by window
    icon, nextIcon, setting,     \* lastApplied and pendingNativeIconVariant; the worker's
    stage, lookOf, answerOf,     \* each window that opens: how far, its look, its read
    chosen, overrun, unstored, missed, late, tried, openings, mishaps

lookVars == <<look, revision, dom, preview, persisting, draft, calls, stored, announced,
              icon, nextIcon, setting, stage, lookOf, answerOf, chosen, overrun, unstored, missed,
              late, tried, openings, mishaps>>

\* A preparation window listens and then reads; the player reads and then listens.
Windows == {"prep", "player"}
Hearers == Windows \cup {"main"}

LookConstants ==
    /\ NoLook \notin Looks /\ {MaxLooks, MaxOpenings, MaxMishaps} \subseteq Nat

Saved == [look : Looks, revision : Nat]

\* As the first snapshot leaves it.
LookInit ==
    /\ \E l \in Looks : stored = [look |-> l, revision |-> 1]
    /\ look = stored.look /\ revision = 1 /\ dom = look /\ preview = NoLook
    /\ persisting = FALSE /\ draft = FALSE /\ calls = <<>>
    /\ announced = [h \in Hearers |-> <<>>]
    /\ icon = look /\ nextIcon = NoLook /\ setting = NoLook
    /\ stage = [w \in Windows |-> "closed"]
    /\ lookOf = [w \in Windows |-> stored] /\ answerOf = lookOf
    /\ chosen = look /\ overrun = FALSE /\ unstored = FALSE /\ missed = FALSE
    /\ late = {} /\ tried = 0 /\ openings = 0 /\ mishaps = 0

iconVars  == <<icon, nextIcon, setting, missed>>
otherVars == <<stage, lookOf, answerOf, late>>
mainVars  == <<look, revision, dom, preview, persisting, draft, chosen, overrun>>
storeVars == <<calls, stored, announced, unstored>>
counters  == <<tried, openings, mishaps>>

----------------------------------------------------------------------------
(* Changing the look                                                       *)

Changes(l) ==
    /\ tried < MaxLooks /\ tried' = tried + 1
    /\ l # look /\ look' = l /\ chosen' = l
    /\ UNCHANGED <<revision, overrun, storeVars, iconVars, otherVars, openings, mishaps>>

\* No hand goes from the colour picker to another control within a frame.
FrameDrawn == preview = NoLook

\* applyAppearance: every variable of the page, whatever it had drawn.
Drawn(l) == dom' = l

\* An accent or an icon colour is picked, the colours are put back, a theme is asked
\* for: shown at once and saved a little later.
Swatch(l) ==
    /\ FrameDrawn /\ Changes(l) /\ Drawn(l)
    /\ persisting' = TRUE /\ draft' = FALSE /\ UNCHANGED preview

\* A slider or a field moves: shown at once, saved when it is let go.
Slide(l) ==
    /\ FrameDrawn /\ Changes(l) /\ Drawn(l)
    /\ draft' = TRUE /\ UNCHANGED <<preview, persisting>>

\* The colour picker moves: shown in the next frame, the last of its colours.
Pick(l) == Changes(l) /\ preview' = l /\ draft' = TRUE /\ UNCHANGED <<dom, persisting>>

\* A scale or an accent, from the list of downloads.
Outside(l) ==
    /\ Changes(l) /\ persisting' = TRUE /\ draft' = FALSE
    /\ \/ FrameDrawn /\ Drawn(l) /\ UNCHANGED preview
       \/ preview' = l /\ UNCHANGED dom

ChangeLook == \E l \in Looks : Swatch(l) \/ Slide(l) \/ Pick(l) \/ Outside(l)

Frame ==
    /\ preview # NoLook /\ dom' = preview /\ preview' = NoLook
    /\ UNCHANGED <<look, revision, persisting, draft, chosen, overrun, storeVars, iconVars,
                   otherVars, counters>>

Commit ==
    /\ draft /\ draft' = FALSE /\ persisting' = TRUE
    /\ UNCHANGED <<look, revision, dom, preview, chosen, overrun, storeVars, iconVars, otherVars,
                   counters>>

\* A resize, with the scale automatic, and a render draw what is held.
Resized ==
    /\ Drawn(look)
    /\ UNCHANGED <<look, revision, preview, persisting, draft, chosen, overrun, storeVars, iconVars,
                   otherVars, counters>>

----------------------------------------------------------------------------
(* The icon                                                                *)

\* applyNativeApplicationIcon: what the icon is already is not asked for again, even if
\* the worker is putting on another one.
Icon(l) ==
    IF l = icon THEN /\ missed' = (missed \/ setting # NoLook)
                     /\ UNCHANGED <<icon, nextIcon, setting>>
    ELSE /\ IF setting = NoLook THEN setting' = l /\ nextIcon' = NoLook
                                ELSE nextIcon' = l /\ UNCHANGED setting
         /\ missed' = FALSE /\ UNCHANGED icon

\* The worker: the next variant, if another was asked for meanwhile.
IconSet ==
    /\ setting # NoLook
    /\ \/ icon' = setting /\ UNCHANGED <<mishaps, missed>>
       \/ /\ mishaps < MaxMishaps /\ mishaps' = mishaps + 1
          /\ missed' = (missed \/ nextIcon = NoLook) /\ UNCHANGED icon
    /\ setting' = IF nextIcon = icon' THEN NoLook ELSE nextIcon
    /\ nextIcon' = IF nextIcon = icon' THEN nextIcon ELSE NoLook
    /\ UNCHANGED <<mainVars, storeVars, otherVars, tried, openings>>

----------------------------------------------------------------------------
(* Saving                                                                  *)

\* persistAppearance: what is held by then.
Persist ==
    /\ persisting /\ persisting' = FALSE /\ draft' = FALSE
    /\ Drawn(look) /\ calls' = Append(calls, look)
    /\ Icon(look)
    /\ UNCHANGED <<look, revision, preview, chosen, overrun, stored, announced, unstored,
                   otherVars, counters>>

StillOpening == {w \in Windows : stage[w] \notin {"closed", "open"}}
Hears(h) == h = "main" \/ stage[h] = "open" \/ (h = "prep" /\ stage[h] # "closed")

\* save_appearance_settings: the next revision, told to all; or an error nobody is shown.
StoreLook ==
    /\ calls # <<>> /\ calls' = Tail(calls)
    /\ \/ /\ stored' = [look |-> Head(calls), revision |-> stored.revision + 1]
          /\ announced' = [h \in Hearers |-> IF Hears(h) THEN Append(announced[h], stored')
                                                       ELSE announced[h]]
          /\ late' = late \cup StillOpening
          /\ UNCHANGED <<unstored, mishaps>>
       \/ /\ mishaps < MaxMishaps /\ mishaps' = mishaps + 1 /\ unstored' = TRUE
          /\ UNCHANGED <<stored, announced, late>>
    /\ UNCHANGED <<mainVars, iconVars, stage, lookOf, answerOf, tried, openings>>

----------------------------------------------------------------------------
(* Hearing                                                                 *)

Newer(event, known) == event.revision > known

\* The main window takes the look of a newer revision, whatever it holds by then.
Heard ==
    /\ announced["main"] # <<>>
    /\ announced' = [announced EXCEPT !["main"] = Tail(@)]
    /\ LET e == Head(announced["main"]) IN
       IF Newer(e, revision)
       THEN /\ look' = e.look /\ revision' = e.revision /\ Drawn(e.look)
            /\ overrun' = (overrun \/ e.look # look) /\ draft' = FALSE
            /\ Icon(e.look)
            /\ UNCHANGED <<preview, persisting, chosen>>
       ELSE UNCHANGED <<mainVars, iconVars>>
    /\ UNCHANGED <<calls, stored, unstored, otherVars, counters>>

\* Another window does so too.
HeardElsewhere ==
    /\ \E w \in Windows :
         /\ announced[w] # <<>>
         /\ announced' = [announced EXCEPT ![w] = Tail(@)]
         /\ lookOf' = [lookOf EXCEPT ![w] = IF Newer(Head(announced[w]), @.revision)
                                        THEN Head(announced[w]) ELSE @]
    /\ UNCHANGED <<calls, stored, unstored, mainVars, iconVars, stage, answerOf, late, counters>>

\* What the browser keeps of it: what the main window stored last, or another window.
Remembered == {look, stored.look}

\* It opens, with the look kept in the browser; it reads; the answer comes, whatever it
\* has heard by then; and it is closed.
Open ==
    /\ openings < MaxOpenings /\ openings' = openings + 1
    /\ \E w \in Windows :
         /\ stage[w] = "closed" /\ stage' = [stage EXCEPT ![w] = "asking"]
         /\ \E l \in Remembered : lookOf' = [lookOf EXCEPT ![w] = [look |-> l, revision |-> revision]]
         /\ announced' = [announced EXCEPT ![w] = <<>>] /\ late' = late \ {w}
    /\ UNCHANGED <<answerOf, calls, stored, unstored, mainVars, iconVars, tried, mishaps>>
Serve ==
    /\ \E w \in Windows :
         /\ stage[w] = "asking" /\ stage' = [stage EXCEPT ![w] = "served"]
         /\ answerOf' = [answerOf EXCEPT ![w] = stored]
    /\ UNCHANGED <<lookOf, late, storeVars, mainVars, iconVars, counters>>
Receive ==
    /\ \E w \in Windows :
         /\ stage[w] = "served"
         /\ stage' = [stage EXCEPT ![w] = IF w = "prep" THEN "open" ELSE "binding"]
         /\ lookOf' = [lookOf EXCEPT ![w] = answerOf[w]]
    /\ UNCHANGED <<answerOf, late, storeVars, mainVars, iconVars, counters>>
Bind ==
    /\ stage["player"] = "binding" /\ stage' = [stage EXCEPT !["player"] = "open"]
    /\ UNCHANGED <<lookOf, answerOf, late, storeVars, mainVars, iconVars, counters>>
CloseOne ==
    /\ \E w \in Windows :
         /\ stage[w] = "open" /\ stage' = [stage EXCEPT ![w] = "closed"]
         /\ announced' = [announced EXCEPT ![w] = <<>>]
    /\ UNCHANGED <<lookOf, answerOf, late, calls, stored, unstored, mainVars, iconVars, counters>>

----------------------------------------------------------------------------

LookNext ==
    \/ ChangeLook \/ Frame \/ Commit \/ Resized \/ Persist \/ IconSet
    \/ StoreLook \/ Heard \/ HeardElsewhere
    \/ Open \/ Serve \/ Receive \/ Bind \/ CloseOne

LookSpec == LookInit /\ [][LookNext]_lookVars

LookTypes ==
    /\ {look, dom, chosen, icon} \subseteq Looks /\ revision \in Nat
    /\ {preview, nextIcon, setting} \subseteq Looks \cup {NoLook}
    /\ {persisting, draft, overrun, unstored, missed} \subseteq BOOLEAN
    /\ calls \in Seq(Looks) /\ stored \in Saved /\ announced \in [Hearers -> Seq(Saved)]
    /\ stage \in [Windows -> {"closed", "asking", "served", "binding", "open"}]
    /\ lookOf \in [Windows -> Saved] /\ answerOf \in [Windows -> Saved] /\ late \subseteq Windows
    /\ tried \in 0 .. MaxLooks /\ openings \in 0 .. MaxOpenings /\ mishaps \in 0 .. MaxMishaps

\* Once every change is saved and told, the main window holds the look that is stored,
\* shows it and wears its icon, and it is the one the user chose last; so does every
\* other window. But for a save or an icon that failed, a save told while the user was
\* at another look, an icon asked for again while it was being changed, and a window
\* that was opening during a save.
LookSettles ==
    (/\ ~persisting /\ ~draft /\ preview = NoLook /\ calls = <<>>
     /\ \A h \in Hearers : announced[h] = <<>>) =>
        /\ unstored \/ look = stored.look
        /\ overrun \/ (dom = look /\ look = chosen)
        /\ setting = NoLook => missed \/ icon = look
        /\ \A w \in Windows \ late : stage[w] = "open" => lookOf[w].look = stored.look
=============================================================================
