---------------------------- MODULE Preferences ----------------------------
(***************************************************************************)
(* The settings page of the main window and what it saves (main.js): the   *)
(* copy in memory, which the first snapshot fills, what the application    *)
(* has stored, what the controls show, and the saves under way, one after  *)
(* the other for the settings of the experience and side by side for the   *)
(* rest. A setting is on or off here, and starts off.                      *)
(***************************************************************************)
EXTENDS Naturals, Sequences, SequencesExt, FiniteSets, TLC

CONSTANTS
    Fields,      \* experience settings, saved together
    Boxes,       \* download behaviour, saved together
    MaxChanges,  \* changes and resets
    MaxRefusals  \* saves the application refuses

VARIABLES
    memory, committed, displayed,  \* appState, the application's, the page's
    off,                   \* the controls that are disabled
    requests,              \* the saves under way, in the order they were asked for
    hydration, read,       \* the first snapshot: how far, and what it has read
    leaving,               \* reset-all was answered: the page is reloaded soon
    wished, spoiled, mixed, changes, refusals

prefVars == <<memory, committed, displayed, off, requests, hydration, read, leaving,
              wished, spoiled, mixed, changes, refusals>>

Single   == {"limit", "concurrency", "close", "startup", "media"}
Controls == Fields \cup Boxes \cup Single
Settings == [Controls -> BOOLEAN]
Defaults == [c \in Controls |-> FALSE]

PrefConstants ==
    /\ Fields \cap Boxes = {} /\ Single \cap (Fields \cup Boxes) = {}
    /\ {MaxChanges, MaxRefusals} \subseteq Nat

\* What a control's save sends along.
Group(c) == IF c \in Fields THEN Fields ELSE IF c \in Boxes THEN Boxes ELSE {c}

Request == [of : Controls, next : Settings, previous : Settings, attached : BOOLEAN,
            state : {"queued", "sent", "saved", "failed"}]

\* A page that starts has the defaults, and the media preferences it kept itself.
Loaded(stored) == [Defaults EXCEPT !["media"] = stored["media"]]

PrefInit ==
    /\ committed \in {Defaults, [c \in Controls |-> TRUE]}
    /\ memory = Loaded(committed) /\ displayed = memory
    /\ off = {} /\ requests = <<>> /\ hydration = "asked" /\ read = Defaults /\ leaving = FALSE
    /\ wished = committed /\ spoiled = {} /\ mixed = {} /\ changes = 0 /\ refusals = 0

history == <<wished, spoiled, mixed, changes, refusals>>
form    == <<displayed, off>>

Over(group, new, old) == [c \in Controls |-> IF c \in group THEN new[c] ELSE old[c]]
UnderWay(group) == {i \in DOMAIN requests : requests[i].of \in group}

----------------------------------------------------------------------------
(* Drawing                                                                 *)

\* The page is drawn anew: the old controls, which some answers hold, are gone.
Replaced(list) == [i \in DOMAIN list |-> [list[i] EXCEPT !.attached = FALSE]]
Draws(list) == displayed' = memory' /\ off' = {} /\ requests' = Replaced(list)
Keeps(list) == UNCHANGED form /\ requests' = list

DrawAgain ==
    /\ memory' = memory /\ Draws(requests)
    /\ UNCHANGED <<committed, hydration, read, leaving, history>>

----------------------------------------------------------------------------
(* Asking                                                                  *)

Requested(c, value, now) ==
    /\ changes < MaxChanges /\ changes' = changes + 1
    /\ LET next   == [memory EXCEPT ![c] = value]
           others == UnderWay(Group(c))
       IN /\ requests' = Append(requests,
                [of |-> c, next |-> next, previous |-> memory, attached |-> TRUE,
                 state |-> IF c \in Fields /\ others # {} THEN "queued" ELSE "sent"])
          /\ memory' = IF now THEN next ELSE memory
          /\ wished' = [wished EXCEPT ![c] = next[c]]
          /\ mixed' = IF others # {} \/ hydration # "done" \/ leaving
                      THEN mixed \cup Group(c) ELSE mixed
          /\ spoiled' = IF others # {} /\ c \notin Fields THEN spoiled \cup Group(c) ELSE spoiled
    /\ UNCHANGED <<committed, hydration, read, leaving, refusals>>

\* A control of the page is changed, and disabled until the answer if its handler says so.
Change(cs, disables) ==
    \E c \in cs \ off :
        /\ Requested(c, ~displayed[c], FALSE)
        /\ displayed' = [displayed EXCEPT ![c] = ~@]
        /\ off' = IF disables THEN off \cup {c} ELSE off

ChangeField  == Change(Fields, FALSE)
ChangeBox    == Change(Boxes, TRUE)
ChangeLimit  == Change({"limit"}, TRUE)
ChangeCount  == Change({"concurrency"}, TRUE)
ChangeClose  == Change({"close"}, TRUE)
ChangeStart  == Change({"startup"}, TRUE)

\* The news are opened, an update is looked for: memory has it before it is saved.
Note == (\E c \in Fields : Requested(c, ~memory[c], TRUE)) /\ UNCHANGED form

\* The media preferences stay in the page's own storage.
Media ==
    /\ changes < MaxChanges /\ changes' = changes + 1
    /\ memory' = [memory EXCEPT !["media"] = ~@]
    /\ committed' = [committed EXCEPT !["media"] = memory'["media"]]
    /\ wished' = [wished EXCEPT !["media"] = memory'["media"]]
    /\ Draws(requests)
    /\ UNCHANGED <<hydration, read, leaving, spoiled, mixed, refusals>>

----------------------------------------------------------------------------
(* The application                                                         *)

\* Commands are executed one at a time, in the order they were sent.
Execute ==
    /\ \E i \in DOMAIN requests :
         /\ requests[i].state = "sent"
         /\ \A j \in 1 .. i - 1 : requests[j].state # "sent"
         /\ LET r == requests[i] IN
            \/ /\ committed' = Over(Group(r.of), r.next, committed)
               /\ requests' = [requests EXCEPT ![i].state = "saved"]
               /\ UNCHANGED <<spoiled, refusals>>
            \/ /\ refusals < MaxRefusals /\ refusals' = refusals + 1
               /\ requests' = [requests EXCEPT ![i].state = "failed"]
               /\ spoiled' = spoiled \cup Group(r.of) /\ UNCHANGED committed
    /\ UNCHANGED <<memory, form, hydration, read, leaving, wished, mixed, changes>>

----------------------------------------------------------------------------
(* Answers, which may overtake each other                                  *)

Over1(r) == memory' = Over(Group(r.of), r.next, memory)

\* The chain: the next save is sent when the one before it was answered.
Released(list) ==
    LET waiting == {i \in DOMAIN list : list[i].of \in Fields}
    IN [i \in DOMAIN list |->
          IF i \in waiting /\ \A j \in waiting : i <= j /\ list[i].state = "queued"
          THEN [list[i] EXCEPT !.state = "sent"] ELSE list[i]]

\* persistExperienceSettings keeps what it sent, saved or not.
FieldAnswered(r, rest) == Over1(r) /\ Draws(Released(rest))

\* The behaviour, refused, is what it was when it was asked for.
BoxAnswered(r, rest) ==
    /\ memory' = Over(Boxes, IF r.state = "saved" THEN r.next ELSE r.previous, memory)
    /\ Draws(rest)

\* The limit, refused: the handler's event has no current target any more, so that
\* the control is neither enabled nor put back.
LimitAnswered(r, rest) ==
    \/ r.state = "saved" /\ Over1(r) /\ Draws(rest)
    \/ r.state = "failed" /\ UNCHANGED memory /\ Keeps(rest)
CountAnswered(r, rest) ==
    /\ IF r.state = "saved" THEN Over1(r) ELSE UNCHANGED memory
    /\ Draws(rest)

\* The close action touches its own control only, if it is still there.
CloseAnswered(r, rest) ==
    /\ IF r.state = "saved" THEN Over1(r) ELSE UNCHANGED memory
    /\ displayed' = IF r.attached /\ r.state = "failed"
                    THEN [displayed EXCEPT !["close"] = memory["close"]] ELSE displayed
    /\ off' = IF r.attached THEN off \ {"close"} ELSE off
    /\ requests' = rest
StartAnswered(r, rest) ==
    /\ IF r.state = "saved" THEN Over1(r) ELSE UNCHANGED memory
    /\ Draws(rest)

Replied ==
    /\ \E i \in DOMAIN requests :
         LET r == requests[i]  rest == RemoveAt(requests, i)
         IN /\ r.state \in {"saved", "failed"}
            /\ CASE r.of \in Fields        -> FieldAnswered(r, rest)
                 [] r.of \in Boxes         -> BoxAnswered(r, rest)
                 [] r.of = "limit"         -> LimitAnswered(r, rest)
                 [] r.of = "concurrency"   -> CountAnswered(r, rest)
                 [] r.of = "close"         -> CloseAnswered(r, rest)
                 [] r.of = "startup"       -> StartAnswered(r, rest)
    /\ UNCHANGED <<committed, hydration, read, leaving, history>>

----------------------------------------------------------------------------
(* The start and the reset                                                 *)

\* The first snapshot reads every setting at once, and replaces memory when it comes:
\* a change asked for in between is undone in memory only.
Reads ==
    /\ hydration = "asked" /\ hydration' = "read" /\ read' = committed
    /\ UNCHANGED <<memory, committed, form, requests, leaving, history>>

\* On the first start ever the settings of the experience are saved as they were read.
Migration ==
    IF Fields = {} \/ changes = MaxChanges THEN {}
    ELSE {Append(requests, [of |-> CHOOSE f \in Fields : TRUE, next |-> memory', previous |-> memory',
                            attached |-> TRUE,
                            state |-> IF UnderWay(Fields) = {} THEN "sent" ELSE "queued"])}
Hydrated(list) == changes' = changes + Len(list) - Len(requests)

Hydrate ==
    /\ hydration = "read" /\ hydration' = "done" /\ read' = Defaults
    /\ memory' = [read EXCEPT !["media"] = memory["media"]]
    /\ spoiled' = spoiled \cup {c \in Controls : memory'[c] # committed[c]}
                          \cup UNION {Group(requests[i].of) : i \in DOMAIN requests}
    /\ \E list \in {requests} \cup Migration : Hydrated(list) /\ Draws(list)
    /\ UNCHANGED <<committed, leaving, wished, mixed, refusals>>

\* Ten seconds pass without the snapshot: the page is drawn as it is, and the answer
\* changes memory only, until something else draws.
Defer ==
    /\ hydration = "read" /\ hydration' = "late"
    /\ UNCHANGED <<memory, committed, form, requests, read, leaving, history>>
HydrateLate ==
    /\ hydration = "late" /\ hydration' = "done" /\ read' = Defaults
    /\ memory' = [read EXCEPT !["media"] = memory["media"]]
    /\ spoiled' = spoiled
                    \cup {c \in Controls : memory'[c] # committed[c] \/ displayed[c] # memory'[c]}
                          \cup UNION {Group(requests[i].of) : i \in DOMAIN requests}
    /\ \E list \in {requests} \cup Migration : Hydrated(list) /\ Keeps(list)
    /\ UNCHANGED <<committed, leaving, wished, mixed, refusals>>

\* Reset-all, and the reset of the first start of a version: all that is stored is
\* dropped, and the page goes, with its media preferences, a little later.
Reset ==
    /\ changes < MaxChanges /\ changes' = changes + 1
    /\ ~leaving /\ leaving' = TRUE
    /\ committed' = Defaults /\ wished' = Defaults
    /\ mixed' = mixed \cup UNION {Group(requests[i].of) : i \in DOMAIN requests}
    /\ UNCHANGED <<memory, form, requests, hydration, read, spoiled, refusals>>

\* By then what was sent has been executed.
Reload ==
    /\ leaving /\ leaving' = FALSE
    /\ \A i \in DOMAIN requests : requests[i].state # "sent"
    /\ memory' = Loaded(committed) /\ displayed' = memory'
    /\ off' = {} /\ requests' = <<>>
    /\ hydration' = "asked" /\ read' = Defaults
    /\ mixed' = mixed \cup UNION {Group(requests[i].of) : i \in DOMAIN requests}
    /\ UNCHANGED <<committed, wished, spoiled, changes, refusals>>

----------------------------------------------------------------------------

PrefNext ==
    \/ ChangeField \/ ChangeBox \/ ChangeLimit \/ ChangeCount \/ ChangeClose \/ ChangeStart
    \/ Note \/ Media \/ DrawAgain \/ Execute \/ Replied
    \/ Reads \/ Hydrate \/ Defer \/ HydrateLate \/ Reset \/ Reload

PrefSpec == PrefInit /\ [][PrefNext]_prefVars

PrefTypes ==
    /\ {memory, committed, displayed, read, wished} \subseteq Settings
    /\ {off, spoiled, mixed} \subseteq SUBSET Controls
    /\ requests \in Seq(Request)
    /\ hydration \in {"asked", "read", "late", "done"} /\ leaving \in BOOLEAN
    /\ changes \in 0 .. MaxChanges /\ refusals \in 0 .. MaxRefusals

\* At rest the page, memory and the store agree on every setting, unless a save of it
\* failed, two saves of it that nothing orders overlapped, or the first snapshot came
\* over a change; and what is stored is what the user asked for last, unless two of its
\* changes overlapped or it was changed before the first snapshot or after a reset.
\* (The control of the close action, drawn anew before the answer, is left showing the
\* old one.)
SettingsKept ==
    (requests = <<>> /\ hydration = "done" /\ ~leaving) =>
        \A c \in Controls \ spoiled :
            /\ memory[c] = committed[c] /\ c \notin off
            /\ c # "close" => displayed[c] = memory[c]
            /\ c \notin mixed => committed[c] = wished[c]
=============================================================================
