----------------------------- MODULE ImageEditor -----------------------------
(***************************************************************************)
(* The image editor (app-ui/modules/images/images.js): one document in     *)
(* memory, its history, what is being opened, and the projects it writes   *)
(* to its database; the automatic session is one of them. Everything that  *)
(* awaits - a decoder, an encoder, the database - lets the user go on.     *)
(***************************************************************************)
EXTENDS Integers, Sequences

CONSTANTS
    HistoryLimit,   \* entries the history keeps
    MaxEdits,       \* changes of the document by the user
    MaxOpens,       \* images, projects and collages opened
    MaxSaves,       \* times a project or the session is written
    MaxFailures       \* decodings and writings that fail

VARIABLES
    doc,         \* size and layers of the document; a layer is its last edit
    loaded, hist, index, restoring, stroke,
    timer,       \* the timer of the automatic session
    opens,       \* what is being opened
    saves,       \* what is being written
    session, project, attached,   \* the two records; attached: activeProjectId
    clearing,    \* storage.clear("projects"), between its read and its writes
    booted,
    stale,       \* a failure or an overlap has left the records behind the document
    edits, failures

EditorConstants ==
    /\ HistoryLimit \in Nat \ {0}
    /\ {MaxEdits, MaxOpens, MaxSaves, MaxFailures} \subseteq Nat

picture    == <<doc, loaded, hist, index, restoring, stroke>>
records    == <<session, project, attached, clearing, stale>>
editorVars == <<picture, timer, opens, saves, records, booted, edits, failures>>

Sizes   == {1, 2}
Stamps  == 0 .. MaxEdits + MaxOpens
NoDoc   == [size |-> 1, layers |-> <<>>]
Image(stamp) == [size |-> 2, layers |-> <<stamp>>]
Slots   == 1 .. MaxOpens
Copies  == 1 .. MaxSaves

Closed  == [kind |-> "none", phase |-> "idle", doc |-> NoDoc, mine |-> FALSE]
Copied(phase, manual, saved) ==
    [phase |-> phase, manual |-> manual, live |-> FALSE, array |-> <<>>, doc |-> saved]
Unsaved == Copied("idle", FALSE, NoDoc)

LatestForever(s, n) == s
Latest(s, n) == IF Len(s) > n THEN SubSeq(s, Len(s) - n + 1, Len(s)) ELSE s

\* pushHistory over the entries `base` up to `top`, and scheduleAutosave.
Pushed(base, top) ==
    /\ hist' = Latest(Append(SubSeq(base, 1, top), doc'), HistoryLimit)
    /\ index' = Len(hist')
    /\ timer' = TRUE

\* A user's change of the document: recorded unless a project is being restored.
Recorded ==
    IF restoring THEN UNCHANGED <<hist, index, timer>> ELSE Pushed(hist, index)

\* The history is emptied before another document is recorded.
Renewed ==
    IF restoring THEN hist' = <<>> /\ index' = 0 /\ UNCHANGED timer ELSE Pushed(<<>>, 0)

\* state.layers is assigned: a project being written goes on with the old array.
Detached ==
    saves' = [c \in Copies |->
                IF saves[c].live THEN [saves[c] EXCEPT !.live = FALSE, !.array = doc.layers]
                                 ELSE saves[c]]

EditorInit ==
    /\ doc = NoDoc /\ loaded = FALSE /\ hist = <<>> /\ index = 0
    /\ restoring = FALSE /\ stroke = FALSE /\ timer = FALSE
    /\ opens = [s \in Slots |-> Closed]
    /\ saves = [c \in Copies |-> Unsaved]
    /\ session \in {NoDoc, [size |-> 1, layers |-> <<0, 0>>]}
    /\ project = NoDoc /\ attached = FALSE /\ clearing = [on |-> FALSE, kept |-> NoDoc]
    /\ booted = FALSE /\ stale = FALSE /\ edits = 0 /\ failures = 0

----------------------------------------------------------------------------
(* Edits                                                                   *)

Stamp == edits + 1
Edits ==
    /\ loaded /\ edits < MaxEdits
    /\ edits' = edits + 1
    /\ UNCHANGED <<loaded, restoring, opens, records, booted, failures>>

\* One layer is painted in place and the change recorded.
Painted ==
    /\ Edits
    /\ \E i \in DOMAIN doc.layers : doc' = [doc EXCEPT !.layers[i] = Stamp]
    /\ Recorded
    /\ UNCHANGED <<stroke, saves>>
Adjust           == Painted   \* applyAdjustments, applyFilter
RemoveBackground == Painted   \* processRemoveBackground
Pixelate         == Painted   \* applyPixelate
ArrangeLayer     == Painted   \* what a layer's row changes: visible, name, blending

\* A pencil's stroke, and a dragged opacity, change the layer at once and are
\* recorded when they end; so do the eraser's and the retouching brush's.
Draw ==
    /\ Edits /\ ~stroke
    /\ \E i \in DOMAIN doc.layers : doc' = [doc EXCEPT !.layers[i] = Stamp]
    /\ stroke' = TRUE
    /\ UNCHANGED <<hist, index, timer, saves>>
Erase   == Draw               \* manualRemoveBrush
Retouch == Draw               \* paintRetouch
StrokeEnds ==
    /\ stroke
    /\ stroke' = FALSE
    /\ UNCHANGED doc
    /\ Recorded
    /\ UNCHANGED <<loaded, restoring, opens, saves, records, booted, edits, failures>>

\* A layer is added to the array.
Added ==
    /\ Edits
    /\ doc' = [doc EXCEPT !.layers = Append(@, Stamp)]
    /\ Recorded
    /\ UNCHANGED <<stroke, saves>>
AddText   == Added            \* applyText
AddShape  == Added            \* applyShape
Watermark == Added            \* applyWatermark
Duplicate == Added            \* duplicateActiveLayer

\* The array is replaced: a layer deleted, the visible ones merged.
DropLayer ==
    /\ Edits /\ Len(doc.layers) > 1
    /\ doc' = [doc EXCEPT !.layers = Tail(@)]
    /\ Detached
    /\ Recorded
    /\ UNCHANGED stroke

\* Every layer is drawn anew, on a canvas that may have another size.
Transformed ==
    /\ Edits
    /\ \E size \in Sizes :
         doc' = [size |-> size, layers |-> [i \in DOMAIN doc.layers |-> Stamp]]
    /\ Detached
    /\ Recorded
    /\ UNCHANGED stroke
Crop   == Transformed         \* applyCrop
Resize == Transformed         \* applyResize
Turn   == Transformed         \* rotateCanvas, flipCanvas

\* applyBackground: a layer is put before the others, which are drawn anew only
\* if there is a margin.
Background ==
    /\ Edits
    /\ \/ /\ doc' = [size |-> 2, layers |-> [i \in 1 .. 1 + Len(doc.layers) |-> Stamp]]
          /\ Detached
       \/ /\ doc' = [doc EXCEPT !.layers = <<Stamp>> \o @]
          /\ UNCHANGED saves
    /\ Recorded
    /\ UNCHANGED stroke

\* (StepsUnsaved: the session is not planned.)
StepsUnsaved(to) ==
    /\ index' = to /\ doc' = hist[to] /\ restoring' = FALSE
    /\ Detached
    /\ UNCHANGED <<timer, loaded, hist, stroke, opens, records, booted, edits, failures>>
\* undo and redo: restoreSnapshot clears `restoring`, whoever had set it.
StepsTo(to) ==
    /\ index' = to
    /\ doc' = hist[to]
    /\ restoring' = FALSE
    /\ timer' = TRUE
    /\ Detached
    /\ UNCHANGED <<loaded, hist, stroke, opens, records, booted, edits, failures>>
Undo == index > 1 /\ StepsTo(index - 1)
Redo == index < Len(hist) /\ StepsTo(index + 1)

----------------------------------------------------------------------------
(* Opening                                                                 *)

Fault == failures < MaxFailures /\ failures' = failures + 1

Opens(s, what) ==
    /\ opens[s].kind = "none" /\ \A other \in Slots : other < s => opens[other].kind # "none"
    /\ opens' = [opens EXCEPT ![s] = what]
Proceeds(s, phase) == opens' = [opens EXCEPT ![s].phase = phase]

\* An image is chosen, dropped, pasted, posted by the window, or taken from
\* the library: as the document, or as one of its layers (addImageLayer).
OpenImage(s) ==
    /\ \E kind \in {"image"} \cup (IF loaded THEN {"layer", "collage"} ELSE {}) :
         Opens(s, [kind |-> kind, phase |-> "decoding", doc |-> Image(MaxEdits + s), mine |-> TRUE])
    /\ UNCHANGED <<picture, timer, saves, records, booted, edits, failures>>

\* restoreProject: the canvas takes the project's size before it is decoded.
Restores(s, saved, mine) ==
    /\ Opens(s, [kind |-> "project", phase |-> "decoding", doc |-> saved, mine |-> mine])
    /\ restoring' = TRUE
    /\ doc' = [doc EXCEPT !.size = saved.size]
    /\ UNCHANGED <<loaded, hist, index, stroke, timer, saves, records, edits, failures>>
OpenProject(s) == project # NoDoc /\ Restores(s, project, TRUE) /\ UNCHANGED booted
\* init: the session, if there is one.
Boot(s) ==
    /\ ~booted /\ booted' = TRUE
    /\ IF session # NoDoc THEN Restores(s, session, FALSE)
       ELSE UNCHANGED <<picture, timer, opens, saves, records, edits, failures>>

\* The document is replaced; loadBlob goes on after it has read the metadata.
DecodedImage(s) ==
    /\ opens[s].kind = "image" /\ opens[s].phase = "decoding"
    /\ doc' = opens[s].doc
    /\ Detached
    /\ Proceeds(s, "metadata")
    /\ UNCHANGED <<loaded, hist, index, restoring, stroke, timer, records, booted, edits, failures>>
OpenedImage(s) ==
    /\ opens[s].phase = "metadata"
    /\ loaded' = TRUE /\ attached' = FALSE
    /\ UNCHANGED doc
    /\ Renewed
    /\ Proceeds(s, "done")
    /\ UNCHANGED <<restoring, stroke, saves, session, project, clearing, stale, booted, edits, failures>>
OpenedLayer(s) ==
    /\ opens[s].kind = "layer" /\ opens[s].phase = "decoding"
    /\ doc' = [doc EXCEPT !.layers = Append(@, opens[s].doc.layers[1])]
    /\ Recorded
    /\ Proceeds(s, "done")
    /\ UNCHANGED <<loaded, restoring, stroke, saves, records, booted, edits, failures>>
OpenedCollage(s) ==
    /\ opens[s].kind = "collage" /\ opens[s].phase = "decoding"
    /\ doc' = opens[s].doc
    /\ Detached
    /\ Renewed
    /\ Proceeds(s, "done")
    /\ UNCHANGED <<loaded, restoring, stroke, records, booted, edits, failures>>
\* The layers are the project's, the size whatever it is by now.
OpenedProject(s) ==
    /\ opens[s].kind = "project" /\ opens[s].phase = "decoding"
    /\ doc' = [doc EXCEPT !.layers = opens[s].doc.layers]
    /\ Detached
    /\ attached' = opens[s].mine
    /\ loaded' = TRUE /\ restoring' = FALSE
    /\ Pushed(<<>>, 0)
    /\ Proceeds(s, "done")
    /\ UNCHANGED <<stroke, session, project, clearing, stale, booted, edits, failures>>
OpeningFails(s) ==
    /\ opens[s].phase = "decoding" /\ Fault
    /\ restoring' = (restoring /\ opens[s].kind # "project")
    /\ stale' = (stale \/ opens[s].kind = "project")
    /\ Proceeds(s, "done")
    /\ UNCHANGED <<doc, loaded, hist, index, stroke, timer, saves,
                   session, project, attached, clearing, booted, edits>>

----------------------------------------------------------------------------
(* Projects and the session                                                *)

\* saveProject, when the session's timer has run out or the user saves a
\* project: serializeProject has the first layer encoded as it stands.
Saves(c, manual) ==
    /\ loaded
    /\ saves[c].phase = "idle" /\ \A other \in Copies : other < c => saves[other].phase # "idle"
    /\ saves' = [saves EXCEPT ![c] = [phase |-> "reading", manual |-> manual, live |-> TRUE,
                      array |-> <<>>, doc |-> [doc EXCEPT !.layers = SubSeq(@, 1, 1)]]]
    /\ UNCHANGED <<picture, opens, records, booted, edits, failures>>
AutoSave(c)   == timer /\ timer' = FALSE /\ Saves(c, FALSE)
ManualSave(c) == Saves(c, TRUE) /\ UNCHANGED timer

\* The other layers are read afterwards, and the size after the last of them.
Encoded(c) ==
    LET save  == saves[c]
        array == IF save.live THEN doc.layers ELSE save.array IN
    /\ save.phase = "reading"
    /\ saves' = [saves EXCEPT ![c] = Copied("encoded", save.manual,
         [size |-> doc.size, layers |-> save.doc.layers \o SubSeq(array, 2, Len(array))])]
    /\ UNCHANGED <<picture, timer, opens, records, booted, edits, failures>>

\* The record is put; a put that fails is not noticed (StudioStorage.put).
Written(c) ==
    LET save == saves[c] IN
    /\ save.phase = "encoded"
    /\ saves' = [saves EXCEPT ![c] = Copied("done", save.manual, NoDoc)]
    /\ attached' = (attached \/ save.manual)
    /\ \/ /\ session' = IF save.manual THEN session ELSE save.doc
          /\ project' = IF save.manual THEN save.doc ELSE project
          /\ stale' = (stale \/ (~save.manual /\ \E later \in Copies :
                          later > c /\ saves[later].phase = "done" /\ ~saves[later].manual))
          /\ UNCHANGED failures
       \/ /\ Fault
          /\ stale' = (stale \/ ~save.manual)
          /\ UNCHANGED <<session, project>>
    /\ UNCHANGED <<picture, timer, opens, clearing, booted, edits>>

\* The library of projects is emptied: the session is read, everything is
\* deleted, and the session is put back.
ClearBegins ==
    /\ project # NoDoc /\ ~clearing.on
    /\ clearing' = [on |-> TRUE, kept |-> session]
    /\ UNCHANGED <<picture, timer, opens, saves, session, project, attached, stale, booted, edits, failures>>
ClearEnds ==
    /\ clearing.on
    /\ clearing' = [on |-> FALSE, kept |-> NoDoc]
    /\ session' = clearing.kept
    /\ stale' = (stale \/ session # clearing.kept)
    /\ project' = NoDoc /\ attached' = FALSE
    /\ UNCHANGED <<picture, timer, opens, saves, booted, edits, failures>>

----------------------------------------------------------------------------
EditorNext ==
    \/ Adjust \/ RemoveBackground \/ Pixelate \/ ArrangeLayer
    \/ Draw \/ Erase \/ Retouch \/ StrokeEnds
    \/ AddText \/ AddShape \/ Watermark \/ Duplicate \/ DropLayer
    \/ Crop \/ Resize \/ Turn \/ Background
    \/ Undo \/ Redo
    \/ \E s \in Slots :
         \/ OpenImage(s) \/ OpenProject(s) \/ Boot(s) \/ DecodedImage(s) \/ OpenedImage(s)
         \/ OpenedLayer(s) \/ OpenedCollage(s) \/ OpenedProject(s) \/ OpeningFails(s)
    \/ \E c \in Copies : AutoSave(c) \/ ManualSave(c) \/ Encoded(c) \/ Written(c)
    \/ ClearBegins \/ ClearEnds

EditorSpec == EditorInit /\ [][EditorNext]_editorVars

Documents == [size : Sizes, layers : Seq(Stamps)]

EditorTypes ==
    /\ doc \in Documents /\ hist \in Seq(Documents) /\ Len(hist) <= HistoryLimit
    /\ index \in 0 .. Len(hist)
    /\ {loaded, restoring, stroke, timer, attached, booted, stale, clearing.on} \subseteq BOOLEAN
    /\ {session, project, clearing.kept} \subseteq Documents
    /\ \A s \in Slots : opens[s].doc \in Documents
    /\ \A c \in Copies : saves[c].doc \in Documents /\ saves[c].array \in Seq(Stamps)

\* The editor rests: nothing is opened, drawn, written or due.
AtRest ==
    /\ loaded /\ ~stroke /\ ~timer /\ ~clearing.on
    /\ \A s \in Slots : opens[s].phase \in {"idle", "done"}
    /\ \A c \in Copies : saves[c].phase \in {"idle", "done"}

\* Whatever overlapped, an editor that rests shows the entry of its history
\* that undo starts from, and the session it would start with next time is
\* that document; except after a project that could not be opened, a session
\* that could not be written or was written by an older save, and a library
\* emptied while the session was written.
RestsSaved == AtRest /\ ~stale => index > 0 /\ doc = hist[index] /\ session = doc
=============================================================================
