--------------------------- MODULE SelectionSend ----------------------------
(***************************************************************************)
(* What the user sends to the application from the extension's panel       *)
(* (extension/sidepanel.js, sendItems) or from the context menu, through   *)
(* sendSelectionToApp and the operation journal.  The panel may be closed  *)
(* and opened again while a send is under way, and the worker may die.     *)
(***************************************************************************)
EXTENDS OperationJournal

CONSTANTS
    Panel, Menu,  \* the two callers
    Selections,   \* what the user may send
    MaxSends      \* bound: how many ids are drawn with randomUUID

Senders == {Panel, Menu}

\* The n-th id drawn.
SendId(n) == <<"send", n>>

\* What the module expects of its constants.
SendConstants ==
    /\ Panel # Menu
    /\ MaxSends \in Nat
    /\ Senders \subseteq Calls
    /\ Selections \subseteq Prints
    /\ \A n \in 1 .. MaxSends : SendId(n) \in Ids

VARIABLES
    drawn,        \* ids drawn so far
    posted,       \* posted[c]: a SEND_TO_APP that the worker prepares, or Nothing
    busy,         \* the panel waits for the worker
    unconfirmed   \* uncertainSend: the panel asks before it sends again

sendVars == <<drawn, posted, busy, unconfirmed>>
sendingVars == <<journalVars, sendVars>>

Nothing == [selection |-> "none"]

SendInit ==
    /\ JournalInit
    /\ drawn = 0
    /\ posted = [c \in Senders |-> Nothing]
    /\ busy = FALSE
    /\ unconfirmed = FALSE

Idling(c) == posted[c] = Nothing /\ calls[c].phase \notin Live

Post(c, s, retry) ==
    /\ Idling(c)
    /\ drawn < MaxSends
    /\ drawn' = drawn + 1
    /\ posted' = [posted EXCEPT ![c] = [selection |-> s, retry |-> retry, id |-> SendId(drawn + 1)]]

\* sendItems: nothing while a send is under way; after an unconfirmed one the
\* user is asked, and only a yes sends, as an allowed retry.
PanelSends(s) ==
    /\ ~busy
    /\ Post(Panel, s, unconfirmed)
    /\ busy' = TRUE
    /\ UNCHANGED <<unconfirmed, journalVars>>

MenuSends(s) ==
    /\ Post(Menu, s, FALSE)
    /\ UNCHANGED <<busy, unconfirmed, journalVars>>

\* The panel hears of the end of its send, unless it was closed meanwhile.
PanelHears(c, uncertain) ==
    /\ busy' = IF c = Panel THEN FALSE ELSE busy
    /\ unconfirmed' = IF c = Panel /\ busy THEN uncertain ELSE unconfirmed

\* The bridge is not there or too old: an error, which is not uncertain.
Refused(c) ==
    /\ posted[c] # Nothing
    /\ posted' = [posted EXCEPT ![c] = Nothing]
    /\ PanelHears(c, FALSE)
    /\ UNCHANGED <<drawn, journalVars>>

Journalled(c) ==
    /\ posted[c] # Nothing
    /\ Enter(c, posted[c].id, posted[c].selection, posted[c].retry)
    /\ posted' = [posted EXCEPT ![c] = Nothing]
    /\ UNCHANGED <<drawn, busy, unconfirmed>>

\* The journal's result, or the broken message channel when the worker died.
Hears(c) ==
    /\ c = Panel
    /\ busy
    /\ posted[c] = Nothing
    /\ calls[c].phase \in {"done", "lost"}
    /\ PanelHears(c, calls[c].phase = "lost" \/ calls[c].result = "uncertain")
    /\ UNCHANGED <<drawn, posted, journalVars>>

\* The panel is closed and opened again: its state starts afresh.
PanelReopens ==
    /\ busy \/ unconfirmed
    /\ busy' = FALSE
    /\ unconfirmed' = FALSE
    /\ UNCHANGED <<drawn, posted, journalVars>>

\* What was being prepared dies with the worker; the panel's message fails.
SendsDie ==
    /\ WorkerDies
    /\ posted' = [c \in Senders |-> Nothing]
    /\ IF posted[Panel] # Nothing /\ busy
       THEN PanelHears(Panel, TRUE)
       ELSE UNCHANGED <<busy, unconfirmed>>
    /\ UNCHANGED drawn

SendNext ==
    \/ \E s \in Selections : PanelSends(s) \/ MenuSends(s)
    \/ \E c \in Senders : Refused(c) \/ Journalled(c) \/ Hears(c)
    \/ \E c \in Senders : Working(c) /\ UNCHANGED sendVars
    \/ World /\ UNCHANGED sendVars
    \/ PanelReopens
    \/ SendsDie

SendSpec == SendInit /\ [][SendNext]_sendingVars

----------------------------------------------------------------------------
\* Every variable has its type.
SendTypes ==
    /\ JournalTypeOK
    /\ drawn \in 0 .. MaxSends
    /\ posted \in [Senders -> {Nothing} \cup [selection : Selections, retry : BOOLEAN, id : Ids]]
    /\ busy \in BOOLEAN /\ unconfirmed \in BOOLEAN
=============================================================================
