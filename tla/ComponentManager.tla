-------------------------- MODULE ComponentManager --------------------------
(***************************************************************************)
(* The optional components: the page that lists, installs, verifies and    *)
(* removes them (main.js, modules/settings), the scheduler that looks for  *)
(* newer ones (modules/updates) and the application's manager              *)
(* (components.rs): one operation holds its lock, an install runs on a     *)
(* thread of its own, and every other command runs on the main thread, one *)
(* after the other. A version is a number, 0 when there is none.           *)
(***************************************************************************)
EXTENDS Naturals, Sequences, SequencesExt, FiniteSets

CONSTANTS
    Ids,
    MaxActs,      \* what the user asks for, and timers that fire
    MaxReleases,  \* versions in the catalog of the server
    MaxFaults     \* what fails in the application

VARIABLES
    installed, errors, catalog, published,  \* the manager, and the server's catalog
    commands, events,     \* the commands under way; the progress told, not yet heard
    components, phases,   \* appState.components and componentOperations
    rows, off,            \* the page, if it is open, and its buttons that are disabled
    inFlight, backoff,    \* the scheduler: its own check; it may not try yet
    overtaken, acts, faults

componentVars == <<installed, errors, catalog, published, commands, events, components, phases, rows,
                   off, inFlight, backoff, overtaken, acts, faults>>

Phases  == {"preparing", "download", "verify", "install"}
Ends    == {"done", "error", "cancelled"}
States  == {"missing", "error", "installed", "update-available"} \cup Phases
Actions == {"install", "verify", "remove", "cancel"}
Status  == [state : States, version : Nat, available : Nat]

NoPhase == "none"
NoRows  == <<>>

ComponentConstants ==
    Ids # {} /\ {MaxActs, MaxReleases, MaxFaults} \subseteq Nat /\ MaxReleases # 0

\* An install that has the lock says by its stage how far it is.
Holds(call) == call.stage \in Phases
Busy(id)    == \E i \in DOMAIN commands : commands[i].id = id /\ Holds(commands[i])
Locked      == \E i \in DOMAIN commands : Holds(commands[i])

\* component_status: what an install does, or what is there.
StatusOf(id) ==
    [state |-> IF Busy(id) THEN (CHOOSE c \in {commands[j] : j \in DOMAIN commands} : c.id = id /\ Holds(c)).stage
               ELSE IF installed[id] = 0 THEN IF id \in errors THEN "error" ELSE "missing"
               ELSE IF catalog > installed[id] THEN "update-available" ELSE "installed",
     version |-> installed[id], available |-> catalog]
Statuses == [id \in Ids |-> StatusOf(id)]

Command(what, id) ==
    [kind |-> what, id |-> id, stage |-> "sent", version |-> 0, cancelled |-> FALSE,
     ok |-> FALSE, list |-> NoRows]

ComponentInit ==
    /\ installed \in [Ids -> {0, 1}] /\ errors = {} /\ catalog = 0 /\ published = 1
    /\ commands = <<>> /\ events = <<>>
    /\ components = Statuses /\ phases = [id \in Ids |-> NoPhase]
    /\ rows = NoRows /\ off = {} /\ inFlight = FALSE /\ backoff = FALSE
    /\ overtaken = FALSE /\ acts = 0 /\ faults = 0

manager   == <<installed, errors, catalog, published>>
page      == <<components, phases, rows, off>>
scheduler == <<inFlight, backoff>>

Acts   == acts < MaxActs /\ acts' = acts + 1
Faulty == faults < MaxFaults /\ faults' = faults + 1

----------------------------------------------------------------------------
(* The page                                                                *)

\* The page is drawn from memory: its buttons are new ones.
Row(id) == [state |-> components'[id].state, phase |-> phases'[id]]
Draw == rows' = (IF rows = NoRows THEN rows ELSE [id \in Ids |-> Row(id)]) /\ off' = {}

Visit ==
    /\ UNCHANGED <<components, phases>> /\ off' = {}
    /\ rows' = IF rows = NoRows THEN [id \in Ids |-> Row(id)] ELSE NoRows
    /\ UNCHANGED <<manager, commands, events, scheduler, overtaken, acts, faults>>

\* What a row offers: by its state when it was drawn, and the progress patched since.
Offers(id) ==
    LET row    == rows[id]
        active == row.phase \in Phases
    IN (IF ~active /\ row.state \notin {"installed", "download", "verify", "install"}
        THEN {"install"} ELSE {})
       \cup (IF row.state = "installed" \/ row.phase = "done" THEN {"verify"} ELSE {})
       \cup (IF (row.state = "installed" \/ row.phase = "done") /\ ~active THEN {"remove"} ELSE {})
       \cup (IF row.phase = "download" THEN {"cancel"} ELSE {})

Click ==
    /\ rows # NoRows /\ Acts
    /\ \E id \in Ids : \E action \in Offers(id) :
         /\ <<action, id>> \notin off /\ off' = off \cup {<<action, id>>}
         /\ commands' = Append(commands, Command(action, id))
    /\ UNCHANGED <<manager, events, components, phases, rows, scheduler, overtaken, faults>>

\* The progress of a row is patched while the page shows it.
Hear ==
    /\ events # <<>> /\ events' = Tail(events)
    /\ LET e == Head(events) IN
         /\ phases' = [phases EXCEPT ![e.id] = e.phase]
         /\ rows' = IF rows = NoRows THEN rows ELSE [rows EXCEPT ![e.id].phase = e.phase]
    /\ UNCHANGED <<manager, commands, components, off, scheduler, overtaken, acts, faults>>

----------------------------------------------------------------------------
(* Looking for newer components                                            *)

\* The scheduler has one check under way, and after a failure waits, unless it is forced.
Discover(force) ==
    /\ ~inFlight /\ (force \/ ~backoff) /\ Acts
    /\ inFlight' = TRUE
    /\ commands' = Append(commands, Command("discover", CHOOSE id \in Ids : TRUE))
    /\ UNCHANGED <<manager, events, page, backoff, overtaken, faults>>

\* The button of the page looks for itself.
CheckNow ==
    /\ rows # NoRows /\ "catalog" \notin {b[1] : b \in off} /\ Acts
    /\ \E id \in Ids :
         off' = off \cup {<<"catalog", id>>} /\ commands' = Append(commands, Command("catalog", id))
    /\ UNCHANGED <<manager, events, components, phases, rows, scheduler, overtaken, faults>>

BackoffEnds ==
    /\ backoff /\ backoff' = FALSE
    /\ UNCHANGED <<manager, commands, events, page, inFlight, overtaken, acts, faults>>

----------------------------------------------------------------------------
(* The main thread of the application                                      *)

Publish ==
    /\ published < MaxReleases /\ published' = published + 1
    /\ UNCHANGED <<installed, errors, catalog, commands, events, page, scheduler>>
    /\ UNCHANGED <<overtaken, acts, faults>>

\* The next command of the main thread.
Next1(i) ==
    /\ commands[i].stage = "sent" /\ commands[i].kind # "install"
    /\ \A j \in 1 .. i - 1 : commands[j].kind = "install" \/ commands[j].stage # "sent"

\* refresh_component_catalog waits for the lock, and so does what comes after it.
Refresh(i) ==
    /\ commands[i].kind \in {"discover", "catalog"} /\ ~Locked
    /\ \/ /\ catalog' = published
          /\ commands' = [commands EXCEPT ![i].stage = "done", ![i].ok = TRUE,
                ![i].list = [id \in Ids |->
                    [state |-> IF installed[id] = 0 THEN StatusOf(id).state
                               ELSE IF published > installed[id] THEN "update-available" ELSE "installed",
                     version |-> installed[id], available |-> published]]]
          /\ UNCHANGED faults
       \/ /\ Faulty /\ commands' = [commands EXCEPT ![i].stage = "done"] /\ UNCHANGED catalog
    /\ UNCHANGED <<installed, errors>>

List(i) ==
    /\ commands[i].kind = "list"
    /\ \/ /\ commands' = [commands EXCEPT ![i].stage = "done", ![i].ok = TRUE, ![i].list = Statuses]
          /\ UNCHANGED faults
       \/ Faulty /\ commands' = [commands EXCEPT ![i].stage = "done"]
    /\ UNCHANGED <<installed, errors, catalog>>

Verify(i) ==
    /\ commands[i].kind = "verify"
    /\ commands' = [commands EXCEPT ![i].stage = "done", ![i].ok = TRUE]
    /\ UNCHANGED <<installed, errors, catalog, faults>>

\* remove_component does not wait for the lock, and is refused while a task uses it.
Uninstall(i) ==
    /\ commands[i].kind = "remove"
    /\ \/ /\ ~Locked /\ installed' = [installed EXCEPT ![commands[i].id] = 0]
          /\ errors' = errors \ {commands[i].id}
          /\ commands' = [commands EXCEPT ![i].stage = "done", ![i].ok = TRUE] /\ UNCHANGED faults
       \/ /\ Locked \/ faults < MaxFaults
          /\ faults' = IF Locked THEN faults ELSE faults + 1
          /\ commands' = [commands EXCEPT ![i].stage = "done"] /\ UNCHANGED <<installed, errors>>
    /\ UNCHANGED catalog

\* request_cancel: an install is told while it downloads.
Cancel(i) ==
    /\ commands[i].kind = "cancel"
    /\ LET told == {j \in DOMAIN commands :
                       commands[j].id = commands[i].id /\ commands[j].stage = "download"}
       IN commands' = [j \in DOMAIN commands |->
            IF j = i THEN [commands[j] EXCEPT !.stage = "done", !.ok = told # {}]
            ELSE IF j \in told THEN [commands[j] EXCEPT !.cancelled = TRUE] ELSE commands[j]]
    /\ UNCHANGED <<installed, errors, catalog, faults>>

Execute ==
    /\ \E i \in DOMAIN commands :
         Next1(i) /\ (Refresh(i) \/ List(i) \/ Verify(i) \/ Uninstall(i) \/ Cancel(i))
    /\ UNCHANGED <<published, events, page, scheduler, overtaken, acts>>

----------------------------------------------------------------------------
(* The thread of an install                                                *)

Says(id, phase) == events' = Append(events, [id |-> id, phase |-> phase])
Reaches(i, phase) ==
    /\ commands' = [commands EXCEPT ![i].stage = phase]
    /\ Says(commands[i].id, phase) /\ UNCHANGED <<installed, catalog, published, faults>>

TakeLock(i) ==
    /\ commands[i].stage = "sent" /\ ~Locked /\ Reaches(i, "preparing")
    /\ errors' = errors \ {commands[i].id}

\* The catalog first: what it offers is not older than what is there.
Download(i) ==
    /\ commands[i].stage = "preparing" /\ catalog' = published
    /\ commands' = [commands EXCEPT ![i].stage = "download", ![i].version = published]
    /\ Says(commands[i].id, "download") /\ UNCHANGED <<installed, errors, published, faults>>

\* A cancel that was accepted is seen here at the latest.
Check(i) ==
    commands[i].stage = "download" /\ ~commands[i].cancelled /\ Reaches(i, "verify") /\ UNCHANGED errors
Activate(i) ==
    commands[i].stage = "verify" /\ Reaches(i, "install") /\ UNCHANGED errors

Finished(i, ok, phase) ==
    /\ commands' = [commands EXCEPT ![i].stage = "done", ![i].ok = ok]
    /\ Says(commands[i].id, phase)
Installs(i) ==
    /\ commands[i].stage = "install" /\ Finished(i, TRUE, "done")
    /\ installed' = [installed EXCEPT ![commands[i].id] = commands[i].version]
    /\ UNCHANGED <<errors, catalog, published, faults>>
Fails(i) ==
    /\ Holds(commands[i])
    /\ IF commands[i].cancelled THEN Finished(i, FALSE, "cancelled") /\ UNCHANGED faults
                             ELSE Finished(i, FALSE, "error") /\ Faulty
    /\ errors' = IF installed[commands[i].id] = 0 THEN errors \cup {commands[i].id} ELSE errors
    /\ UNCHANGED <<installed, catalog, published>>

Thread ==
    /\ \E i \in DOMAIN commands :
         /\ commands[i].kind = "install"
         /\ TakeLock(i) \/ Download(i) \/ Check(i) \/ Activate(i) \/ Installs(i) \/ Fails(i)
    /\ UNCHANGED <<page, scheduler, overtaken, acts>>

----------------------------------------------------------------------------
(* The answers                                                             *)

Lists(call) == call.kind \in {"list", "discover", "catalog"}

\* An action, whatever became of it, asks for the list.
ActionAnswered(call, rest) ==
    /\ call.kind \in Actions
    /\ phases' = IF call.kind = "remove" /\ call.ok THEN [phases EXCEPT ![call.id] = NoPhase]
                                                  ELSE phases
    /\ commands' = Append(rest, Command("list", call.id))
    /\ UNCHANGED <<components, rows, off, scheduler, overtaken>>

Later(i) == \E j \in DOMAIN commands : j < i /\ Lists(commands[j])

\* The list that comes is kept, whichever was asked for last.
ListAnswered(i, call, rest) ==
    /\ Lists(call) /\ commands' = rest
    /\ components' = IF call.ok THEN call.list ELSE components
    /\ overtaken' = (overtaken \/ Later(i) \/ (call.kind = "list" /\ ~call.ok))
    /\ UNCHANGED phases /\ Draw
    /\ inFlight' = (inFlight /\ call.kind # "discover")
    /\ backoff' = IF call.kind = "discover" THEN ~call.ok ELSE backoff

Answered ==
    /\ \E i \in DOMAIN commands :
         /\ commands[i].stage = "done"
         /\ \/ ActionAnswered(commands[i], RemoveAt(commands, i))
            \/ ListAnswered(i, commands[i], RemoveAt(commands, i))
    /\ UNCHANGED <<manager, events, acts, faults>>

----------------------------------------------------------------------------

ComponentNext ==
    \/ Visit \/ Click \/ Hear \/ (\E force \in BOOLEAN : Discover(force)) \/ CheckNow \/ BackoffEnds
    \/ Publish \/ Execute \/ Thread \/ Answered

ComponentSpec == ComponentInit /\ [][ComponentNext]_componentVars

ComponentTypes ==
    /\ installed \in [Ids -> 0 .. MaxReleases] /\ errors \subseteq Ids
    /\ {catalog, published} \subseteq 0 .. MaxReleases
    /\ components \in [Ids -> Status] /\ phases \in [Ids -> Phases \cup Ends \cup {NoPhase}]
    /\ rows = NoRows \/ rows \in [Ids -> [state : States, phase : Phases \cup Ends \cup {NoPhase}]]
    /\ {inFlight, backoff, overtaken} \subseteq BOOLEAN
    /\ acts \in 0 .. MaxActs /\ faults \in 0 .. MaxFaults

\* Once nothing is under way, the page shows no progress, its buttons can be pressed, and
\* it lists what the manager would, unless an answer overtook another or the list was
\* refused; an install the user was told is cancelled installs nothing, and the scheduler
\* has one check at most.
ComponentsSettle ==
    /\ (commands = <<>> /\ events = <<>>) =>
         /\ \A id \in Ids : phases[id] \notin Phases
         /\ off = {} /\ ~inFlight
         /\ overtaken \/ components = Statuses
         /\ rows # NoRows =>
              \A id \in Ids : rows[id] = [state |-> components[id].state, phase |-> phases[id]]
    /\ \A i \in DOMAIN commands :
         commands[i].cancelled => commands[i].stage \notin {"verify", "install"} /\ ~commands[i].ok
    /\ Cardinality({i \in DOMAIN commands : commands[i].kind = "discover"}) =
         IF inFlight THEN 1 ELSE 0
=============================================================================
