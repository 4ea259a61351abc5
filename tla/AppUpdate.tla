------------------------------ MODULE AppUpdate ------------------------------
(***************************************************************************)
(* The update of the application: the checks of the main window, what they *)
(* tell the user and remember, the install and its progress (main.js), the *)
(* commands of update_manager.rs, and the update of its tools. A version   *)
(* is a number; 0 stands for none, and for the one the user has at first.  *)
(***************************************************************************)
EXTENDS Naturals, Sequences, FiniteSets

CONSTANTS
    MaxReleases, MaxChecks, MaxInstalls, MaxLaunches, MaxSlips

VARIABLES
    version, staged, released,   \* the application's, the one put in place, the server's
    running, listed,             \* a transfer runs; the snapshot says so
    checking, installing,        \* updaterCheckBusy, updaterInstallBusy
    available, metadata,         \* availableUpdate, releaseMetadata
    due, pending, recorded,      \* of the settings of the experience
    lookup, got, install, target, \* how far a check and an install are, and their version
    events, progress, slots,     \* the progress told, updaterProgress, what is drawn of it
    key, noticed,                \* UPDATE_NOTIFICATION_KEY; the notifications, by version
    tool, canUpdate,             \* the check or update of the tools under way
    cut, moved, checks, installs, launches, slips

updateVars == <<version, staged, released, running, listed, checking, installing, available,
                metadata, due, pending, recorded, lookup, got, install, target, events, progress,
                slots, key, noticed, tool, canUpdate, cut, moved, checks, installs, launches, slips>>

Releases == 0 .. MaxReleases

UpdateConstants ==
    MaxReleases \in Nat \ {0} /\ {MaxChecks, MaxInstalls, MaxLaunches, MaxSlips} \subseteq Nat

UpdateInit ==
    /\ version = 0 /\ staged = 0 /\ released = 1 /\ running = FALSE /\ listed = FALSE
    /\ checking = FALSE /\ installing = FALSE /\ available = 0 /\ metadata = 0
    /\ due = TRUE /\ pending = 0 /\ recorded = {}
    /\ lookup = "none" /\ got = 0 /\ install = "none" /\ target = 0
    /\ events = <<>> /\ progress = "none" /\ slots = FALSE
    /\ key = 0 /\ noticed = [v \in Releases |-> 0] /\ tool = "none" /\ canUpdate = FALSE
    /\ cut = {} /\ moved = FALSE /\ checks = 0 /\ installs = 0 /\ launches = 0 /\ slips = 0

world   == <<version, staged, released, running, moved>>
looking == <<checking, available, metadata, due, lookup, got, key, noticed>>
putting == <<installing, install, target, events, progress, recorded>>
toolVars == <<tool, canUpdate>>
bounds  == <<checks, installs, launches>>

Slip == slips < MaxSlips /\ slips' = slips + 1

\* A render, and a patch of the progress, show it while an install is busy.
DrawSlots == slots' = installing'

----------------------------------------------------------------------------
(* The check                                                               *)

\* Every timer, event and button comes here: nothing is asked during a check or an install.
Check(automatic) ==
    /\ checks < MaxChecks /\ checks' = checks + 1
    /\ ~checking /\ ~installing /\ (automatic => due)
    /\ checking' = TRUE /\ lookup' = "asked" /\ UNCHANGED installing /\ DrawSlots
    /\ UNCHANGED <<available, metadata, due, got, key, noticed, world, listed, pending, install, target,
                   events, progress, recorded, toolVars, cut, installs, launches, slips>>

DueAgain ==
    /\ ~due /\ due' = TRUE
    /\ UNCHANGED <<checking, available, metadata, lookup, got, key, noticed, world, listed, pending, putting,
                   slots, toolVars, cut, bounds, slips>>

Newest == IF released > version THEN released ELSE 0

Served ==
    /\ lookup = "asked"
    /\ \/ lookup' = "answered" /\ got' = Newest /\ UNCHANGED slips
       \/ lookup' = "refused" /\ got' = 0 /\ Slip
    /\ UNCHANGED <<checking, available, metadata, due, key, noticed, world, listed, pending, putting, slots,
                   toolVars, cut, bounds>>

CheckOver == checking' = FALSE /\ lookup' = "none" /\ got' = 0
Remember(v) == pending' = v

\* A version the user was not told of is told first.
Answered ==
    /\ lookup = "answered" /\ due' = FALSE /\ available' = got /\ metadata' = 0
    /\ \/ got = 0 /\ CheckOver /\ Remember(0)
       \/ got # 0 /\ key # got /\ lookup' = "notify" /\ UNCHANGED <<checking, got, pending>>
       \/ got # 0 /\ key = got /\ lookup' = "metadata" /\ Remember(got) /\ UNCHANGED <<checking, got>>
    /\ UNCHANGED installing /\ DrawSlots
    /\ UNCHANGED <<key, noticed, world, listed, install, target, events, progress, recorded, toolVars,
                   cut, bounds, slips>>

Notify ==
    /\ lookup = "notify"
    /\ \/ lookup' = "told" /\ noticed' = [noticed EXCEPT ![got] = @ + 1] /\ UNCHANGED slips
       \/ lookup' = "untold" /\ Slip /\ UNCHANGED noticed
    /\ UNCHANGED <<checking, available, metadata, due, got, key, world, listed, pending, putting, slots,
                   toolVars, cut, bounds>>
Told ==
    /\ lookup \in {"told", "untold"} /\ key' = IF lookup = "told" THEN got ELSE key
    /\ lookup' = "metadata" /\ Remember(got)
    /\ UNCHANGED <<checking, available, metadata, due, got, noticed, world, listed, putting, slots,
                   toolVars, cut, bounds, slips>>

\* The notes of the release come, or do not within nine seconds.
Described ==
    /\ lookup = "metadata" /\ metadata' \in {0, got} /\ CheckOver
    /\ UNCHANGED installing /\ DrawSlots
    /\ UNCHANGED <<available, due, key, noticed, world, listed, pending, install, target, events,
                   progress, recorded, toolVars, cut, bounds, slips>>

Refused ==
    /\ lookup = "refused" /\ CheckOver /\ UNCHANGED installing /\ DrawSlots
    /\ UNCHANGED <<available, metadata, due, key, noticed, world, listed, pending, install, target,
                   events, progress, recorded, toolVars, cut, bounds, slips>>

----------------------------------------------------------------------------
(* The install                                                             *)

\* What the user is offered, unless the list shows an active transfer.
Install ==
    /\ installs < MaxInstalls /\ installs' = installs + 1
    /\ available # 0 /\ ~installing /\ ~listed
    /\ installing' = TRUE /\ progress' = "download" /\ install' = "asked" /\ DrawSlots
    /\ UNCHANGED <<looking, world, listed, pending, target, events, recorded, toolVars, cut, checks,
                   launches, slips>>

\* The application looks at its own transfers, and again for what is published.
Begin ==
    /\ install = "asked"
    /\ \/ /\ ~running /\ Newest # 0 /\ install' = "downloading" /\ target' = Newest
       \/ /\ (running \/ Newest = 0) /\ install' = "refused" /\ UNCHANGED target
    /\ UNCHANGED <<looking, world, listed, pending, installing, events, progress, recorded, slots,
                   toolVars, cut, bounds, slips>>

Says(phase) == events' = Append(events, phase)
Download ==
    /\ install = "downloading"
    /\ \/ install' = "replacing" /\ Says("install") /\ UNCHANGED slips
       \/ install' = "refused" /\ Says("download") /\ Slip
    /\ UNCHANGED <<looking, world, listed, pending, installing, target, progress, recorded, slots,
                   toolVars, cut, bounds>>
Replace ==
    /\ install = "replacing"
    /\ \/ install' = "done" /\ staged' = target /\ UNCHANGED slips
       \/ install' = "refused" /\ Slip /\ UNCHANGED staged
    /\ UNCHANGED <<looking, version, released, running, moved, listed, pending, installing, target,
                   events, progress, recorded, slots, toolVars, cut, bounds>>

Hear ==
    /\ events # <<>> /\ events' = Tail(events) /\ progress' = Head(events)
    /\ UNCHANGED installing /\ DrawSlots
    /\ UNCHANGED <<looking, world, listed, pending, install, target, recorded, toolVars, cut, bounds, slips>>

\* What is recorded is the version the page knows of; the install stays busy.
InstallOver ==
    /\ install = "done" /\ install' = "none"
    /\ recorded' = IF available = 0 THEN recorded ELSE recorded \cup {<<available, target>>}
    /\ target' = 0 /\ Remember(0)
    /\ UNCHANGED <<looking, world, listed, installing, events, progress, slots, toolVars, cut, bounds, slips>>
InstallRefused ==
    /\ install = "refused" /\ install' = "none" /\ target' = 0
    /\ progress' = "none" /\ installing' = FALSE /\ DrawSlots
    /\ UNCHANGED <<looking, world, listed, pending, events, recorded, toolVars, cut, bounds, slips>>

----------------------------------------------------------------------------
(* The tools                                                               *)

ToolCheck ==
    /\ tool = "none" /\ checks < MaxChecks /\ checks' = checks + 1
    /\ tool' = "checking" /\ canUpdate' = FALSE /\ UNCHANGED installing /\ DrawSlots
    /\ UNCHANGED <<looking, world, listed, pending, install, target, events, progress, recorded, cut,
                   installs, launches, slips>>
ToolApply ==
    /\ canUpdate /\ tool = "none" /\ tool' = "applying" /\ canUpdate' = FALSE
    /\ UNCHANGED installing /\ DrawSlots
    /\ UNCHANGED <<looking, world, listed, pending, install, target, events, progress, recorded, cut,
                   bounds, slips>>
ToolAnswered ==
    /\ tool # "none" /\ tool' = "none" /\ canUpdate' \in {FALSE, tool = "checking"}
    /\ UNCHANGED installing /\ DrawSlots
    /\ UNCHANGED <<looking, world, listed, pending, install, target, events, progress, recorded, cut,
                   bounds, slips>>

----------------------------------------------------------------------------
(* Around it                                                               *)

Release ==
    /\ released < MaxReleases /\ released' = released + 1
    /\ moved' = (checks > 0)
    /\ UNCHANGED <<version, staged, running, looking, listed, pending, putting, slots, toolVars, cut, bounds, slips>>

Transfer ==
    /\ running' = ~running
    /\ UNCHANGED <<version, staged, released, moved, looking, listed, pending, putting, slots, toolVars,
                   cut, bounds, slips>>
Snapshot ==
    /\ listed # running /\ listed' = running
    /\ UNCHANGED <<looking, world, pending, putting, slots, toolVars, cut, bounds, slips>>

\* The application ends, closed by the update, by the user or by a fault, and starts.
Relaunch ==
    /\ launches < MaxLaunches /\ launches' = launches + 1
    /\ version' = IF staged # 0 THEN staged ELSE version
    /\ staged' = 0 /\ running' = FALSE /\ listed' = FALSE
    /\ checking' = FALSE /\ installing' = FALSE /\ available' = 0 /\ metadata' = 0
    /\ lookup' = "none" /\ got' = 0 /\ install' = "none" /\ target' = 0
    /\ events' = <<>> /\ progress' = "none" /\ slots' = FALSE /\ tool' = "none" /\ canUpdate' = FALSE
    /\ cut' = IF lookup = "told" THEN cut \cup {got} ELSE cut
    /\ UNCHANGED <<released, moved, due, pending, recorded, key, noticed, checks, installs, slips>>

----------------------------------------------------------------------------

UpdateNext ==
    \/ (\E automatic \in BOOLEAN : Check(automatic)) \/ DueAgain \/ Served \/ Answered \/ Notify
    \/ Told \/ Described \/ Refused \/ Install \/ Begin \/ Download \/ Replace \/ Hear \/ InstallOver
    \/ InstallRefused \/ ToolCheck \/ ToolApply \/ ToolAnswered \/ Release \/ Transfer \/ Snapshot
    \/ Relaunch

UpdateSpec == UpdateInit /\ [][UpdateNext]_updateVars

UpdateTypes ==
    /\ {version, staged, released, available, metadata, pending, got, target, key} \subseteq Releases
    /\ {running, listed, checking, installing, due, slots, canUpdate, moved} \subseteq BOOLEAN
    /\ lookup \in {"none", "asked", "answered", "refused", "notify", "told", "untold", "metadata"}
    /\ install \in {"none", "asked", "downloading", "replacing", "done", "refused"}
    /\ events \in Seq({"download", "install"}) /\ progress \in {"none", "download", "install"}
    /\ recorded \subseteq Releases \X Releases /\ noticed \in [Releases -> Nat] /\ cut \subseteq Releases
    /\ tool \in {"none", "checking", "applying"}

\* The user is told of a version once, unless the application ended between telling and
\* remembering it; what is recorded as installed is what was installed, unless a release
\* came out since a check; the version that is offered is the one that is remembered as
\* pending once its check is over, and an install that was refused leaves no progress drawn.
UpdateTrue ==
    /\ \A v \in Releases \ cut : noticed[v] <= 1
    /\ moved \/ \A r \in recorded : r[1] = r[2]
    /\ (lookup = "none" /\ ~installing /\ available # 0) => pending = available
    /\ slots = installing /\ (checking <=> lookup # "none") /\ (install # "none" => installing)
=============================================================================
