------------------------------ MODULE LiveRows ------------------------------
(***************************************************************************)
(* How the list of downloads is drawn: what a snapshot says of a job is    *)
(* made regular, filtered by section and drawn in full, or patched into    *)
(* the row that is there.  A patch compares signatures and touches the     *)
(* rows named as changed only; it does nothing while a row menu is open,   *)
(* which is why closing one draws the list.                                *)
(***************************************************************************)
EXTENDS Naturals, FiniteSets, SequencesExt

CONSTANTS
    Jobs,          \* files and playlists, numbered as they were added
    Playlists,     \* the jobs that are a playlist of Total items
    Total,         \* the bytes of a file, the items of a playlist
    MaxNews,       \* snapshots that change a job
    MaxMenus,      \* menus opened and closed, sections selected
    Together       \* snapshots may bring several changes of a job before a patch

RowConstants ==
    /\ IsFiniteSet(Jobs) /\ Jobs \subseteq Nat /\ Playlists \subseteq Jobs
    /\ Total \in Nat \ {0} /\ MaxNews \in Nat /\ MaxMenus \in Nat /\ Together \in BOOLEAN

VARIABLES
    raw,        \* what the snapshot says of each job; NoJob
    changed,    \* the ids a patch is told of
    page,       \* the row drawn for each job; NoRow
    panel,      \* the recovery node under a row
    nodes,      \* the rows and recoveries of the list, as they follow one another
    sortOrder,  \* preferences.sortOrder
    counts,     \* the totals drawn above the list
    recovery,   \* recoveryByJobId and recoveryPending
    section, rowMenu,
    news, menus

rowVars == <<raw, changed, page, panel, nodes, sortOrder, counts, recovery, section, rowMenu,
             news, menus>>

Statuses == {"queued", "running", "paused", "completed", "failed"}
NoJob == [status |-> "none", done |-> 0, bad |-> 0, thumb |-> 0, priority |-> "normal"]
Snapshots(j) ==
    [status : Statuses, done : 0..Total, bad : IF j \in Playlists THEN 0..Total ELSE {0},
     thumb : {0, 1}, priority : {"normal", "high"}]
Sane(s) ==
    /\ s.done + s.bad <= Total
    /\ s.status = "completed" => s.done = Total

\* normalizeJobs: bytes make a queued job run; only a completed job is at 100.
NormalFile(s) ==
    LET status == IF s.status = "queued" /\ s.done > 0 THEN "running" ELSE s.status
    IN [kind |-> "file", status |-> status, thumb |-> s.thumb, priority |-> s.priority,
        progress |-> IF status = "completed" THEN 1000
                     ELSE IF s.done = Total THEN 999 ELSE (s.done * 1000) \div Total]

\* normalizePlaylistBatch: the status follows from the items' counts.
NormalPlaylist(s) ==
    LET status == IF s.done = Total THEN "completed"
                  ELSE IF s.done + s.bad >= Total /\ s.bad > 0 THEN "failed"
                  ELSE IF s.status = "queued" /\ s.done > 0 THEN "running" ELSE s.status
    IN [kind |-> "playlist", status |-> status, thumb |-> s.thumb, priority |-> s.priority,
        progress |-> IF status = "completed" THEN 1000 ELSE ((s.done + s.bad) * 1000) \div Total]

Job(j) == IF j \in Playlists THEN NormalPlaylist(raw[j]) ELSE NormalFile(raw[j])
IsListed(j) == raw[j] # NoJob

\* jobsForSection
VisibleIn(place) ==
    {j \in Jobs : /\ IsListed(j)
                  /\ CASE place = "downloads" -> TRUE
                       [] place = "queue" -> Job(j).status \in {"queued", "paused"}
                       [] place = "history" -> Job(j).status \in {"completed", "failed"}}
Visible == VisibleIn(section)

Counts == [s \in Statuses |-> Cardinality({j \in Jobs : IsListed(j) /\ Job(j).status = s})]

\* The signatures by which a patch knows what to replace, ...
Structure(job) == <<job.thumb, job.priority>>
Content(job)   == <<job.priority>>
LiveByProgress(job) == <<job.progress, job.priority>>
Live(job)      == <<job.status, job.progress, job.priority>>

\* ... and the markup of a row: its frame, the texts and the bar, the button.
Bar(job) ==
    [moving |-> job.status = "running" /\ job.progress = 0, progress |-> job.progress]
Button(job) ==
    CASE job.status = "running" -> "pause"
      [] job.status = "failed" /\ job.kind = "playlist" -> "retry"
      [] job.status \in {"queued", "paused", "failed"} -> "resume"
      [] job.status = "completed" -> "reveal"
      [] OTHER -> "none"
Body(job) == [text |-> job.status, bar |-> Bar(job), button |-> Button(job)]
Tag(job) == IF job.status # "completed" /\ job.priority = "high" THEN "high" ELSE "none"
Markup(job) ==
    [frame |-> job.status, picture |-> job.thumb, body |-> Body(job), tag |-> Tag(job),
     drag |-> job.status = "completed",
     structure |-> Structure(job), content |-> Content(job), live |-> Live(job)]
NoRow == [Markup(NormalFile(NoJob)) EXCEPT !.frame = "absent"]

\* The recovery of a failed video: its own node after the row.
Panel(j, known) ==
    IF Job(j).kind = "playlist" \/ Job(j).status # "failed" THEN "none"
    ELSE IF known[j] = "found" THEN "found" ELSE "loading"

\* Members of a set by the ranks they have in it.
ByRank(S, rank) == [n \in 1..Cardinality(S) |-> CHOOSE x \in S : rank[x] = n]

\* sortDownloadJobs: by insertion, the newest first or the oldest; a recovery is under
\* its row.
Precedes(m, n, by) ==
    \/ IF by = "oldest" THEN m[1] < n[1] ELSE n[1] < m[1]
    \/ m[1] = n[1] /\ m[2] = "row" /\ n[2] = "recovery"
Listing(place, known) ==
    {<<j, "row">> : j \in VisibleIn(place)} \cup
    {<<j, "recovery">> : j \in {i \in VisibleIn(place) : Panel(i, known) # "none"}}
InOrder(all, by) ==
    ByRank(all, [n \in all |-> Cardinality({m \in all : m = n \/ Precedes(m, n, by)})])
Nodes(place, by, known) == InOrder(Listing(place, known), by)

\* The nodes are put in order in place: one that stands at the anchor stays, any
\* other is moved before it, and what was not wanted is removed at the end.
Without(seq, node) ==
    IF \E i \in DOMAIN seq : seq[i] = node
    THEN RemoveAt(seq, CHOOSE i \in DOMAIN seq : seq[i] = node) ELSE seq
PlaceNode(done, node) ==
    [before |-> Append(done.before, node), after |-> Without(done.after, node)]
Placing(old, wanted) ==
    LET done[i \in 0..Len(wanted)] ==
          IF i = 0 THEN [before |-> <<>>, after |-> old] ELSE PlaceNode(done[i - 1], wanted[i])
    IN done
Retained(seq, wanted) ==
    LET at == {i \in DOMAIN seq : \E n \in DOMAIN wanted : wanted[n] = seq[i]}
        kept == ByRank(at, [i \in at |-> Cardinality({m \in at : m <= i})])
    IN [n \in DOMAIN kept |-> seq[kept[n]]]
PlacedKeeping(old, wanted) ==
    LET end == Placing(old, wanted)[Len(wanted)] IN end.before \o end.after
Placed(old, wanted) ==
    LET end == Placing(old, wanted)[Len(wanted)] IN Retained(end.before \o end.after, wanted)

\* patchLiveDownloadRow: another picture takes the place of the one drawn, other
\* content replaces the row, and otherwise texts, bar and buttons are rewritten.
PatchPicture(row, job) ==
    [row EXCEPT !.frame = job.status, !.picture = job.thumb,
                !.structure = Structure(job), !.content = Content(job)]
PatchBody(row, job) ==
    [row EXCEPT !.frame = job.status, !.body = Body(job), !.live = Live(job)]
PatchRow(row, job) ==
    IF row.structure # Structure(job)
    THEN IF row.content = Content(job) THEN PatchPicture(row, job) ELSE Markup(job)
    ELSE IF row.live # Live(job) THEN PatchBody(row, job) ELSE [row EXCEPT !.frame = job.status]

\* keyedDownloadRowsPatch: a row that is there and not named is left alone.
Patched(j) ==
    IF page[j] = NoRow THEN Markup(Job(j))
    ELSE IF j \in changed THEN PatchRow(page[j], Job(j))
    ELSE page[j]
RowInit ==
    /\ raw \in [Jobs -> {NoJob} \cup {[NoJob EXCEPT !.status = "queued"]}]
    /\ changed = {} /\ section = "downloads" /\ rowMenu = FALSE
    /\ recovery = [j \in Jobs |-> "none"]
    /\ page = [j \in Jobs |-> IF IsListed(j) THEN Markup(Job(j)) ELSE NoRow]
    /\ panel = [j \in Jobs |-> "none"] /\ counts = Counts
    /\ sortOrder = "newest" /\ nodes = Nodes("downloads", "newest", recovery)
    /\ news = 0 /\ menus = 0

\* The page drawn again from the state, ...
DrawRows(place, by, known) ==
    /\ nodes' = Nodes(place, by, known)
    /\ page' = [j \in Jobs |-> IF j \in VisibleIn(place) THEN Markup(Job(j)) ELSE NoRow]
    /\ panel' = [j \in Jobs |-> IF j \in VisibleIn(place) THEN Panel(j, known) ELSE "none"]
    /\ counts' = Counts /\ changed' = {}

\* ... and what binding its events starts: alternatives for every failed file.
RecoveryAsked(known) ==
    [j \in Jobs |->
        IF /\ IsListed(j) /\ Job(j).kind = "file" /\ Job(j).status = "failed"
           /\ known[j] = "none"
        THEN "asked" ELSE known[j]]
Render(place, by, known) == DrawRows(place, by, known) /\ recovery' = RecoveryAsked(known)

\* Two snapshots of a job differ in its transfer, its thumbnail or its priority.
OneThing(s, t) ==
    \/ s.thumb = t.thumb /\ s.priority = t.priority
    \/ s = [t EXCEPT !.thumb = s.thumb] \/ s = [t EXCEPT !.priority = s.priority]

\* A new snapshot; the rows that differ are named to the next patch.
ListChanges(j) ==
    /\ news < MaxNews
    /\ \E s \in Snapshots(j) \cup {NoJob} :
         /\ s # raw[j] /\ Sane(s)
         /\ \/ Together
            \/ s = NoJob
            \/ /\ j \notin changed
               /\ IF raw[j] = NoJob THEN s.status = "queued" ELSE OneThing(s, raw[j])
         /\ raw' = [raw EXCEPT ![j] = s]
    /\ changed' = changed \cup {j} /\ news' = news + 1
    /\ UNCHANGED <<page, panel, nodes, sortOrder, counts, recovery, section, rowMenu, menus>>

\* patchDownloadManagerLiveCore: the totals always, the rows unless a row menu is open.
Patch ==
    /\ changed # {}
    /\ counts' = Counts /\ changed' = {}
    /\ IF rowMenu
       THEN UNCHANGED <<page, panel, nodes>>
       ELSE /\ page' = [j \in Jobs |-> IF j \in Visible THEN Patched(j) ELSE NoRow]
            /\ panel' = [j \in Jobs |-> IF j \in Visible THEN Panel(j, recovery) ELSE "none"]
            /\ nodes' = Placed(nodes, Nodes(section, sortOrder, recovery))
    /\ UNCHANGED <<raw, recovery, sortOrder, section, rowMenu, news, menus>>

\* Everything is drawn again: a snapshot that changes the list, news, a setting.
Redraw ==
    /\ changed # {} /\ Render(section, sortOrder, recovery)
    /\ UNCHANGED <<raw, sortOrder, section, rowMenu, news, menus>>

\* A row menu is opened or closed: rerender() draws whatever is open by then.
Menu ==
    /\ menus < MaxMenus /\ menus' = menus + 1
    /\ rowMenu' = ~rowMenu /\ Render(section, sortOrder, recovery)
    /\ UNCHANGED <<raw, sortOrder, section, news>>

\* The order is chosen: the list is drawn again.
Sort ==
    /\ menus < MaxMenus /\ menus' = menus + 1
    /\ sortOrder' \in {"newest", "oldest"} \ {sortOrder}
    /\ Render(section, sortOrder', recovery)
    /\ UNCHANGED <<raw, section, rowMenu, news>>

Section ==
    /\ menus < MaxMenus /\ menus' = menus + 1 /\ rowMenu' = FALSE
    /\ section' \in {"downloads", "queue", "history"} \ {section}
    /\ Render(section', sortOrder, recovery)
    /\ UNCHANGED <<raw, sortOrder, news>>

\* recover_media_source answers, well or badly; either is kept.
Recovered(j) ==
    /\ recovery[j] = "asked" 
    /\ Render(section, sortOrder, [recovery EXCEPT ![j] = "found"])
    /\ UNCHANGED <<raw, sortOrder, section, rowMenu, news, menus>>

RowNext ==
    \/ \E j \in Jobs : ListChanges(j) \/ Recovered(j)
    \/ Patch \/ Redraw \/ Menu \/ Sort \/ Section

RowSpec == RowInit /\ [][RowNext]_rowVars

RowTypes ==
    /\ \A j \in Jobs : raw[j] = NoJob \/ raw[j] \in Snapshots(j)
    /\ changed \subseteq Jobs /\ DOMAIN page = Jobs
    /\ \A j \in Jobs : panel[j] \in {"none", "loading", "found"}
    /\ \A j \in Jobs : recovery[j] \in {"none", "asked", "found"}
    /\ ToSet(nodes) \subseteq Jobs \X {"row", "recovery"}
    /\ \A s \in Statuses : counts[s] \in 0..Cardinality(Jobs)
    /\ section \in {"downloads", "queue", "history"}
    /\ sortOrder \in {"newest", "oldest"} /\ rowMenu \in BOOLEAN

\* With no change waiting to be patched the totals are the application's, and with
\* no menu open each row shows its job as it is: live.js patches a row by its
\* signatures, and a closed menu is drawn over.
RowsDrawn ==
    changed = {} =>
      /\ counts = Counts
      /\ ~rowMenu => \A j \in Jobs :
           /\ (page[j] # NoRow) <=> (j \in Visible)
           /\ j \in Visible =>
                /\ page[j].frame = Job(j).status /\ page[j].picture = Job(j).thumb
                /\ page[j].body = Body(Job(j))

\* The rows stand in the order chosen, too, each with its recovery under it: live.js
\* moves the nodes it has.
RowsShowJobs ==
    /\ RowsDrawn
    /\ changed = {} /\ ~rowMenu =>
         nodes = Nodes(section, sortOrder, [j \in Jobs |->
                        IF panel[j] = "found" THEN "found" ELSE "none"])
=============================================================================
