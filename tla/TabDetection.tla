---------------------------- MODULE TabDetection ----------------------------
(***************************************************************************)
(* How the panel comes to show what the active tab holds: the worker       *)
(* collects from a tab when it is activated, navigates or the user asks,   *)
(* checks again that the tab and its page are still the active ones, and   *)
(* publishes on the panel's port; the answer to the user's request travels *)
(* beside the port.  (service-worker.js, sidepanel.js; detector.js.)       *)
(*                                                                         *)
(* Pages are numbered in the order they are visited, and belong to the     *)
(* sites the worker collects from by itself (AUTOMATIC_DETECTION_DOMAINS). *)
(***************************************************************************)
EXTENDS Naturals, Sequences, FiniteSets

CONSTANTS
    Tabs,
    MaxMoves,  \* bound: switches, navigations and notices of the pages
    MaxAsks    \* bound: how often the user asks for an analysis

\* What the module expects of its constants: some tab is active.
DetectionConstants ==
    /\ IsFiniteSet(Tabs) /\ Tabs # {}
    /\ MaxMoves \in Nat /\ MaxAsks \in Nat

VARIABLES
    activeTab, \* the active tab
    page,      \* page[t]
    loading,   \* tabs whose page has not completed
    moves, asks,
    collects,  \* calls of collectFromTab in progress
    notices,   \* CONTENT_DETECTIONS under way from the pages
    port,      \* messages on the panel's port
    reply,     \* the answer to ANALYZE_ACTIVE: under way, or what it holds
    panel      \* what the panel shows

browserVars == <<activeTab, page, loading, moves>>
vars == <<browserVars, asks, collects, notices, port, reply, panel>>

NoPage == 0
Silent == [state |-> "none", page |-> NoPage]
Pages == 1 .. Cardinality(Tabs) + MaxMoves
Newest == LET all == {page[t] : t \in Tabs} IN CHOOSE p \in all : \A q \in all : q <= p

Collect(t, p, asked) == [tab |-> t, page |-> p, asked |-> asked, stage |-> "started"]

Init ==
    /\ page = CHOOSE f \in [Tabs -> 1 .. Cardinality(Tabs)] :
                \A s, t \in Tabs : f[s] = f[t] => s = t
    /\ activeTab = CHOOSE t \in Tabs : page[t] = 1
    /\ loading = {}
    /\ moves = 0 /\ asks = 0
    /\ collects = {Collect(activeTab, page[activeTab], FALSE)}
    /\ notices = {}
    /\ port = << >>
    /\ reply = Silent
    /\ panel = [state |-> "analyzing", page |-> NoPage]

Publish(message) == port' = Append(port, message)

----------------------------------------------------------------------------
(* The browser and the user.                                               *)

\* tabs.onActivated: the panel is told, and the tab is collected from.
Activate(t) ==
    /\ moves < MaxMoves
    /\ t # activeTab
    /\ moves' = moves + 1
    /\ activeTab' = t
    /\ Publish([kind |-> "analyzing", page |-> NoPage])
    /\ collects' = collects \cup {Collect(t, page[t], FALSE)}
    /\ UNCHANGED <<page, loading, asks, notices, reply, panel>>

\* tabs.onUpdated: a new address, and later its completion.
Navigate(t) ==
    /\ moves < MaxMoves
    /\ moves' = moves + 1
    /\ page' = [page EXCEPT ![t] = Newest + 1]
    /\ loading' = loading \cup {t}
    /\ collects' = collects \cup {Collect(t, Newest + 1, FALSE)}
    /\ UNCHANGED <<activeTab, asks, notices, port, reply, panel>>

Complete(t) ==
    /\ t \in loading
    /\ loading' = loading \ {t}
    /\ collects' = collects \cup {Collect(t, page[t], FALSE)}
    /\ UNCHANGED <<activeTab, page, moves, asks, notices, port, reply, panel>>

\* detector.js notices new media in its page, whichever tab is active.
Notice(t) ==
    /\ moves < MaxMoves
    /\ moves' = moves + 1
    /\ notices' = notices \cup {[tab |-> t, page |-> page[t]]}
    /\ UNCHANGED <<activeTab, page, loading, asks, collects, port, reply, panel>>

\* analyze(): one request at a time here.
Analyze ==
    /\ asks < MaxAsks
    /\ reply = Silent
    /\ asks' = asks + 1
    /\ panel' = [state |-> "analyzing", page |-> NoPage]
    /\ reply' = [state |-> "awaited", page |-> NoPage]
    /\ collects' = collects \cup {Collect(activeTab, page[activeTab], TRUE)}
    /\ UNCHANGED <<browserVars, notices, port>>

----------------------------------------------------------------------------
(* collectFromTab, and CONTENT_DETECTIONS.                                 *)

Current(c) == c.tab = activeTab /\ c.page = page[c.tab]

\* A collection that was asked for answers with what it publishes.
Finish(c, p) ==
    /\ collects' = collects \ {c}
    /\ reply' = IF c.asked THEN [state |-> "ready", page |-> p] ELSE reply

Begin(c) ==
    /\ c.stage = "started"
    /\ \/ /\ c.tab = activeTab
          /\ collects' = (collects \ {c}) \cup {[c EXCEPT !.stage = "waiting"]}
          /\ UNCHANGED reply
       \/ /\ c.tab # activeTab
          /\ Finish(c, NoPage)
    /\ UNCHANGED <<browserVars, asks, notices, port, panel>>

\* Mutant: what the page says is published without a second look.
FoundUnchecked(c) ==
    /\ c.stage = "waiting"
    /\ Publish([kind |-> "found", page |-> c.page])
    /\ Finish(c, c.page)
    /\ UNCHANGED <<browserVars, asks, notices, panel>>

\* The page answers and is still the active one, or what it said is dropped.
Found(c) ==
    /\ c.stage = "waiting"
    /\ \/ /\ Current(c)
          /\ Publish([kind |-> "found", page |-> c.page])
          /\ Finish(c, c.page)
       \/ /\ ~Current(c)
          /\ Finish(c, NoPage)
          /\ UNCHANGED port
    /\ UNCHANGED <<browserVars, asks, notices, panel>>

\* The injection fails or the page does not answer in time.
Failed(c) ==
    /\ c.stage = "waiting"
    /\ IF c.tab = activeTab THEN Publish([kind |-> "failed", page |-> NoPage])
                         ELSE UNCHANGED port
    /\ Finish(c, NoPage)
    /\ UNCHANGED <<browserVars, asks, notices, panel>>

Noticed(n) ==
    /\ notices' = notices \ {n}
    /\ IF Current(n) THEN Publish([kind |-> "found", page |-> n.page]) ELSE UNCHANGED port
    /\ UNCHANGED <<browserVars, asks, collects, reply, panel>>

----------------------------------------------------------------------------
(* The panel.                                                              *)

Receive ==
    /\ port # << >>
    /\ port' = Tail(port)
    /\ panel' = [state |-> Head(port).kind, page |-> Head(port).page]
    /\ UNCHANGED <<browserVars, asks, collects, notices, reply>>

\* The answer counts only while nothing else has arrived.
Answered ==
    /\ reply.state = "ready"
    /\ reply' = Silent
    /\ panel' = IF panel.state # "analyzing" THEN panel
                ELSE [state |-> IF reply.page = NoPage THEN "nothing" ELSE "found",
                      page |-> reply.page]
    /\ UNCHANGED <<browserVars, asks, collects, notices, port>>

Working ==
    \/ \E c \in collects : Begin(c) \/ Found(c) \/ Failed(c)
    \/ \E n \in notices : Noticed(n)

Next ==
    \/ \E t \in Tabs : Activate(t) \/ Navigate(t) \/ Complete(t) \/ Notice(t)
    \/ Analyze
    \/ Working
    \/ Receive
    \/ Answered

Spec == Init /\ [][Next]_vars

\* Promises settle (each wait of collectFromTab has a limit), messages arrive,
\* and a page completes; the user need not do anything.
Fairness ==
    /\ WF_vars(Working)
    /\ WF_vars(Receive)
    /\ WF_vars(Answered)
    /\ \A t \in Tabs : WF_vars(Complete(t))

FairSpec == Spec /\ Fairness

----------------------------------------------------------------------------
(* Properties.                                                             *)

CollectType == [tab : Tabs, page : Pages, asked : BOOLEAN, stage : {"started", "waiting"}]

\* Every variable has its type.
TypeOK ==
    /\ activeTab \in Tabs /\ page \in [Tabs -> Pages] /\ loading \subseteq Tabs
    /\ moves \in 0 .. MaxMoves /\ asks \in 0 .. MaxAsks
    /\ collects \subseteq CollectType
    /\ notices \subseteq [tab : Tabs, page : Pages]
    /\ port \in Seq([kind : {"analyzing", "found", "failed"}, page : Pages \cup {NoPage}])
    /\ reply \in [state : {"none", "awaited", "ready"}, page : Pages \cup {NoPage}]
    /\ panel \in [state : {"analyzing", "found", "failed", "nothing"}, page : Pages \cup {NoPage}]

\* When the user has stopped switching and navigating, the panel comes to rest:
\* it no longer says that it analyzes, and what it shows is of the active tab's
\* page, although answers of earlier pages were still under way on two channels.
PanelSettles ==
    <>[](panel.state # "analyzing" /\ (panel.state = "found" => panel.page = page[activeTab]))
=============================================================================
