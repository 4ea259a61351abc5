---------------------------- MODULE MCExtension ----------------------------
(***************************************************************************)
(* The extension for TLC: captured downloads (BrowserCapture) and the      *)
(* user's selections over one journal, and the panel's view of the tabs.   *)
(* The three meet only in the journal's capacity, so one of them moves in  *)
(* a behaviour and the others rest: their state spaces add up and do not   *)
(* multiply.                                                               *)
(***************************************************************************)
EXTENDS BrowserCapture

CONSTANTS Panel, Menu, Selections, Tabs, NamingFirst,
          SendCapacity, SendReplies, \* Capacity and HostReplies of the sends
          MaxSends, MaxMoves, MaxAsks, Focuses

VARIABLES drawn, posted, busy, unconfirmed,
          activeTab, page, loading, moves, asks, collects, notices, port, reply, panel,
          focus

MCUrls   == {1, 2}
MCCalls  == Downloads \cup {Panel, Menu}
MCPrints == (Downloads \X Urls) \cup Selections
MCIds    == (Downloads \X Urls) \cup ({"send"} \X (1 .. MaxSends))
MCOrder  == [d \in Downloads |-> IF d \in NamingFirst THEN <<"naming", "created">>
                                                      ELSE <<"created", "naming">>]

Sending == INSTANCE SelectionSend WITH Capacity <- SendCapacity, HostReplies <- SendReplies
Tabbing == INSTANCE TabDetection

ASSUME PartAssumption ==
    /\ CaptureConstants /\ Sending!SendConstants /\ Tabbing!DetectionConstants
    /\ SendCapacity \in Nat \ {0}
    /\ SendReplies \subseteq {"accepted", "rejected", "busy"}

sendVars == <<drawn, posted, busy, unconfirmed>>
tabVars  == <<activeTab, page, loading, moves, asks, collects, notices, port, reply, panel>>
partVars == <<journalVars, captureVars, sendVars, tabVars, focus>>

MCInit ==
    /\ Init
    /\ Sending!SendInit
    /\ Tabbing!Init
    /\ focus \in Focuses

InCapture(action) == focus = "capture" /\ action /\ UNCHANGED <<sendVars, tabVars, focus>>
InSend(action)    == focus = "send" /\ action /\ UNCHANGED <<captureVars, tabVars, focus>>
InTabs(action)    == focus = "tabs" /\ action /\ UNCHANGED <<journalVars, captureVars, sendVars, focus>>

MCNext == InCapture(Next) \/ InSend(Sending!SendNext) \/ InTabs(Tabbing!Next)

MCSpec == MCInit /\ [][MCNext]_partVars

\* The fairness of each part, for the part that moves.
MCFairSpec ==
    /\ MCSpec
    /\ \A d \in Downloads :
         /\ WF_partVars(InCapture(Worker(d)))
         /\ WF_partVars(InCapture(JournalSettles(d)))
    /\ WF_partVars(InTabs(Tabbing!Working))
    /\ WF_partVars(InTabs(Tabbing!Receive))
    /\ WF_partVars(InTabs(Tabbing!Answered))
    /\ \A t \in Tabs : WF_partVars(InTabs(Tabbing!Complete(t)))

\* Every variable has its type.
PartTypes == TypeOK /\ Sending!SendTypes /\ Tabbing!TypeOK

\* The panel's property, for the behaviours in which the tabs move.
PanelSettles == focus = "tabs" => Tabbing!PanelSettles
=============================================================================
