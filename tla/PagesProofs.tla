-------------------------------- MODULE PagesProofs --------------------------------
(***************************************************************************)
(* Proofs about the pages of the main window that keep what the user did:  *)
(* the links that are taken in (LinkIntake), the image editor              *)
(* (ImageEditor), the settings (Preferences) and the look of the windows   *)
(* (Appearance), for any links, edits, settings and looks, and any number  *)
(* of faults; about these pages side by side, as MCMainWindow composes     *)
(* them; and about the types of all nine parts of that composition.        *)
(***************************************************************************)
EXTENDS MainWindowProofs

-----------------------------------------------------------------------------
(* THE LINKS THAT ARE TAKEN IN                                             *)

(* The inductive invariant                                                 *)

LinkOrNone == Links \cup {NoLink}
Checks == [stage : {"none", "reading", "inspecting", "opening"}, link : LinkOrNone]

\* The coordinator: what the page shows is the prompt or nothing, and nothing waits
\* while none is active.
PromptTypes ==
    /\ active \in LinkOrNone /\ prompt \in LinkOrNone /\ drawn \in LinkOrNone
    /\ queue \in Seq(Links)
    /\ transient \in {"none", "menu", "dialog"}
    /\ proposed \in Nat /\ answered \in Nat
PromptsFit ==
    /\ PromptsKept
    /\ drawn \in {NoLink, prompt}
    /\ active = NoLink => queue = <<>>

\* A look at the clipboard: what a new copy is worth. A link that is neither the one
\* observed nor the one being looked at was copied and not handled yet.
WatchTypes ==
    /\ clipboard \in LinkOrNone /\ observed \in LinkOrNone
    /\ check \in Checks
    /\ copies \in 0 .. MaxCopies /\ inputs \in 0 .. MaxInputs /\ handled \in Nat
FlagTypes ==
    focused \in BOOLEAN /\ suggest \in BOOLEAN /\ suppressing \in BOOLEAN
CopiesCount ==
    /\ handled <= copies
    /\ check.stage \in {"none", "reading"} => check.link = NoLink
    /\ check.stage \in {"none", "reading"} /\ clipboard # observed => handled < copies
    /\ check.stage = "inspecting" => handled < copies /\ check.link \in Links
    /\ check.stage = "inspecting" /\ clipboard # check.link => handled + 1 < copies
    /\ check.stage = "opening" => check.link \in Links
    /\ check.stage = "opening" /\ clipboard # check.link => handled < copies

\* The routes: one for each request, and one of the clipboard's while its check waits
\* for it.
RouteTypes ==
    /\ latest \in Nat /\ routes \subseteq [id : Nat, link : Links, auto : BOOLEAN,
                                           stage : {"inspecting", "opening"}]
    /\ windows \in Seq(Nat) /\ refused \subseteq Nat
RoutesFit ==
    /\ \A r \in routes : 0 < r.id /\ r.id <= latest
    /\ \A r, o \in routes : r.id = o.id => r = o
    /\ \A r \in routes : r.stage = "inspecting" => ~r.auto /\ r.id \notin ToSet(windows)
    /\ \A r \in routes : r.auto => check.stage = "opening" /\ r.link = check.link
    /\ \A r, o \in routes : r.auto /\ o.auto => r = o
    /\ \A i \in 1 .. Len(windows) : 0 < windows[i] /\ windows[i] <= latest
    /\ \A i, j \in 1 .. Len(windows) : i < j => windows[i] < windows[j]
    /\ \A n \in refused : 0 < n /\ n <= latest
LatestKept ==
    latest > 0 => \/ latest \in ToSet(windows) \cup refused
                  \/ \E r \in routes : r.id = latest /\ r.stage = "inspecting"

\* Requests come from a link that was handled, from an answer or from the user.
RequestsCount == latest <= handled + answered + inputs /\ proposed <= handled

IntakeInv ==
    /\ PromptTypes /\ WatchTypes /\ FlagTypes /\ RouteTypes
    /\ PromptsFit /\ CopiesCount /\ RoutesFit /\ LatestKept /\ RequestsCount

-----------------------------------------------------------------------------
(* Prompts                                                                 *)

LEMMA AnswerFits ==
    ASSUME IntakeConstants, PromptTypes, PromptsFit, prompt # NoLink, Answer,
           UNCHANGED transient
    PROVE  PromptTypes' /\ PromptsFit' /\ proposed' = proposed /\ answered' = answered + 1
<1>1. active # NoLink
  BY DEF PromptsFit, PromptsKept
<1>2. CASE queue = <<>>
  <2>1. Len(queue) = 0
    BY <1>2
  <2>2. proposed = answered + 1
    BY <1>1, <2>1 DEF PromptsFit, PromptsKept, PromptTypes
  <2>3. /\ active' = NoLink /\ prompt' = NoLink /\ drawn' = NoLink /\ queue' = queue
        /\ answered' = answered + 1 /\ proposed' = proposed
    BY <1>2 DEF Answer
  <2> QED BY <1>2, <2>1, <2>2, <2>3 DEF PromptTypes, PromptsFit, PromptsKept, LinkOrNone
<1>3. CASE queue # <<>>
  <2>1. /\ Head(queue) \in Links /\ Tail(queue) \in Seq(Links)
        /\ Len(Tail(queue)) = Len(queue) - 1 /\ Len(queue) \in Nat
    BY <1>3 DEF PromptTypes
  <2>2. Head(queue) # NoLink
    BY <2>1 DEF IntakeConstants, Links
  <2>3. /\ active' = Head(queue) /\ prompt' = Head(queue) /\ queue' = Tail(queue)
        /\ drawn' \in {NoLink, Head(queue)}
        /\ answered' = answered + 1 /\ proposed' = proposed
    BY <1>3 DEF Answer
  <2>4. proposed = answered + Len(queue) + 1
    BY <1>1 DEF PromptsFit, PromptsKept
  <2>5. PromptTypes'
    BY <2>1, <2>3 DEF PromptTypes, LinkOrNone
  <2>6. proposed' = answered' + Len(queue') + 1
    BY <2>1, <2>3, <2>4 DEF PromptTypes
  <2> QED BY <2>2, <2>3, <2>5, <2>6 DEF PromptsFit, PromptsKept
<1> QED BY <1>2, <1>3

LEMMA EnqueueFits ==
    ASSUME IntakeConstants, PromptTypes, PromptsFit, NEW link \in Links, Enqueue(link),
           UNCHANGED transient
    PROVE  /\ PromptTypes' /\ PromptsFit'
           /\ proposed' \in {proposed, proposed + 1} /\ answered' = answered
<1>0. link # NoLink
  BY DEF IntakeConstants, Links
<1>1. CASE UNCHANGED prompts
  BY <1>1 DEF prompts, PromptTypes, PromptsFit, PromptsKept
<1>2. CASE ~UNCHANGED prompts
  <2> DEFINE longer == Append(queue, link)
  <2>1. Present(longer) /\ proposed' = proposed + 1 /\ answered' = answered
    BY <1>2 DEF Enqueue
  <2>2. longer \in Seq(Links) /\ Len(longer) = Len(queue) + 1 /\ Len(queue) \in Nat
    BY DEF PromptTypes
  <2>3. CASE active # NoLink
    <3>1. queue' = longer /\ UNCHANGED <<active, prompt, drawn>>
      BY <2>1, <2>3 DEF Present
    <3> QED BY <2>1, <2>2, <2>3, <3>1 DEF PromptTypes, PromptsFit, PromptsKept
  <2>4. CASE active = NoLink
    <3>1. queue = <<>>
      BY <2>4 DEF PromptsFit
    <3>2. Head(longer) = link /\ Tail(longer) = <<>>
      BY <3>1
    <3>3. /\ queue' = <<>> /\ active' = link /\ prompt' = link
          /\ drawn' \in {link, drawn}
      BY <2>1, <2>4, <3>2 DEF Present, Presented
    <3>4. drawn = NoLink
      BY <2>4 DEF PromptsFit, PromptsKept
    <3>5. proposed = answered
      BY <2>4, <3>1 DEF PromptsFit, PromptsKept, PromptTypes
    <3> QED BY <1>0, <2>1, <3>3, <3>4, <3>5 DEF PromptTypes, PromptsFit, PromptsKept, LinkOrNone
  <2> QED BY <2>1, <2>3, <2>4
<1> QED BY <1>1, <1>2

-----------------------------------------------------------------------------
(* Routes                                                                  *)

\* A new request is the latest, whatever the check of the clipboard makes of it.
LEMMA TakeFits ==
    ASSUME RouteTypes, RoutesFit, LatestKept, WatchTypes,
           NEW link \in Links, NEW auto \in BOOLEAN, Take(link, auto, auto),
           auto => check.stage = "inspecting" /\ link = check.link,
           check' = IF auto THEN [check EXCEPT !.stage = "opening"] ELSE check
    PROVE  RouteTypes' /\ RoutesFit' /\ LatestKept' /\ latest' = latest + 1
<1> DEFINE new == [id |-> latest + 1, link |-> link, auto |-> auto,
                   stage |-> IF auto THEN "opening" ELSE "inspecting"]
<1>1. /\ latest' = latest + 1 /\ routes' = routes \cup {new} /\ refused' = refused
      /\ windows' = IF auto THEN Append(windows, latest + 1) ELSE windows
  BY DEF Take
<1>2. /\ new.id = latest + 1 /\ new.link = link /\ new.auto = auto
      /\ new.stage = IF auto THEN "opening" ELSE "inspecting"
      /\ new \in [id : Nat, link : Links, auto : BOOLEAN, stage : {"inspecting", "opening"}]
  BY DEF RouteTypes
<1>3. check'.link = check.link /\ (auto => check'.stage = "opening")
  BY DEF WatchTypes, Checks
<1> HIDE DEF new
<1>4. /\ windows' \in Seq(Nat) /\ Len(windows) \in Nat
      /\ Len(windows') = IF auto THEN Len(windows) + 1 ELSE Len(windows)
      /\ \A i \in 1 .. Len(windows) : windows'[i] = windows[i]
      /\ auto => windows'[Len(windows) + 1] = latest + 1
      /\ \A i \in 1 .. Len(windows) : windows[i] \in Nat
  BY <1>1 DEF RouteTypes
<1>5. RouteTypes'
  BY <1>1, <1>2, <1>4 DEF RouteTypes
<1>6. RoutesFit'
  <2>1. /\ \A r \in routes' : 0 < r.id /\ r.id <= latest'
        /\ \A n \in refused' : 0 < n /\ n <= latest'
    BY <1>1, <1>2 DEF RouteTypes, RoutesFit
  <2>2. \A r, o \in routes' : r.id = o.id => r = o
    BY <1>1, <1>2 DEF RouteTypes, RoutesFit
  <2>3. \A i \in 1 .. Len(windows') : 0 < windows'[i] /\ windows'[i] <= latest'
    BY <1>1, <1>4 DEF RouteTypes, RoutesFit
  <2>4. \A i, j \in 1 .. Len(windows') : i < j => windows'[i] < windows'[j]
    BY <1>1, <1>4 DEF RouteTypes, RoutesFit
  <2>5. ToSet(windows') \subseteq ToSet(windows) \cup {latest + 1}
    BY <1>1, <1>4 DEF ToSet, RouteTypes
  <2>6. \A n \in ToSet(windows) : n <= latest
    BY DEF ToSet, RoutesFit, RouteTypes
  <2>9. ~auto => windows' = windows
    BY <1>1
  <2>7. \A r \in routes' : r.stage = "inspecting" => ~r.auto /\ r.id \notin ToSet(windows')
    <3> SUFFICES ASSUME NEW r \in routes', r.stage = "inspecting"
                 PROVE  ~r.auto /\ r.id \notin ToSet(windows')
      OBVIOUS
    <3>1. CASE r \in routes
      <4>1. r.id <= latest /\ r.id \in Nat /\ ~r.auto /\ r.id \notin ToSet(windows)
        BY <3>1 DEF RoutesFit, RouteTypes
      <4>2. r.id # latest + 1
        BY <4>1 DEF RouteTypes
      <4> QED BY <4>1, <4>2, <2>5
    <3>2. CASE r = new
      <4>1. ~auto /\ r.id = latest + 1
        BY <3>2, <1>2
      <4>2. latest + 1 \notin ToSet(windows)
        BY <2>6 DEF RouteTypes
      <4> QED BY <3>2, <4>1, <4>2, <1>2, <2>9
    <3> QED BY <3>1, <3>2, <1>1
  <2>8. /\ \A r \in routes' : r.auto => check'.stage = "opening" /\ r.link = check'.link
        /\ \A r, o \in routes' : r.auto /\ o.auto => r = o
    BY <1>1, <1>2, <1>3 DEF RoutesFit
  <2> QED BY <2>1, <2>2, <2>3, <2>4, <2>7, <2>8 DEF RoutesFit
<1>7. LatestKept'
  <2>1. CASE auto
    <3>1. latest + 1 \in ToSet(windows')
      BY <1>4, <2>1 DEF ToSet
    <3> QED BY <3>1, <1>1 DEF LatestKept
  <2>2. CASE ~auto
    BY <2>2, <1>1, <1>2 DEF LatestKept
  <2> QED BY <2>1, <2>2
<1> QED BY <1>1, <1>5, <1>6, <1>7

\* Nothing of the routes moves.
LEMMA SameRoutes ==
    ASSUME RouteTypes, RoutesFit, LatestKept, UNCHANGED routing,
           check' = check \/ (check.stage # "opening")
    PROVE  RouteTypes' /\ RoutesFit' /\ LatestKept'
BY DEF RouteTypes, RoutesFit, LatestKept, routing

LEMMA SamePrompts ==
    ASSUME PromptTypes, PromptsFit, UNCHANGED <<prompts, transient>>
    PROVE  PromptTypes' /\ PromptsFit'
BY DEF PromptTypes, PromptsFit, PromptsKept, prompts

LEMMA SameWatch ==
    ASSUME WatchTypes, CopiesCount, UNCHANGED <<clipboard, copies, check, observed, handled>>,
           inputs' \in 0 .. MaxInputs
    PROVE  WatchTypes' /\ CopiesCount'
BY DEF WatchTypes, CopiesCount

LEMMA SameFlags ==
    ASSUME FlagTypes, UNCHANGED <<focused, suggest, suppressing>> PROVE FlagTypes'
BY DEF FlagTypes

LEMMA SameCounts ==
    ASSUME RequestsCount, UNCHANGED <<latest, handled, answered, inputs, proposed>>
    PROVE  RequestsCount'
BY DEF RequestsCount

LEMMA NextState ==
    ASSUME PromptTypes', WatchTypes', FlagTypes', RouteTypes', PromptsFit', CopiesCount',
           RoutesFit', LatestKept', RequestsCount'
    PROVE  IntakeInv'
BY DEF IntakeInv

LEMMA IdleCheck == Idle \in Checks /\ Idle.stage = "none" /\ Idle.link = NoLink
BY DEF Idle, Checks, LinkOrNone

LEMMA IntakeStarts == IntakeConstants /\ IntakeInit => IntakeInv
<1> SUFFICES ASSUME IntakeConstants, IntakeInit PROVE IntakeInv
  OBVIOUS
<1>1. PromptTypes
  BY DEF IntakeInit, PromptTypes, LinkOrNone
<1>2. PromptsFit
  BY DEF IntakeInit, PromptsFit, PromptsKept
<1>3. WatchTypes
  BY IdleCheck DEF IntakeInit, WatchTypes, LinkOrNone, IntakeConstants
<1>4. CopiesCount
  BY IdleCheck DEF IntakeInit, CopiesCount
<1>5. FlagTypes
  BY DEF IntakeInit, FlagTypes
<1>6. RouteTypes
  BY DEF IntakeInit, RouteTypes
<1>7. RoutesFit
  BY DEF IntakeInit, RoutesFit
<1>8. LatestKept /\ RequestsCount
  BY DEF IntakeInit, LatestKept, RequestsCount
<1> QED BY <1>1, <1>2, <1>3, <1>4, <1>5, <1>6, <1>7, <1>8 DEF IntakeInv

-----------------------------------------------------------------------------
(* The clipboard                                                           *)

LEMMA CopyKeeps ==
    ASSUME IntakeConstants, IntakeInv, Copy PROVE IntakeInv'
<1> PromptTypes /\ WatchTypes /\ FlagTypes /\ RouteTypes /\ PromptsFit /\ CopiesCount
    /\ RoutesFit /\ LatestKept /\ RequestsCount
  BY DEF IntakeInv
<1>1. PromptTypes' /\ PromptsFit'
  BY SamePrompts DEF Copy
<1>2. UNCHANGED <<check, observed, handled, focused, inputs>>
  BY DEF Copy, watching
<1>3. copies' = copies + 1 /\ clipboard' \in Links /\ copies < MaxCopies
  BY DEF Copy
<1>4. WatchTypes'
  BY <1>2, <1>3 DEF WatchTypes, LinkOrNone, IntakeConstants
<1>5. CopiesCount'
  BY <1>2, <1>3 DEF CopiesCount, WatchTypes
<1>6. FlagTypes'
  BY <1>2, SameFlags DEF Copy, settings
<1>7. RouteTypes' /\ RoutesFit' /\ LatestKept'
  BY <1>2, SameRoutes DEF Copy
<1>8. RequestsCount'
  BY <1>2, SameCounts DEF Copy, routing, prompts
<1> QED BY <1>1, <1>4, <1>5, <1>6, <1>7, <1>8, NextState

LEMMA LooksKeep ==
    ASSUME IntakeConstants, IntakeInv, Focus \/ Look \/ Read PROVE IntakeInv'
<1> PromptTypes /\ WatchTypes /\ FlagTypes /\ RouteTypes /\ PromptsFit /\ CopiesCount
    /\ RoutesFit /\ LatestKept /\ RequestsCount
  BY DEF IntakeInv
<1>1. PromptTypes' /\ PromptsFit'
  BY SamePrompts DEF Focus, Look, Read
<1>2. UNCHANGED <<clipboard, copies, inputs, observed, handled>>
  BY DEF Focus, Look, Read, used
<1>3. \/ check' = check
      \/ check.stage = "none" /\ check' = [Idle EXCEPT !.stage = "reading"]
      \/ check.stage = "reading" /\ check' = Idle
      \/ /\ check.stage = "reading" /\ clipboard # NoLink /\ clipboard # observed
         /\ check' = [stage |-> "inspecting", link |-> clipboard]
  BY IdleCheck DEF Focus, Look, Read
<1>4. WatchTypes' /\ CopiesCount'
  <2>1. CASE check' = check
    BY <1>2, <2>1, SameWatch DEF WatchTypes
  <2>2. CASE check.stage = "none" /\ check' = [Idle EXCEPT !.stage = "reading"]
    <3>1. check' \in Checks /\ check'.stage = "reading" /\ check'.link = NoLink
      BY <2>2, IdleCheck DEF Checks
    <3> QED BY <2>2, <3>1, <1>2 DEF WatchTypes, CopiesCount
  <2>3. CASE check.stage = "reading" /\ check' = Idle
    BY <2>3, <1>2, IdleCheck DEF WatchTypes, CopiesCount
  <2>4. CASE /\ check.stage = "reading" /\ clipboard # NoLink /\ clipboard # observed
             /\ check' = [stage |-> "inspecting", link |-> clipboard]
    <3>1. check' \in Checks /\ check'.stage = "inspecting" /\ check'.link = clipboard
      BY <2>4 DEF WatchTypes, Checks
    <3>2. clipboard \in Links
      BY <2>4 DEF WatchTypes, LinkOrNone
    <3> QED BY <2>4, <3>1, <3>2, <1>2 DEF WatchTypes, CopiesCount
  <2> QED BY <1>3, <2>1, <2>2, <2>3, <2>4
<1>6. FlagTypes'
  BY DEF Focus, Look, Read, FlagTypes, settings
<1>7. RouteTypes' /\ RoutesFit' /\ LatestKept'
  BY <1>3, SameRoutes DEF Focus, Look, Read
<1>8. RequestsCount'
  BY <1>2, SameCounts DEF Focus, Look, Read, routing, prompts
<1> QED BY <1>1, <1>4, <1>6, <1>7, <1>8, NextState

LEMMA ClassifiedKeeps ==
    ASSUME IntakeConstants, IntakeInv, Classified PROVE IntakeInv'
<1> PromptTypes /\ WatchTypes /\ FlagTypes /\ RouteTypes /\ PromptsFit /\ CopiesCount
    /\ RoutesFit /\ LatestKept /\ RequestsCount
  BY DEF IntakeInv
<1>1. check.stage = "inspecting" /\ UNCHANGED <<focused, clipboard, copies, inputs, settings, transient>>
  BY DEF Classified, used
<1>2. FlagTypes'
  BY <1>1 DEF FlagTypes, settings
<1>3. CASE /\ check.link \in Files /\ Take(check.link, TRUE, TRUE)
           /\ check' = [check EXCEPT !.stage = "opening"] /\ handled' = handled + 1
           /\ UNCHANGED <<observed, prompts>>
  <2>1. check' \in Checks /\ check'.stage = "opening" /\ check'.link = check.link
    BY <1>3 DEF WatchTypes, Checks
  <2>2. PromptTypes' /\ PromptsFit'
    BY <1>1, <1>3, SamePrompts
  <2>3. WatchTypes'
    BY <1>1, <1>3, <2>1 DEF WatchTypes
  <2>4. CopiesCount'
    BY <1>1, <1>3, <2>1 DEF CopiesCount, WatchTypes
  <2>5. check.link \in Links
    BY <1>3 DEF Links
  <2>6. RouteTypes' /\ RoutesFit' /\ LatestKept' /\ latest' = latest + 1
    BY <1>1, <1>3, <2>5, TakeFits
  <2>7. RequestsCount'
    BY <1>1, <1>3, <2>6 DEF RequestsCount, prompts, WatchTypes, PromptTypes, RouteTypes
  <2> QED BY <1>2, <2>2, <2>3, <2>4, <2>6, <2>7, NextState
<1>4. CASE /\ check.link \in Videos /\ Enqueue(check.link)
           /\ check' = Idle /\ observed' = check.link /\ handled' = handled + 1
           /\ UNCHANGED routing
  <2>1. check.link \in Links
    BY <1>4 DEF Links
  <2>2. /\ PromptTypes' /\ PromptsFit'
        /\ proposed' \in {proposed, proposed + 1} /\ answered' = answered
    BY <1>1, <1>4, <2>1, EnqueueFits
  <2>3. WatchTypes'
    BY <1>1, <1>4, <2>1, IdleCheck DEF WatchTypes, LinkOrNone
  <2>4. CopiesCount'
    BY <1>1, <1>4, IdleCheck DEF CopiesCount, WatchTypes
  <2>6. RouteTypes' /\ RoutesFit' /\ LatestKept'
    BY <1>1, <1>4, SameRoutes
  <2>7. RequestsCount'
    BY <1>1, <1>4, <2>2 DEF RequestsCount, routing, WatchTypes, PromptTypes, RouteTypes
  <2> QED BY <1>2, <2>2, <2>3, <2>4, <2>6, <2>7, NextState
<1>5. CASE /\ check' = Idle /\ observed' = check.link
           /\ UNCHANGED <<handled, prompts, routing>>
  <2>1. PromptTypes' /\ PromptsFit'
    BY <1>1, <1>5, SamePrompts
  <2>3. WatchTypes'
    BY <1>1, <1>5, IdleCheck DEF WatchTypes, LinkOrNone, CopiesCount
  <2>4. CopiesCount'
    BY <1>1, <1>5, IdleCheck DEF CopiesCount, WatchTypes
  <2>6. RouteTypes' /\ RoutesFit' /\ LatestKept'
    BY <1>1, <1>5, SameRoutes
  <2>7. RequestsCount'
    BY <1>1, <1>5 DEF RequestsCount, routing, prompts
  <2> QED BY <1>2, <2>1, <2>3, <2>4, <2>6, <2>7, NextState
<1> QED BY <1>3, <1>4, <1>5 DEF Classified

-----------------------------------------------------------------------------
(* Requests and their windows                                              *)

LEMMA AskedKeeps ==
    ASSUME IntakeConstants, IntakeInv, Asked PROVE IntakeInv'
<1> PromptTypes /\ WatchTypes /\ FlagTypes /\ RouteTypes /\ PromptsFit /\ CopiesCount
    /\ RoutesFit /\ LatestKept /\ RequestsCount
  BY DEF IntakeInv
<1>1. /\ inputs' = inputs + 1 /\ inputs < MaxInputs
      /\ UNCHANGED <<clipboard, copies, focused, check, observed, handled>>
  BY DEF Asked, watching
<1>2. PICK link \in Links : Take(link, FALSE, FALSE)
  BY DEF Asked
<1>3. RouteTypes' /\ RoutesFit' /\ LatestKept' /\ latest' = latest + 1
  BY <1>1, <1>2, TakeFits
<1>4. PromptTypes' /\ PromptsFit'
  BY SamePrompts DEF Asked
<1>5. inputs' \in 0 .. MaxInputs
  BY <1>1 DEF WatchTypes, IntakeConstants
<1>6. WatchTypes' /\ CopiesCount'
  BY <1>1, <1>5, SameWatch
<1>7. FlagTypes'
  BY <1>1, SameFlags DEF Asked, settings
<1>8. UNCHANGED <<answered, proposed>>
  BY DEF Asked, prompts
<1>9. RequestsCount'
  BY <1>1, <1>3, <1>8 DEF RequestsCount, WatchTypes, PromptTypes, RouteTypes
<1> QED BY <1>3, <1>4, <1>6, <1>7, <1>9, NextState

LEMMA InspectedKeeps ==
    ASSUME IntakeConstants, IntakeInv, Inspected PROVE IntakeInv'
<1> PromptTypes /\ WatchTypes /\ FlagTypes /\ RouteTypes /\ PromptsFit /\ CopiesCount
    /\ RoutesFit /\ LatestKept /\ RequestsCount
  BY DEF IntakeInv
<1>1. UNCHANGED <<latest, used, watching, settings, prompts, transient>>
  BY DEF Inspected
<1>2. PromptTypes' /\ PromptsFit'
  BY <1>1, SamePrompts
<1>3. WatchTypes' /\ CopiesCount'
  BY <1>1, SameWatch DEF used, watching, WatchTypes
<1>4. FlagTypes' /\ RequestsCount'
  BY <1>1, SameFlags, SameCounts DEF watching, settings, prompts, used
<1>5. PICK r \in routes :
        /\ r.stage = "inspecting"
        /\ \/ Stale(r) /\ routes' = routes \ {r} /\ UNCHANGED <<windows, refused>>
           \/ /\ ~Stale(r)
              /\ routes' = (routes \ {r}) \cup {[r EXCEPT !.stage = "opening"]}
              /\ windows' = Append(windows, r.id) /\ UNCHANGED refused
           \/ /\ ~Stale(r)
              /\ routes' = routes \ {r} /\ refused' = refused \cup {r.id} /\ UNCHANGED windows
  BY DEF Inspected
<1>6. /\ r.id \in Nat /\ 0 < r.id /\ r.id <= latest /\ ~r.auto
      /\ r \in [id : Nat, link : Links, auto : BOOLEAN, stage : {"inspecting", "opening"}]
      /\ r.id \notin ToSet(windows)
      /\ latest' = latest /\ check' = check
  BY <1>1, <1>5 DEF RouteTypes, RoutesFit, watching
<1>7. CASE routes' = routes \ {r} /\ windows' = windows /\ refused' \subseteq refused \cup {r.id}
           /\ refused \subseteq refused'
           /\ (r.id = latest => r.id \in refused')
  <2>1. RouteTypes' /\ RoutesFit'
    BY <1>6, <1>7 DEF RouteTypes, RoutesFit
  <2>2. LatestKept'
    BY <1>6, <1>7 DEF LatestKept
  <2> QED BY <1>2, <1>3, <1>4, <2>1, <2>2, NextState
<1>8. CASE /\ r.id = latest /\ routes' = (routes \ {r}) \cup {[r EXCEPT !.stage = "opening"]}
           /\ windows' = Append(windows, r.id) /\ refused' = refused
  <2> DEFINE new == [r EXCEPT !.stage = "opening"]
  <2>1. /\ new.id = r.id /\ new.link = r.link /\ new.auto = r.auto /\ new.stage = "opening"
        /\ new \in [id : Nat, link : Links, auto : BOOLEAN, stage : {"inspecting", "opening"}]
    BY <1>6
  <2>2. routes' = (routes \ {r}) \cup {new}
    BY <1>8
  <2> HIDE DEF new
  <2>3. /\ windows' \in Seq(Nat) /\ Len(windows) \in Nat
        /\ Len(windows') = Len(windows) + 1
        /\ \A i \in 1 .. Len(windows) : windows'[i] = windows[i]
        /\ windows'[Len(windows) + 1] = latest
        /\ \A i \in 1 .. Len(windows) : windows[i] \in Nat
    BY <1>6, <1>8 DEF RouteTypes
  <2>4. RouteTypes'
    BY <1>6, <1>8, <2>1, <2>2, <2>3 DEF RouteTypes
  <2>5. \A i \in 1 .. Len(windows) : windows[i] < latest
    <3> SUFFICES ASSUME NEW i \in 1 .. Len(windows) PROVE windows[i] < latest
      OBVIOUS
    <3>1. windows[i] \in ToSet(windows)
      BY DEF ToSet, RouteTypes
    <3> QED BY <3>1, <1>6, <1>8, <2>3 DEF RoutesFit, RouteTypes
  <2>6. /\ \A i \in 1 .. Len(windows') : 0 < windows'[i] /\ windows'[i] <= latest'
        /\ \A i, j \in 1 .. Len(windows') : i < j => windows'[i] < windows'[j]
    BY <1>6, <1>8, <2>3, <2>5 DEF RoutesFit, RouteTypes
  <2>7. /\ \A o \in routes' : 0 < o.id /\ o.id <= latest'
        /\ \A n \in refused' : 0 < n /\ n <= latest'
    BY <1>6, <1>8, <2>1, <2>2 DEF RoutesFit
  <2>8. \A o, q \in routes' : o.id = q.id => o = q
    BY <1>5, <2>1, <2>2 DEF RoutesFit
  <2>9. ToSet(windows') \subseteq ToSet(windows) \cup {latest}
    <3> SUFFICES ASSUME NEW n \in ToSet(windows') PROVE n \in ToSet(windows) \cup {latest}
      OBVIOUS
    <3>1. PICK i \in 1 .. Len(windows) + 1 : n = windows'[i]
      BY <2>3 DEF ToSet
    <3>2. CASE i = Len(windows) + 1
      BY <2>3, <3>1, <3>2
    <3>3. CASE i \in 1 .. Len(windows)
      <4>1. windows[i] \in ToSet(windows)
        BY <3>3 DEF ToSet, RouteTypes
      <4> QED BY <2>3, <3>1, <3>3, <4>1
    <3> QED BY <2>3, <3>2, <3>3
  <2>10. \A o \in routes' : o.stage = "inspecting" => ~o.auto /\ o.id \notin ToSet(windows')
    BY <1>5, <1>8, <2>1, <2>2, <2>9 DEF RoutesFit
  <2>11. /\ \A o \in routes' : o.auto => check'.stage = "opening" /\ o.link = check'.link
         /\ \A o, q \in routes' : o.auto /\ q.auto => o = q
    BY <1>6, <2>1, <2>2 DEF RoutesFit
  <2>12. RoutesFit'
    BY <2>6, <2>7, <2>8, <2>10, <2>11 DEF RoutesFit
  <2>13. latest' \in ToSet(windows')
    BY <1>6, <2>3 DEF ToSet, RouteTypes
  <2> QED BY <1>2, <1>3, <1>4, <2>4, <2>12, <2>13, NextState DEF LatestKept
<1> QED BY <1>5, <1>6, <1>7, <1>8 DEF Stale

LEMMA OpenedKeeps ==
    ASSUME IntakeConstants, IntakeInv, Opened PROVE IntakeInv'
<1> PromptTypes /\ WatchTypes /\ FlagTypes /\ RouteTypes /\ PromptsFit /\ CopiesCount
    /\ RoutesFit /\ LatestKept /\ RequestsCount
  BY DEF IntakeInv
<1>1. UNCHANGED <<latest, windows, focused, handled, used, settings, prompts, transient>>
  BY DEF Opened
<1>2. PromptTypes' /\ PromptsFit'
  BY <1>1, SamePrompts
<1>4. FlagTypes' /\ RequestsCount'
  BY <1>1, SameFlags, SameCounts DEF settings, prompts, used
<1>5. PICK r \in routes :
        /\ r.stage = "opening" /\ routes' = routes \ {r}
        /\ refused' \in {refused, refused \cup {r.id}}
        /\ IF r.auto THEN check' = Idle /\ observed' = r.link ELSE UNCHANGED <<check, observed>>
  BY DEF Opened
<1>6. /\ r.id \in Nat /\ 0 < r.id /\ r.id <= latest /\ r.link \in Links
  BY <1>5 DEF RouteTypes, RoutesFit
<1>7. WatchTypes' /\ CopiesCount'
  <2>1. CASE r.auto
    <3>1. check.stage = "opening" /\ r.link = check.link
      BY <1>5, <2>1 DEF RoutesFit
    <3>2. check' = Idle /\ observed' = check.link
      BY <1>5, <2>1, <3>1
    <3> QED BY <1>1, <1>6, <3>1, <3>2, IdleCheck DEF WatchTypes, CopiesCount, used, LinkOrNone
  <2>2. CASE ~r.auto
    BY <1>1, <1>5, <2>2, SameWatch DEF used, WatchTypes
  <2> QED BY <2>1, <2>2
<1>8. RouteTypes'
  BY <1>1, <1>5, <1>6 DEF RouteTypes
<1>9. RoutesFit'
  <2>1. \A o \in routes' : o.auto => check'.stage = "opening" /\ o.link = check'.link
    BY <1>5 DEF RoutesFit
  <2> QED BY <1>1, <1>5, <1>6, <2>1 DEF RoutesFit
<1>10. LatestKept'
  BY <1>1, <1>5 DEF LatestKept
<1> QED BY <1>2, <1>4, <1>7, <1>8, <1>9, <1>10, NextState

-----------------------------------------------------------------------------
(* Answers, menus and dialogs                                              *)

LEMMA AnswersKeep ==
    ASSUME IntakeConstants, IntakeInv, Chosen \/ Escape PROVE IntakeInv'
<1> PromptTypes /\ WatchTypes /\ FlagTypes /\ RouteTypes /\ PromptsFit /\ CopiesCount
    /\ RoutesFit /\ LatestKept /\ RequestsCount
  BY DEF IntakeInv
<1>1. UNCHANGED <<clipboard, copies, inputs, focused, check, observed, handled, transient>>
  BY DEF Chosen, Escape, used, watching
<1>2. Answer /\ prompt # NoLink
  BY DEF Chosen, Escape, PromptsFit
<1>3. PromptTypes' /\ PromptsFit' /\ proposed' = proposed /\ answered' = answered + 1
  BY <1>1, <1>2, AnswerFits
<1>4. WatchTypes' /\ CopiesCount'
  BY <1>1, SameWatch DEF WatchTypes
<1>5. FlagTypes'
  <2>1. suppressing' \in BOOLEAN /\ suggest' = suggest
    BY DEF Chosen, Escape, settings, FlagTypes
  <2> QED BY <1>1, <2>1 DEF FlagTypes
<1>6. Take(prompt, FALSE, FALSE) \/ UNCHANGED routing
  BY DEF Chosen, Escape
<1>7. CASE Take(prompt, FALSE, FALSE)
  <2>1. prompt \in Links
    BY <1>2 DEF PromptTypes, LinkOrNone
  <2>2. RouteTypes' /\ RoutesFit' /\ LatestKept' /\ latest' = latest + 1
    BY <1>1, <1>7, <2>1, TakeFits
  <2>3. RequestsCount'
    BY <1>1, <1>3, <2>2 DEF RequestsCount, WatchTypes, PromptTypes, RouteTypes
  <2> QED BY <1>3, <1>4, <1>5, <2>2, <2>3, NextState
<1>8. CASE UNCHANGED routing
  <2>1. RouteTypes' /\ RoutesFit' /\ LatestKept'
    BY <1>1, <1>8, SameRoutes
  <2>2. RequestsCount'
    BY <1>1, <1>3, <1>8 DEF RequestsCount, routing, WatchTypes, PromptTypes, RouteTypes
  <2> QED BY <1>3, <1>4, <1>5, <2>1, <2>2, NextState
<1> QED BY <1>6, <1>7, <1>8

LEMMA CoversKeep ==
    ASSUME IntakeConstants, IntakeInv, Cover \/ Uncover \/ Suppressed PROVE IntakeInv'
<1> PromptTypes /\ WatchTypes /\ FlagTypes /\ RouteTypes /\ PromptsFit /\ CopiesCount
    /\ RoutesFit /\ LatestKept /\ RequestsCount
  BY DEF IntakeInv
<1>1. /\ UNCHANGED <<clipboard, copies, focused, check, observed, handled, routing>>
      /\ UNCHANGED <<queue, active, prompt, proposed, answered>>
      /\ inputs' \in {inputs, inputs + 1} /\ inputs' \in 0 .. MaxInputs
  BY DEF Cover, Uncover, Suppressed, used, watching, prompts, WatchTypes, IntakeConstants
<1>2. drawn' \in {NoLink, prompt} /\ transient' \in {"none", "menu", "dialog"}
  BY DEF Cover, Uncover, Suppressed, Page, prompts, PromptsFit, PromptTypes
<1>3. PromptTypes' /\ PromptsFit'
  BY <1>1, <1>2 DEF PromptTypes, PromptsFit, PromptsKept, LinkOrNone
<1>4. WatchTypes' /\ CopiesCount'
  BY <1>1, SameWatch
<1>5. FlagTypes'
  <2>1. suppressing' \in BOOLEAN /\ suggest' \in BOOLEAN
    BY DEF Cover, Uncover, Suppressed, settings, FlagTypes
  <2> QED BY <1>1, <2>1 DEF FlagTypes
<1>6. RouteTypes' /\ RoutesFit' /\ LatestKept'
  BY <1>1, SameRoutes
<1>7. RequestsCount'
  <2>1. UNCHANGED <<latest, handled, answered, proposed>>
    BY <1>1 DEF routing
  <2>2. inputs <= inputs' /\ latest \in Nat /\ {handled, answered, inputs, inputs'} \subseteq Nat
    BY <1>1 DEF WatchTypes, PromptTypes, RouteTypes
  <2>3. latest <= handled + answered + inputs'
    BY <2>2 DEF RequestsCount
  <2> QED BY <2>1, <2>3 DEF RequestsCount
<1> QED BY <1>3, <1>4, <1>5, <1>6, <1>7, NextState

-----------------------------------------------------------------------------
(* What is intended                                                        *)

LEMMA IntakeSteps ==
    ASSUME IntakeConstants, IntakeInv, [IntakeNext]_intakeVars PROVE IntakeInv'
<1>1. CASE UNCHANGED intakeVars
  BY <1>1 DEF intakeVars, IntakeInv, PromptTypes, WatchTypes, FlagTypes, RouteTypes, PromptsFit,
              PromptsKept, CopiesCount, RoutesFit, LatestKept, RequestsCount
<1>2. CASE IntakeNext
  BY <1>2, CopyKeeps, LooksKeep, ClassifiedKeeps, AskedKeeps, InspectedKeeps, OpenedKeeps,
     AnswersKeep, CoversKeep DEF IntakeNext
<1> QED BY <1>1, <1>2

\* No prompt that waits for the user is replaced or forgotten, for any copies, menus
\* and answers.
THEOREM PromptsAreKept == ASSUME IntakeConstants PROVE IntakeSpec => []PromptsKept
<1>1. IntakeInit => IntakeInv
  BY IntakeStarts
<1>2. IntakeInv /\ [IntakeNext]_intakeVars => IntakeInv'
  BY IntakeSteps
<1>3. IntakeInv => PromptsKept
  BY DEF IntakeInv, PromptsFit
<1> QED BY <1>1, <1>2, <1>3, PTL DEF IntakeSpec

\* The link asked for last is the one that opens, in the order of the requests, and a
\* copied link is handled at most once, for any requests and late inspections.
THEOREM LastLinkWins == ASSUME IntakeConstants PROVE IntakeSpec => []LinksServed
<1>1. IntakeInit => IntakeInv
  BY IntakeStarts
<1>2. IntakeInv /\ [IntakeNext]_intakeVars => IntakeInv'
  BY IntakeSteps
<1>3. IntakeInv => LinksServed
  <2> SUFFICES ASSUME IntakeInv PROVE LinksServed
    OBVIOUS
  <2>1. \A i, j \in DOMAIN windows : i < j => windows[i] < windows[j]
    BY DEF IntakeInv, RoutesFit, RouteTypes
  <2>2. (routes = {} /\ latest > 0) => latest \in ToSet(windows) \cup refused
    BY DEF IntakeInv, LatestKept
  <2>3. handled <= copies
    BY DEF IntakeInv, CopiesCount
  <2> QED BY <2>1, <2>2, <2>3 DEF LinksServed
<1> QED BY <1>1, <1>2, <1>3, PTL DEF IntakeSpec

\* The links, the prompts and the routes keep their types.
THEOREM IntakeKeepsTypes == ASSUME IntakeConstants PROVE IntakeSpec => []IntakeTypes
<1>1. IntakeInit => IntakeInv
  BY IntakeStarts
<1>2. IntakeInv /\ [IntakeNext]_intakeVars => IntakeInv'
  BY IntakeSteps
<1>3. IntakeInv => IntakeTypes
  <2> SUFFICES ASSUME IntakeInv PROVE IntakeTypes
    OBVIOUS
  <2> DEFINE most == MaxCopies + MaxCopies + MaxInputs
  <2>1. latest \in 0 .. most
    <3>1. /\ latest \in Nat /\ handled \in Nat /\ answered \in Nat /\ proposed \in Nat
          /\ copies \in 0 .. MaxCopies /\ inputs \in 0 .. MaxInputs
          /\ latest <= handled + answered + inputs /\ proposed <= handled /\ handled <= copies
      BY DEF IntakeInv, RouteTypes, PromptTypes, WatchTypes, RequestsCount, CopiesCount
    <3>2. answered <= proposed
      <4>1. Len(queue) \in Nat
        BY DEF IntakeInv, PromptTypes
      <4> QED
        BY <3>1, <4>1 DEF IntakeInv, PromptsFit, PromptsKept
    <3>3. MaxCopies \in Nat /\ MaxInputs \in Nat
      BY DEF IntakeConstants
    <3> QED
      BY <3>1, <3>2, <3>3
  <2>2. \A n \in Nat : 0 < n /\ n <= latest => n \in Intents
    BY <2>1 DEF Intents, IntakeConstants
  <2>3. routes \subseteq Route
    BY <2>2 DEF IntakeInv, RouteTypes, RoutesFit, Route
  <2>4. refused \subseteq Intents
    BY <2>2 DEF IntakeInv, RouteTypes, RoutesFit
  <2>5. windows \in Seq(Intents)
    <3>1. windows \in Seq(Nat) /\ \A i \in 1 .. Len(windows) : windows[i] \in Intents
      BY <2>2 DEF IntakeInv, RouteTypes, RoutesFit
    <3> QED
      BY <3>1
  <2>6. /\ {clipboard, observed, active, prompt, drawn} \subseteq Links \cup {NoLink}
        /\ {focused, suggest, suppressing} \subseteq BOOLEAN
    BY DEF IntakeInv, PromptTypes, WatchTypes, FlagTypes, LinkOrNone
  <2>7. /\ check \in [stage : {"none", "reading", "inspecting", "opening"},
                      link : Links \cup {NoLink}]
        /\ queue \in Seq(Links) /\ transient \in {"none", "menu", "dialog"}
        /\ copies \in 0 .. MaxCopies /\ inputs \in 0 .. MaxInputs
        /\ {proposed, answered, handled} \subseteq Nat
    BY DEF IntakeInv, PromptTypes, WatchTypes, LinkOrNone, Checks
  <2> QED
    BY <2>1, <2>3, <2>4, <2>5, <2>6, <2>7 DEF IntakeTypes
<1> QED BY <1>1, <1>2, <1>3, PTL DEF IntakeSpec

-----------------------------------------------------------------------------
(* THE IMAGE EDITOR                                                        *)

(* The inductive invariant                                                 *)

\* A document with a layer.
Whole == {d \in Documents : d.layers # <<>>}

Opening == [kind : {"none", "image", "layer", "collage", "project"},
            phase : {"idle", "decoding", "metadata", "done"}, doc : Documents, mine : BOOLEAN]
EditorCopy == [phase : {"idle", "reading", "encoded", "done"}, manual : BOOLEAN, live : BOOLEAN,
         array : Seq(Stamps), doc : Documents]

Measuring == \E s \in Slots : opens[s].phase = "metadata"

\* Between the change of the document and the entry of the history.
Pending == stroke \/ restoring \/ Measuring

HistTypes == hist \in Seq(Whole) /\ Len(hist) <= HistoryLimit /\ index \in 0 .. Len(hist)
Fresh     == index > 0 /\ doc = hist[index]

PictureFits ==
    /\ doc \in Documents /\ HistTypes
    /\ loaded \/ Measuring => doc \in Whole
    /\ stroke => loaded
OpensFit ==
    /\ opens \in [Slots -> Opening]
    /\ \A s \in Slots : opens[s].kind # "none" => opens[s].doc \in Whole
    /\ \A s \in Slots : opens[s].phase \in {"decoding", "metadata"} => opens[s].kind # "none"
RecordsFit ==
    session \in Whole \cup {NoDoc} /\ project \in Whole \cup {NoDoc} /\ clearing.kept \in Whole \cup {NoDoc}
SavesFit ==
    /\ saves \in [Copies -> EditorCopy]
    /\ \A c \in Copies : saves[c].phase \in {"reading", "encoded"} => saves[c].doc \in Whole
    /\ \A c, d \in Copies : c < d /\ saves[c].phase = "idle" => saves[d].phase = "idle"

\* `restoring` stands for a project that is being decoded.
RestoringFits == restoring => \E s \in Slots : opens[s].kind = "project" /\ opens[s].phase = "decoding"

\* What is shown is the entry of the history, unless its change goes on.
HistFits == loaded /\ ~Pending /\ ~stale => Fresh

\* With no timer set, the last of the automatic saves has what is shown, or wrote it.
Carries(c) ==
    /\ ~saves[c].manual
    /\ \/ /\ saves[c].phase = "reading" /\ saves[c].live
          /\ saves[c].doc.layers = SubSeq(doc.layers, 1, 1)
       \/ saves[c].phase = "encoded" /\ saves[c].doc = doc
       \/ saves[c].phase = "done" /\ session = doc
IsLast(c)   == \A d \in Copies : d > c => saves[d].manual \/ saves[d].phase = "idle"
Kept        == \E c \in Copies : Carries(c) /\ IsLast(c)
SavedFits   == loaded /\ ~timer /\ ~Pending /\ ~stale => Kept

EditorInv ==
    /\ edits \in 0 .. MaxEdits /\ failures \in Nat
    /\ PictureFits /\ OpensFit /\ RecordsFit /\ SavesFit
    /\ RestoringFits /\ HistFits /\ SavedFits

-----------------------------------------------------------------------------
(* Documents and the history                                               *)

LEMMA WholeParts ==
    ASSUME NEW d \in Documents
    PROVE  /\ d.size \in Sizes /\ d.layers \in Seq(Stamps) /\ Len(d.layers) \in Nat
           /\ d = [size |-> d.size, layers |-> d.layers]
           /\ d \in Whole <=> Len(d.layers) > 0
<1>1. d.size \in Sizes /\ d.layers \in Seq(Stamps) /\ d = [size |-> d.size, layers |-> d.layers]
  BY DEF Documents
<1>2. Len(d.layers) \in Nat /\ (d.layers # <<>> <=> Len(d.layers) > 0)
  BY <1>1, EmptySeq, LenProperties
<1>3. QED  BY <1>1, <1>2 DEF Whole

LEMMA MadeWhole ==
    ASSUME NEW size \in Sizes, NEW layers \in Seq(Stamps), Len(layers) > 0
    PROVE  [size |-> size, layers |-> layers] \in Whole
<1>1. [size |-> size, layers |-> layers] \in Documents
  BY DEF Documents
<1>2. QED  BY <1>1, WholeParts

LEMMA Relayered ==
    ASSUME NEW d \in Documents, NEW layers
    PROVE  [d EXCEPT !.layers = layers] = [size |-> d.size, layers |-> layers]
BY DEF Documents

LEMMA LatestFits ==
    ASSUME EditorConstants, NEW S, NEW s \in Seq(S), Len(s) > 0
    PROVE  /\ Latest(s, HistoryLimit) \in Seq(S)
           /\ Len(Latest(s, HistoryLimit)) \in 1 .. HistoryLimit
           /\ Latest(s, HistoryLimit)[Len(Latest(s, HistoryLimit))] = s[Len(s)]
<1> DEFINE n == HistoryLimit
<1>1. n \in Nat \ {0} /\ Len(s) \in Nat
  BY LenProperties DEF EditorConstants
<1>2. CASE Len(s) > n
  <2>1. Latest(s, n) = SubSeq(s, Len(s) - n + 1, Len(s))
    BY <1>2 DEF Latest
  <2>2. \A i \in Len(s) - n + 1 .. Len(s) : s[i] \in S
    BY <1>1, <1>2, ElementOfSeq
  <2>3. /\ SubSeq(s, Len(s) - n + 1, Len(s)) \in Seq(S)
        /\ Len(SubSeq(s, Len(s) - n + 1, Len(s))) = n
        /\ SubSeq(s, Len(s) - n + 1, Len(s))[n] = s[Len(s)]
    <3> HIDE DEF n
    <3>1. Len(s) - n + 1 \in Int /\ Len(s) - n + 1 <= Len(s) /\ Len(s) - (Len(s) - n + 1) + 1 = n
      BY <1>1, <1>2
    <3>2. n \in 1 .. n /\ (Len(s) - n + 1) + n - 1 = Len(s)
      BY <1>1
    <3>3. QED  BY <1>1, <2>2, <3>1, <3>2, SubSeqProperties
  <2>4. QED  BY <1>1, <2>1, <2>3
<1>3. CASE ~(Len(s) > n)
  BY <1>1, <1>3 DEF Latest
<1>4. QED  BY <1>2, <1>3

LEMMA PushedFits ==
    ASSUME EditorConstants, NEW base \in Seq(Whole), NEW top \in 0 .. Len(base), doc' \in Whole,
           Pushed(base, top)
    PROVE  HistTypes' /\ Fresh' /\ timer'
<1>1. \A i \in 1 .. top : base[i] \in Whole
  BY ElementOfSeq, LenProperties
<1>2. SubSeq(base, 1, top) \in Seq(Whole)
  BY <1>1, SubSeqProperties
<1> DEFINE s == Append(SubSeq(base, 1, top), doc')
<1>3. s \in Seq(Whole) /\ Len(s) > 0 /\ s[Len(s)] = doc'
  BY <1>2, AppendProperties, LenProperties
<1>4. hist' = Latest(s, HistoryLimit) /\ index' = Len(hist') /\ timer'
  BY DEF Pushed
<1> HIDE DEF s
<1>5. QED
  BY <1>3, <1>4, LatestFits DEF HistTypes, Fresh, EditorConstants

LEMMA RecordedFits ==
    ASSUME EditorConstants, HistTypes, doc' \in Whole, restoring' = restoring, Recorded
    PROVE  HistTypes' /\ (restoring' \/ (Fresh' /\ timer'))
<1>1. CASE restoring
  BY <1>1 DEF Recorded, HistTypes
<1>2. CASE ~restoring
  BY <1>2, PushedFits DEF Recorded, HistTypes
<1>3. QED  BY <1>1, <1>2

LEMMA RenewedFits ==
    ASSUME EditorConstants, HistTypes, doc' \in Whole, restoring' = restoring, Renewed
    PROVE  HistTypes' /\ (restoring' \/ (Fresh' /\ timer'))
<1>0. <<>> \in Seq(Whole) /\ Len(<<>>) = 0
  BY EmptySeq
<1>1. CASE restoring
  <2>1. hist' = <<>> /\ index' = 0
    BY <1>1 DEF Renewed
  <2>2. 0 <= HistoryLimit /\ 0 \in 0 .. 0
    BY DEF EditorConstants
  <2>3. HistTypes'
    BY <1>0, <2>1, <2>2 DEF HistTypes
  <2>4. QED  BY <1>1, <2>3
<1>2. CASE ~restoring
  <2>1. Pushed(<<>>, 0) /\ 0 \in 0 .. Len(<<>>)
    BY <1>0, <1>2 DEF Renewed
  <2>2. QED  BY <1>0, <2>1, PushedFits
<1>3. QED  BY <1>1, <1>2

-----------------------------------------------------------------------------
(* What is opened and what is saved                                        *)

\* A slot goes on to another phase; the rest of it stays.
LEMMA ProceedsFits ==
    ASSUME OpensFit, NEW s \in Slots, NEW p \in {"metadata", "done"}, Proceeds(s, p),
           opens[s].kind # "none"
    PROVE  /\ OpensFit'
           /\ \A t \in Slots : /\ opens'[t].phase = IF t = s THEN p ELSE opens[t].phase
                               /\ opens'[t].kind = opens[t].kind
<1>1. opens' = [opens EXCEPT ![s].phase = p] /\ opens \in [Slots -> Opening]
  BY DEF Proceeds, OpensFit
<1>2. opens[s] \in Opening
  BY <1>1
<1>3. \A t \in Slots : /\ opens'[t].phase = IF t = s THEN p ELSE opens[t].phase
                       /\ opens'[t].kind = opens[t].kind /\ opens'[t].doc = opens[t].doc
  BY <1>1, <1>2 DEF Opening
<1>4. [opens[s] EXCEPT !.phase = p] \in Opening
  BY <1>2 DEF Opening
<1>5. opens' \in [Slots -> Opening]
  BY <1>1, <1>4
<1>6. OpensFit'
  BY <1>3, <1>5 DEF OpensFit
<1>7. QED  BY <1>3, <1>6

\* A slot is taken.
LEMMA OpensAnother ==
    ASSUME OpensFit, NEW s \in Slots, NEW what \in Opening, Opens(s, what), what.kind # "none",
           what.doc \in Whole
    PROVE  /\ OpensFit' /\ opens'[s] = what
           /\ \A t \in Slots \ {s} : opens'[t] = opens[t]
<1>1. opens' = [opens EXCEPT ![s] = what] /\ opens \in [Slots -> Opening]
  BY DEF Opens, OpensFit
<1>2. opens' \in [Slots -> Opening] /\ opens'[s] = what /\ \A t \in Slots \ {s} : opens'[t] = opens[t]
  BY <1>1
<1>3. OpensFit'
  BY <1>2 DEF OpensFit
<1>4. QED  BY <1>2, <1>3

LEMMA DetachedFits ==
    ASSUME SavesFit, doc \in Documents, Detached
    PROVE  SavesFit'
<1>1. ASSUME NEW c \in Copies
      PROVE  /\ saves'[c] \in EditorCopy /\ saves'[c].phase = saves[c].phase /\ saves'[c].doc = saves[c].doc
  <2>1. saves[c] \in EditorCopy /\ doc.layers \in Seq(Stamps)
    BY WholeParts DEF SavesFit
  <2>2. [saves[c] EXCEPT !.live = FALSE, !.array = doc.layers] \in EditorCopy
    BY <2>1 DEF EditorCopy
  <2>3. /\ [saves[c] EXCEPT !.live = FALSE, !.array = doc.layers].phase = saves[c].phase
        /\ [saves[c] EXCEPT !.live = FALSE, !.array = doc.layers].doc = saves[c].doc
    BY <2>1 DEF EditorCopy
  <2>4. \/ saves'[c] = saves[c]
        \/ saves'[c] = [saves[c] EXCEPT !.live = FALSE, !.array = doc.layers]
    BY DEF Detached
  <2>5. QED  BY <2>1, <2>2, <2>3, <2>4
<1>2. saves' \in [Copies -> EditorCopy]
  BY <1>1 DEF Detached
<1>3. QED  BY <1>1, <1>2 DEF SavesFit

\* Nothing is opened that has to be measured, or was being restored, otherwise.
LEMMA SameOpens ==
    ASSUME EditorInv, UNCHANGED opens, restoring' => restoring
    PROVE  OpensFit' /\ RestoringFits' /\ (Measuring' <=> Measuring)
BY DEF EditorInv, OpensFit, RestoringFits, Measuring

-----------------------------------------------------------------------------
(* The steps                                                               *)

\* A document that has just been recorded, or whose change goes on, is enough.
LEMMA Settles ==
    ASSUME (edits \in 0 .. MaxEdits)', (failures \in Nat)', PictureFits', OpensFit', RecordsFit',
           SavesFit', RestoringFits', (Pending \/ (Fresh /\ timer))'
    PROVE  EditorInv'
BY DEF EditorInv, HistFits, SavedFits

\* The document has changed and the change is recorded.
LEMMA ChangeKeeps ==
    ASSUME EditorConstants, EditorInv, loaded, doc' \in Whole, Recorded, Detached \/ UNCHANGED saves,
           stroke' => stroke, edits' \in 0 .. MaxEdits, UNCHANGED <<loaded, restoring, opens, records, failures>>
    PROVE  EditorInv'
<1>1. PictureFits /\ HistTypes /\ SavesFit /\ RecordsFit /\ failures \in Nat /\ doc \in Documents
  BY DEF EditorInv, PictureFits
<1>2. HistTypes' /\ (restoring' \/ (Fresh' /\ timer'))
  BY <1>1, RecordedFits
<1>3. PictureFits'
  BY <1>1, <1>2 DEF PictureFits, Whole
<1>4. SavesFit'
  <2>1. CASE Detached
    BY <1>1, <2>1, DetachedFits
  <2>2. CASE UNCHANGED saves
    BY <1>1, <2>2 DEF SavesFit
  <2>3. QED  BY <2>1, <2>2
<1>5. RecordsFit'
  BY <1>1 DEF RecordsFit, records
<1>6. OpensFit' /\ RestoringFits'
  BY SameOpens
<1>7. QED  BY <1>1, <1>2, <1>3, <1>4, <1>5, <1>6, Settles DEF Pending

\* What an edit leaves alone, and the mark it leaves.
LEMMA EditsFrame ==
    ASSUME EditorConstants, EditorInv, Edits
    PROVE  /\ loaded /\ edits' \in 0 .. MaxEdits /\ Stamp \in Stamps
           /\ UNCHANGED <<loaded, restoring, opens, records, failures>>
           /\ doc \in Whole /\ doc.size \in Sizes /\ doc.layers \in Seq(Stamps)
           /\ Len(doc.layers) \in Nat \ {0} /\ DOMAIN doc.layers = 1 .. Len(doc.layers)
<1>1. loaded /\ edits < MaxEdits /\ edits' = edits + 1 /\ edits \in 0 .. MaxEdits
      /\ MaxEdits \in Nat /\ MaxOpens \in Nat
  BY DEF Edits, EditorInv, EditorConstants
<1>2. edits' \in 0 .. MaxEdits /\ Stamp \in Stamps
  BY <1>1 DEF Stamp, Stamps
<1>3. doc \in Whole /\ doc \in Documents
  BY <1>1 DEF EditorInv, PictureFits
<1>4. doc.size \in Sizes /\ doc.layers \in Seq(Stamps) /\ Len(doc.layers) \in Nat \ {0}
  BY <1>3, WholeParts
<1>5. DOMAIN doc.layers = 1 .. Len(doc.layers)
  BY <1>4, LenProperties
<1>6. QED  BY <1>1, <1>2, <1>3, <1>4, <1>5 DEF Edits

\* One layer is painted.
LEMMA MarkFits ==
    ASSUME EditorConstants, EditorInv, Edits, NEW i \in DOMAIN doc.layers,
           doc' = [doc EXCEPT !.layers[i] = Stamp]
    PROVE  doc' \in Whole
<1> DEFINE marked == [doc.layers EXCEPT ![i] = Stamp]
<1>1. doc \in Documents
  BY DEF EditorInv, PictureFits
<1>2. doc' = [size |-> doc.size, layers |-> marked]
  BY <1>1, Relayered
<1>3. marked \in Seq(Stamps) /\ Len(marked) = Len(doc.layers)
  BY EditsFrame, ExceptSeq
<1> HIDE DEF marked
<1>4. Len(marked) > 0 /\ doc.size \in Sizes
  BY <1>3, EditsFrame
<1>5. QED  BY <1>2, <1>3, <1>4, MadeWhole

LEMMA PaintedKeeps ==
    ASSUME EditorConstants, EditorInv, Painted
    PROVE  EditorInv'
<1>1. Edits /\ Recorded /\ UNCHANGED <<stroke, saves>> /\ doc' \in Whole
  BY MarkFits DEF Painted
<1>2. QED  BY <1>1, EditsFrame, ChangeKeeps

LEMMA DrawKeeps ==
    ASSUME EditorConstants, EditorInv, Draw
    PROVE  EditorInv'
<1>1. Edits /\ stroke' /\ UNCHANGED <<hist, index, timer, saves>> /\ doc' \in Whole
  BY MarkFits DEF Draw
<1>2. /\ loaded' /\ edits' \in 0 .. MaxEdits /\ failures' \in Nat
      /\ UNCHANGED <<restoring, opens, records>>
  BY <1>1, EditsFrame DEF EditorInv
<1>3. PictureFits' /\ SavesFit' /\ RecordsFit'
  BY <1>1, <1>2 DEF EditorInv, PictureFits, HistTypes, SavesFit, RecordsFit, records, Whole
<1>4. OpensFit' /\ RestoringFits'
  BY <1>2, SameOpens
<1>5. QED  BY <1>1, <1>2, <1>3, <1>4, Settles DEF Pending

LEMMA StrokeEndsKeeps ==
    ASSUME EditorConstants, EditorInv, StrokeEnds
    PROVE  EditorInv'
<1>1. loaded /\ doc' \in Whole /\ Recorded /\ UNCHANGED saves /\ stroke' = FALSE
      /\ edits' \in 0 .. MaxEdits /\ UNCHANGED <<loaded, restoring, opens, records, failures>>
  BY DEF StrokeEnds, EditorInv, PictureFits
<1>2. QED  BY <1>1, ChangeKeeps

LEMMA LayerAddedKeeps ==
    ASSUME EditorConstants, EditorInv, Added
    PROVE  EditorInv'
<1>1. Edits /\ doc' = [doc EXCEPT !.layers = Append(@, Stamp)] /\ Recorded /\ UNCHANGED <<stroke, saves>>
  BY DEF Added
<1>2. doc' = [size |-> doc.size, layers |-> Append(doc.layers, Stamp)]
  BY <1>1, Relayered DEF EditorInv, PictureFits
<1>3. Append(doc.layers, Stamp) \in Seq(Stamps) /\ Len(Append(doc.layers, Stamp)) > 0
  BY <1>1, EditsFrame, AppendProperties
<1>4. doc' \in Whole
  BY <1>1, <1>2, <1>3, MadeWhole, EditsFrame
<1>5. QED  BY <1>1, <1>4, EditsFrame, ChangeKeeps

LEMMA DropLayerKeeps ==
    ASSUME EditorConstants, EditorInv, DropLayer
    PROVE  EditorInv'
<1>1. Edits /\ doc' = [doc EXCEPT !.layers = Tail(@)] /\ Recorded /\ UNCHANGED stroke /\ Detached
      /\ Len(doc.layers) > 1
  BY DEF DropLayer
<1>2. doc' = [size |-> doc.size, layers |-> Tail(doc.layers)]
  BY <1>1, Relayered DEF EditorInv, PictureFits
<1>3. Tail(doc.layers) \in Seq(Stamps) /\ Len(Tail(doc.layers)) > 0
  <2>1. doc.layers \in Seq(Stamps) /\ doc.layers # <<>>
    BY <1>1, EditsFrame, EmptySeq
  <2>2. Len(Tail(doc.layers)) = Len(doc.layers) - 1 /\ Tail(doc.layers) \in Seq(Stamps)
    BY <2>1, HeadTailProperties
  <2>3. QED  BY <1>1, <2>2, EditsFrame
<1>4. doc' \in Whole
  BY <1>1, <1>2, <1>3, MadeWhole, EditsFrame
<1>5. QED  BY <1>1, <1>4, EditsFrame, ChangeKeeps

\* Every layer is drawn anew.
LEMMA AnewFits ==
    ASSUME NEW size \in Sizes, NEW n \in Nat \ {0}, NEW stamp \in Stamps
    PROVE  [size |-> size, layers |-> [i \in 1 .. n |-> stamp]] \in Whole
<1> DEFINE anew == [i \in 1 .. n |-> stamp]
<1>1. anew \in Seq(Stamps) /\ Len(anew) = n
  BY IsASeq, LenProperties
<1> HIDE DEF anew
<1>2. QED  BY <1>1, MadeWhole

LEMMA TransformedKeeps ==
    ASSUME EditorConstants, EditorInv, Transformed
    PROVE  EditorInv'
<1>1. /\ Edits /\ Recorded /\ UNCHANGED stroke /\ Detached
      /\ \E size \in Sizes : doc' = [size |-> size, layers |-> [i \in DOMAIN doc.layers |-> Stamp]]
  BY DEF Transformed
<1>2. doc' \in Whole
  <2>1. PICK size \in Sizes : doc' = [size |-> size, layers |-> [i \in DOMAIN doc.layers |-> Stamp]]
    BY <1>1
  <2>2. DOMAIN doc.layers = 1 .. Len(doc.layers) /\ Len(doc.layers) \in Nat \ {0} /\ Stamp \in Stamps
    BY <1>1, EditsFrame
  <2>3. QED  BY <2>1, <2>2, AnewFits
<1>3. QED  BY <1>1, <1>2, EditsFrame, ChangeKeeps

LEMMA BackgroundKeeps ==
    ASSUME EditorConstants, EditorInv, Background
    PROVE  EditorInv'
<1>0. Edits /\ doc \in Documents
  BY DEF Background, EditorInv, PictureFits
<1>1. /\ Recorded /\ UNCHANGED stroke /\ (Detached \/ UNCHANGED saves)
      /\ \/ doc' = [size |-> 2, layers |-> [i \in 1 .. 1 + Len(doc.layers) |-> Stamp]]
         \/ doc' = [doc EXCEPT !.layers = <<Stamp>> \o @]
  BY DEF Background
<1>2. /\ Len(doc.layers) \in Nat \ {0} /\ Stamp \in Stamps /\ doc.size \in Sizes
      /\ doc.layers \in Seq(Stamps)
  BY <1>0, EditsFrame
<1>3. doc' \in Whole
  <2>1. CASE doc' = [size |-> 2, layers |-> [i \in 1 .. 1 + Len(doc.layers) |-> Stamp]]
    <3>1. 1 + Len(doc.layers) \in Nat \ {0} /\ 2 \in Sizes
      BY <1>2 DEF Sizes
    <3>2. QED  BY <1>2, <2>1, <3>1, AnewFits
  <2>2. CASE doc' = [doc EXCEPT !.layers = <<Stamp>> \o @]
    <3>1. doc' = [size |-> doc.size, layers |-> <<Stamp>> \o doc.layers]
      BY <1>0, <2>2, Relayered
    <3>2. <<Stamp>> \in Seq(Stamps) /\ Len(<<Stamp>>) = 1
      BY <1>2
    <3>3. <<Stamp>> \o doc.layers \in Seq(Stamps) /\ Len(<<Stamp>> \o doc.layers) > 0
      BY <1>2, <3>2, ConcatProperties
    <3>4. QED  BY <1>2, <3>1, <3>3, MadeWhole
  <2>3. QED  BY <1>1, <2>1, <2>2
<1>4. /\ loaded /\ edits' \in 0 .. MaxEdits
      /\ UNCHANGED <<loaded, restoring, opens, records, failures>>
  BY <1>0, EditsFrame
<1>5. QED  BY <1>1, <1>3, <1>4, ChangeKeeps

\* undo and redo.
LEMMA StepsToKeeps ==
    ASSUME EditorConstants, EditorInv, NEW to \in 1 .. Len(hist), StepsTo(to)
    PROVE  EditorInv'
<1>1. /\ index' = to /\ doc' = hist[to] /\ restoring' = FALSE /\ timer' /\ Detached
      /\ UNCHANGED <<loaded, hist, stroke, opens, records, edits, failures>>
  BY DEF StepsTo
<1>2. /\ PictureFits /\ HistTypes /\ SavesFit /\ RecordsFit /\ doc \in Documents
      /\ edits \in 0 .. MaxEdits /\ failures \in Nat
  BY DEF EditorInv, PictureFits
<1>3. hist \in Seq(Whole) /\ Len(hist) \in Nat
  BY <1>2, LenProperties DEF HistTypes
<1>4. doc' \in Whole
  BY <1>1, <1>3, ElementOfSeq
<1>5. HistTypes' /\ Fresh'
  BY <1>1, <1>2, <1>3 DEF HistTypes, Fresh
<1>6. PictureFits'
  BY <1>1, <1>2, <1>4, <1>5 DEF PictureFits, Whole
<1>7. SavesFit'
  BY <1>1, <1>2, DetachedFits
<1>8. RecordsFit'
  BY <1>1, <1>2 DEF RecordsFit, records
<1>9. OpensFit' /\ RestoringFits'
  BY <1>1, SameOpens
<1>10. QED  BY <1>1, <1>2, <1>5, <1>6, <1>7, <1>8, <1>9, Settles

\* Nothing that is shown or recorded has changed, and the document is still
\* kept by the last of the automatic saves if it was.
LEMMA SameShown ==
    ASSUME EditorInv, UNCHANGED <<doc, loaded, hist, index, stroke, edits>>, failures' \in Nat,
           OpensFit', RecordsFit', SavesFit', RestoringFits', Measuring' <=> Measuring,
           stale' \/ ((restoring' <=> restoring) /\ (stale => stale')),
           stale' \/ Kept' \/ (timer' = timer /\ ~(loaded /\ Kept))
    PROVE  EditorInv'
<1>1. PictureFits'
  BY DEF EditorInv, PictureFits, HistTypes, Whole
<1>2. HistFits'
  BY DEF EditorInv, HistFits, Pending, Fresh
<1>3. SavedFits'
  BY DEF EditorInv, SavedFits, Pending
<1>4. QED  BY <1>1, <1>2, <1>3 DEF EditorInv

LEMMA SameSaves ==
    ASSUME UNCHANGED <<doc, saves, session>>
    PROVE  Kept' <=> Kept
BY DEF Kept, Carries, IsLast

LEMMA OpenImageKeeps ==
    ASSUME EditorConstants, EditorInv, NEW s \in Slots, OpenImage(s)
    PROVE  EditorInv'
<1>1. PICK sort \in {"image", "layer", "collage"} :
           Opens(s, [kind |-> sort, phase |-> "decoding", doc |-> Image(MaxEdits + s), mine |-> TRUE])
  BY DEF OpenImage
<1> DEFINE what == [kind |-> sort, phase |-> "decoding", doc |-> Image(MaxEdits + s), mine |-> TRUE]
<1>2. UNCHANGED <<picture, timer, saves, records, booted, edits, failures>>
  BY DEF OpenImage
<1>3. Image(MaxEdits + s) \in Whole
  <2>1. MaxEdits + s \in Stamps
    BY DEF EditorConstants, Slots, Stamps
  <2>2. <<MaxEdits + s>> \in Seq(Stamps) /\ Len(<<MaxEdits + s>>) > 0 /\ 2 \in Sizes
    BY <2>1 DEF Sizes
  <2>3. QED  BY <2>2, MadeWhole DEF Image
<1>4. what \in Opening /\ what.kind = sort /\ what.phase = "decoding" /\ what.doc \in Whole
  BY <1>3 DEF Opening, Whole
<1>5. opens[s].kind = "none" /\ Opens(s, what)
  BY <1>1 DEF Opens
<1> HIDE DEF what
<1>6. OpensFit /\ RestoringFits
  BY DEF EditorInv
<1>7. OpensFit' /\ opens'[s] = what /\ \A t \in Slots \ {s} : opens'[t] = opens[t]
  BY <1>4, <1>5, <1>6, OpensAnother
<1>8. opens[s].phase \notin {"decoding", "metadata"}
  BY <1>5, <1>6 DEF OpensFit
<1>9. (Measuring' <=> Measuring) /\ RestoringFits'
  BY <1>2, <1>4, <1>5, <1>6, <1>7, <1>8 DEF Measuring, RestoringFits, picture
<1>10. RecordsFit' /\ SavesFit' /\ failures' \in Nat /\ UNCHANGED <<restoring, stale, timer>>
  BY <1>2 DEF EditorInv, RecordsFit, SavesFit, records, picture
<1>11. (Kept' <=> Kept) /\ UNCHANGED <<doc, loaded, hist, index, stroke, edits>>
  BY <1>2, SameSaves DEF records, picture
<1>12. QED  BY <1>7, <1>9, <1>10, <1>11, SameShown

\* restoreProject.
LEMMA RestoresKeeps ==
    ASSUME EditorConstants, EditorInv, NEW s \in Slots, NEW record \in Whole, NEW mine \in BOOLEAN,
           Restores(s, record, mine)
    PROVE  EditorInv'
<1> DEFINE what == [kind |-> "project", phase |-> "decoding", doc |-> record, mine |-> mine]
<1>1. /\ Opens(s, what) /\ restoring' = TRUE /\ doc' = [doc EXCEPT !.size = record.size]
      /\ UNCHANGED <<loaded, hist, index, stroke, timer, saves, records, edits, failures>>
  BY DEF Restores
<1>2. what \in Opening /\ what.kind = "project" /\ what.phase = "decoding" /\ what.doc \in Whole
  BY DEF Opening, Whole
<1>3. opens[s].kind = "none"
  BY <1>1 DEF Opens
<1> HIDE DEF what
<1>4. OpensFit /\ doc \in Documents /\ PictureFits
  BY DEF EditorInv, PictureFits
<1>5. OpensFit' /\ opens'[s] = what /\ \A t \in Slots \ {s} : opens'[t] = opens[t]
  BY <1>1, <1>2, <1>3, <1>4, OpensAnother
<1>6. opens[s].phase # "metadata"
  BY <1>3, <1>4 DEF OpensFit
<1>7. (Measuring' <=> Measuring) /\ RestoringFits'
  BY <1>2, <1>5, <1>6 DEF Measuring, RestoringFits
<1>8. doc' \in Documents /\ (doc \in Whole => doc' \in Whole)
  <2>1. doc' = [size |-> record.size, layers |-> doc.layers] /\ record.size \in Sizes
    BY <1>1, <1>4 DEF Documents, Whole
  <2>2. doc.layers \in Seq(Stamps)
    BY <1>4, WholeParts
  <2>3. doc' \in Documents
    BY <2>1, <2>2 DEF Documents
  <2>4. QED  BY <1>4, <2>1, <2>2, <2>3, WholeParts, MadeWhole
<1>9. PictureFits'
  BY <1>1, <1>4, <1>7, <1>8 DEF PictureFits, HistTypes, Whole
<1>10. RecordsFit' /\ SavesFit' /\ failures' \in Nat /\ edits' \in 0 .. MaxEdits
  BY <1>1 DEF EditorInv, RecordsFit, SavesFit, records
<1>11. QED  BY <1>1, <1>5, <1>7, <1>9, <1>10, Settles DEF Pending

LEMMA OpenProjectKeeps ==
    ASSUME EditorConstants, EditorInv, NEW s \in Slots, OpenProject(s)
    PROVE  EditorInv'
<1>1. project \in Whole /\ Restores(s, project, TRUE)
  BY DEF OpenProject, EditorInv, RecordsFit
<1>2. QED  BY <1>1, RestoresKeeps

LEMMA StutterKeeps ==
    ASSUME EditorInv, UNCHANGED <<picture, timer, opens, saves, records, edits, failures>>
    PROVE  EditorInv'
<1>1. /\ UNCHANGED <<doc, loaded, hist, index, restoring, stroke, session, project, clearing, stale>>
      /\ UNCHANGED <<timer, opens, saves, edits, failures>>
  BY DEF picture, records
<1>2. OpensFit' /\ RestoringFits' /\ (Measuring' <=> Measuring) /\ (Kept' <=> Kept)
  BY <1>1, SameOpens, SameSaves
<1>3. RecordsFit' /\ SavesFit' /\ failures' \in Nat
  BY <1>1 DEF EditorInv, RecordsFit, SavesFit
<1>4. QED  BY <1>1, <1>2, <1>3, SameShown

LEMMA BootKeeps ==
    ASSUME EditorConstants, EditorInv, NEW s \in Slots, Boot(s)
    PROVE  EditorInv'
<1>1. CASE session # NoDoc
  <2>1. session \in Whole /\ Restores(s, session, FALSE)
    BY <1>1 DEF Boot, EditorInv, RecordsFit
  <2>2. QED  BY <2>1, RestoresKeeps
<1>2. CASE session = NoDoc
  BY <1>2, StutterKeeps DEF Boot
<1>3. QED  BY <1>1, <1>2

\* What is opened keeps what was being restored, and what was being measured.
LEMMA OthersProceed ==
    ASSUME EditorInv, NEW s \in Slots, NEW p \in {"metadata", "done"}, Proceeds(s, p),
           opens[s].kind # "none", restoring' => restoring,
           restoring' => ~(opens[s].kind = "project" /\ opens[s].phase = "decoding")
    PROVE  /\ OpensFit' /\ RestoringFits'
           /\ Measuring' => Measuring \/ p = "metadata"
           /\ p = "metadata" => Measuring'
           /\ opens[s].phase # "metadata" /\ p = "done" => (Measuring' <=> Measuring)
<1>1. OpensFit /\ RestoringFits
  BY DEF EditorInv
<1>2. /\ OpensFit'
      /\ \A t \in Slots : /\ opens'[t].phase = IF t = s THEN p ELSE opens[t].phase
                          /\ opens'[t].kind = opens[t].kind
  BY <1>1, ProceedsFits
<1>3. RestoringFits'
  BY <1>1, <1>2 DEF RestoringFits
<1>4. QED  BY <1>2, <1>3 DEF Measuring

LEMMA DecodedImageKeeps ==
    ASSUME EditorConstants, EditorInv, NEW s \in Slots, DecodedImage(s)
    PROVE  EditorInv'
<1>1. /\ opens[s].kind = "image" /\ doc' = opens[s].doc /\ Detached /\ Proceeds(s, "metadata")
      /\ UNCHANGED <<loaded, hist, index, restoring, stroke, timer, records, edits, failures>>
  BY DEF DecodedImage
<1>2. OpensFit' /\ RestoringFits' /\ Measuring'
  BY <1>1, OthersProceed
<1>3. doc' \in Whole
  BY <1>1 DEF EditorInv, OpensFit
<1>4. PictureFits' /\ RecordsFit' /\ failures' \in Nat /\ edits' \in 0 .. MaxEdits
  BY <1>1, <1>3 DEF EditorInv, PictureFits, HistTypes, RecordsFit, records, Whole
<1>5. SavesFit'
  BY <1>1, DetachedFits DEF EditorInv, PictureFits
<1>6. QED  BY <1>2, <1>4, <1>5, Settles DEF Pending

LEMMA OpenedImageKeeps ==
    ASSUME EditorConstants, EditorInv, NEW s \in Slots, OpenedImage(s)
    PROVE  EditorInv'
<1>1. /\ opens[s].phase = "metadata" /\ loaded' /\ UNCHANGED doc /\ Renewed /\ Proceeds(s, "done")
      /\ UNCHANGED <<restoring, stroke, saves, session, project, clearing, edits, failures>>
  BY DEF OpenedImage
<1>2. opens[s].kind # "none" /\ doc' \in Whole /\ HistTypes /\ Measuring
  BY <1>1 DEF EditorInv, OpensFit, PictureFits, Measuring
<1>3. OpensFit' /\ RestoringFits'
  BY <1>1, <1>2, OthersProceed
<1>4. HistTypes' /\ (restoring' \/ (Fresh' /\ timer'))
  BY <1>1, <1>2, RenewedFits
<1>5. PictureFits' /\ RecordsFit' /\ SavesFit' /\ failures' \in Nat /\ edits' \in 0 .. MaxEdits
  BY <1>1, <1>2, <1>4 DEF EditorInv, PictureFits, RecordsFit, SavesFit, Whole
<1>6. QED  BY <1>3, <1>4, <1>5, Settles DEF Pending

LEMMA OpenedLayerKeeps ==
    ASSUME EditorConstants, EditorInv, NEW s \in Slots, OpenedLayer(s)
    PROVE  EditorInv'
<1>1. /\ opens[s].kind = "layer" /\ doc' = [doc EXCEPT !.layers = Append(@, opens[s].doc.layers[1])]
      /\ Recorded /\ Proceeds(s, "done")
      /\ UNCHANGED <<loaded, restoring, stroke, saves, records, edits, failures>>
  BY DEF OpenedLayer
<1> DEFINE layer == opens[s].doc.layers[1]
<1>2. OpensFit /\ HistTypes /\ doc \in Documents /\ PictureFits
  BY DEF EditorInv, PictureFits
<1>3. OpensFit' /\ RestoringFits'
  BY <1>1, OthersProceed
<1>4. layer \in Stamps
  <2>1. opens[s].doc \in Whole /\ opens[s].doc \in Documents
    BY <1>1, <1>2 DEF OpensFit, Whole
  <2>2. opens[s].doc.layers \in Seq(Stamps) /\ 1 \in 1 .. Len(opens[s].doc.layers)
    BY <2>1, WholeParts
  <2>3. QED  BY <2>2, ElementOfSeq
<1>5. doc' = [size |-> doc.size, layers |-> Append(doc.layers, layer)]
  BY <1>1, <1>2, Relayered
<1> HIDE DEF layer
<1>6. doc' \in Whole
  <2>1. doc.size \in Sizes /\ doc.layers \in Seq(Stamps)
    BY <1>2, WholeParts
  <2>2. Append(doc.layers, layer) \in Seq(Stamps) /\ Len(Append(doc.layers, layer)) > 0
    BY <1>4, <2>1, AppendProperties, LenProperties
  <2>3. QED  BY <1>5, <2>1, <2>2, MadeWhole
<1>7. HistTypes' /\ (restoring' \/ (Fresh' /\ timer'))
  BY <1>1, <1>2, <1>6, RecordedFits
<1>8. PictureFits' /\ RecordsFit' /\ SavesFit' /\ failures' \in Nat /\ edits' \in 0 .. MaxEdits
  BY <1>1, <1>2, <1>6, <1>7 DEF EditorInv, PictureFits, RecordsFit, SavesFit, Whole, records
<1>9. QED  BY <1>3, <1>7, <1>8, Settles DEF Pending

LEMMA OpenedCollageKeeps ==
    ASSUME EditorConstants, EditorInv, NEW s \in Slots, OpenedCollage(s)
    PROVE  EditorInv'
<1>1. /\ opens[s].kind = "collage" /\ doc' = opens[s].doc /\ Detached /\ Renewed /\ Proceeds(s, "done")
      /\ UNCHANGED <<loaded, restoring, stroke, records, edits, failures>>
  BY DEF OpenedCollage
<1>2. OpensFit' /\ RestoringFits'
  BY <1>1, OthersProceed
<1>3. doc' \in Whole /\ HistTypes
  BY <1>1 DEF EditorInv, OpensFit, PictureFits
<1>4. HistTypes' /\ (restoring' \/ (Fresh' /\ timer'))
  BY <1>1, <1>3, RenewedFits
<1>5. PictureFits' /\ RecordsFit' /\ failures' \in Nat /\ edits' \in 0 .. MaxEdits
  BY <1>1, <1>3, <1>4 DEF EditorInv, PictureFits, RecordsFit, records, Whole
<1>6. SavesFit'
  BY <1>1, DetachedFits DEF EditorInv, PictureFits
<1>7. QED  BY <1>2, <1>4, <1>5, <1>6, Settles DEF Pending

LEMMA OpenedProjectKeeps ==
    ASSUME EditorConstants, EditorInv, NEW s \in Slots, OpenedProject(s)
    PROVE  EditorInv'
<1>1. /\ opens[s].kind = "project" /\ doc' = [doc EXCEPT !.layers = opens[s].doc.layers] /\ Detached
      /\ loaded' = TRUE /\ restoring' = FALSE /\ Pushed(<<>>, 0) /\ Proceeds(s, "done")
      /\ UNCHANGED <<stroke, session, project, clearing, edits, failures>>
  BY DEF OpenedProject
<1>2. OpensFit' /\ RestoringFits'
  BY <1>1, OthersProceed
<1>3. doc' \in Whole
  <2>1. opens[s].doc \in Whole /\ opens[s].doc \in Documents /\ doc \in Documents
    BY <1>1 DEF EditorInv, OpensFit, PictureFits, Whole
  <2>2. doc' = [size |-> doc.size, layers |-> opens[s].doc.layers]
    BY <1>1, <2>1, Relayered
  <2>3. opens[s].doc.layers \in Seq(Stamps) /\ Len(opens[s].doc.layers) > 0 /\ doc.size \in Sizes
    BY <2>1, WholeParts
  <2>4. QED  BY <2>2, <2>3, MadeWhole
<1>4. HistTypes' /\ Fresh' /\ timer'
  <2>1. <<>> \in Seq(Whole) /\ 0 \in 0 .. Len(<<>>)
    BY EmptySeq
  <2>2. QED  BY <1>1, <1>3, <2>1, PushedFits
<1>5. PictureFits' /\ RecordsFit' /\ failures' \in Nat /\ edits' \in 0 .. MaxEdits
  BY <1>1, <1>3, <1>4 DEF EditorInv, PictureFits, RecordsFit, Whole
<1>6. SavesFit'
  BY <1>1, DetachedFits DEF EditorInv, PictureFits
<1>7. QED  BY <1>2, <1>4, <1>5, <1>6, Settles

LEMMA OpeningFailsKeeps ==
    ASSUME EditorConstants, EditorInv, NEW s \in Slots, OpeningFails(s)
    PROVE  EditorInv'
<1>1. /\ opens[s].phase = "decoding" /\ failures' = failures + 1 /\ Proceeds(s, "done")
      /\ restoring' = (restoring /\ opens[s].kind # "project")
      /\ stale' = (stale \/ opens[s].kind = "project")
      /\ UNCHANGED <<doc, loaded, hist, index, stroke, timer, saves, session, project, clearing, edits>>
  BY DEF OpeningFails, Fault
<1>2. opens[s].kind # "none"
  BY <1>1 DEF EditorInv, OpensFit
<1>3. OpensFit' /\ RestoringFits' /\ (Measuring' <=> Measuring)
  BY <1>1, <1>2, OthersProceed
<1>4. RecordsFit' /\ SavesFit' /\ failures' \in Nat
  BY <1>1 DEF EditorInv, RecordsFit, SavesFit
<1>5. stale' \/ ((restoring' <=> restoring) /\ (stale => stale'))
  BY <1>1
<1>6. Kept' <=> Kept
  BY <1>1, SameSaves
<1>7. QED  BY <1>1, <1>3, <1>4, <1>5, <1>6, SameShown

-----------------------------------------------------------------------------
(* Saves                                                                   *)

\* A save has begun: the first layer is encoded, the rest will be read.
LEMMA SavesKeepsFit ==
    ASSUME EditorInv, NEW c \in Copies, NEW manual \in BOOLEAN, Saves(c, manual)
    PROVE  /\ SavesFit' /\ saves[c].phase = "idle" /\ saves'[c].phase = "reading" /\ saves'[c].live
           /\ saves'[c].manual = manual /\ saves'[c].doc.layers = SubSeq(doc.layers, 1, 1)
           /\ \A d \in Copies \ {c} : saves'[d] = saves[d]
<1> DEFINE first == [doc EXCEPT !.layers = SubSeq(@, 1, 1)]
           save  == [phase |-> "reading", manual |-> manual, live |-> TRUE, array |-> <<>>, doc |-> first]
<1>1. /\ loaded /\ saves[c].phase = "idle" /\ saves' = [saves EXCEPT ![c] = save]
      /\ \A other \in Copies : other < c => saves[other].phase # "idle"
  BY DEF Saves
<1>2. SavesFit /\ doc \in Whole /\ doc \in Documents
  BY <1>1 DEF EditorInv, PictureFits
<1>3. first = [size |-> doc.size, layers |-> SubSeq(doc.layers, 1, 1)]
  BY <1>2, Relayered
<1>4. first \in Whole /\ first.layers = SubSeq(doc.layers, 1, 1)
  <2>1. doc.size \in Sizes /\ doc.layers \in Seq(Stamps) /\ Len(doc.layers) > 0 /\ Len(doc.layers) \in Nat
    BY <1>2, WholeParts
  <2>2. \A i \in 1 .. 1 : doc.layers[i] \in Stamps
    BY <2>1, ElementOfSeq
  <2>3. SubSeq(doc.layers, 1, 1) \in Seq(Stamps) /\ Len(SubSeq(doc.layers, 1, 1)) = 1
    BY <2>2, SubSeqProperties
  <2> DEFINE one == SubSeq(doc.layers, 1, 1)
  <2>4. first = [size |-> doc.size, layers |-> one] /\ one \in Seq(Stamps) /\ Len(one) > 0
    BY <1>3, <2>3
  <2> HIDE DEF one, first
  <2>5. first \in Whole /\ first.layers = one
    BY <2>1, <2>4, MadeWhole
  <2>6. QED  BY <2>5 DEF one
<1> HIDE DEF first
<1>5. save \in EditorCopy /\ save.phase = "reading" /\ save.live /\ save.doc = first
  <2>1. first \in Documents /\ <<>> \in Seq(Stamps)
    BY <1>4, EmptySeq DEF Whole
  <2>2. QED  BY <2>1 DEF EditorCopy
<1>6. save.manual = manual
  OBVIOUS
<1> HIDE DEF save
<1>7. saves'[c] = save /\ \A d \in Copies \ {c} : saves'[d] = saves[d]
  BY <1>1, <1>2 DEF SavesFit
<1>8. saves' \in [Copies -> EditorCopy]
  BY <1>1, <1>2, <1>5 DEF SavesFit
<1>9. ASSUME NEW a \in Copies, NEW b \in Copies, a < b, saves'[a].phase = "idle"
      PROVE  saves'[b].phase = "idle"
  <2>1. a # c
    BY <1>5, <1>7, <1>9
  <2>2. saves[a].phase = "idle"
    BY <1>7, <1>9, <2>1
  <2>3. b # c /\ saves[b].phase = "idle"
    BY <1>1, <1>2, <1>9, <2>2 DEF SavesFit
  <2>4. QED  BY <1>7, <2>3
<1>10. SavesFit'
  BY <1>2, <1>4, <1>5, <1>7, <1>8, <1>9 DEF SavesFit
<1>11. QED  BY <1>1, <1>4, <1>5, <1>6, <1>7, <1>10

\* What a save leaves as it is.
LEMMA SavesFrame ==
    ASSUME EditorInv, UNCHANGED <<picture, opens, edits>>
    PROVE  /\ OpensFit' /\ RestoringFits' /\ (Measuring' <=> Measuring)
           /\ UNCHANGED <<doc, loaded, hist, index, stroke, edits, restoring>>
<1>1. UNCHANGED <<doc, loaded, hist, index, stroke, edits, restoring, opens>>
  BY DEF picture
<1>2. QED  BY <1>1, SameOpens

LEMMA AutoSaveKeeps ==
    ASSUME EditorConstants, EditorInv, NEW c \in Copies, AutoSave(c)
    PROVE  EditorInv'
<1>1. Saves(c, FALSE) /\ UNCHANGED <<picture, opens, records, booted, edits, failures>>
  BY DEF AutoSave, Saves
<1>2. /\ SavesFit' /\ saves[c].phase = "idle" /\ saves'[c].phase = "reading" /\ saves'[c].live
      /\ saves'[c].manual = FALSE /\ saves'[c].doc.layers = SubSeq(doc.layers, 1, 1)
      /\ \A d \in Copies \ {c} : saves'[d] = saves[d]
  BY <1>1, SavesKeepsFit
<1>3. Kept'
  <2>1. \A d \in Copies : d > c => saves'[d].phase = "idle"
    BY <1>2 DEF EditorInv, SavesFit, Copies
  <2>2. UNCHANGED doc
    BY <1>1 DEF picture
  <2>3. QED  BY <1>2, <2>1, <2>2 DEF Kept, Carries, IsLast
<1>4. RecordsFit' /\ failures' \in Nat /\ UNCHANGED stale
  BY <1>1 DEF EditorInv, RecordsFit, records
<1>5. QED  BY <1>1, <1>2, <1>3, <1>4, SavesFrame, SameShown

LEMMA ManualSaveKeeps ==
    ASSUME EditorConstants, EditorInv, NEW c \in Copies, ManualSave(c)
    PROVE  EditorInv'
<1>1. Saves(c, TRUE) /\ UNCHANGED <<picture, opens, records, booted, edits, failures>> /\ UNCHANGED timer
  BY DEF ManualSave, Saves
<1>2. /\ SavesFit' /\ saves[c].phase = "idle" /\ saves'[c].manual
      /\ \A d \in Copies \ {c} : saves'[d] = saves[d]
  BY <1>1, SavesKeepsFit
<1>3. UNCHANGED <<doc, session, stale>>
  BY <1>1 DEF picture, records
<1>4. Kept => Kept'
  <2>1. SUFFICES ASSUME NEW d \in Copies, Carries(d), IsLast(d)
                 PROVE  Kept'
    BY DEF Kept
  <2>2. d # c
    BY <1>2, <2>1 DEF Carries
  <2>3. saves'[d] = saves[d] /\ UNCHANGED <<doc, session>>
    BY <1>2, <1>3, <2>2
  <2>4. (~saves'[d].manual) /\ \A e \in Copies : e > d => saves'[e].manual \/ saves'[e].phase = "idle"
    BY <1>2, <2>1, <2>3 DEF Carries, IsLast
  <2>5. QED  BY <2>1, <2>3, <2>4 DEF Kept, Carries, IsLast
<1>5. RecordsFit' /\ failures' \in Nat
  BY <1>1 DEF EditorInv, RecordsFit, records
<1>6. QED  BY <1>1, <1>2, <1>3, <1>4, <1>5, SavesFrame, SameShown

LEMMA CopyParts ==
    ASSUME NEW phase \in {"idle", "reading", "encoded", "done"}, NEW manual \in BOOLEAN, NEW d \in Documents
    PROVE  /\ Copied(phase, manual, d) \in EditorCopy
           /\ Copied(phase, manual, d).phase = phase
           /\ Copied(phase, manual, d).manual = manual
           /\ Copied(phase, manual, d).doc = d
<1>1. <<>> \in Seq(Stamps)
  BY EmptySeq
<1>2. Copied(phase, manual, d) \in EditorCopy
  BY <1>1 DEF EditorCopy, Copied
<1>3. Copied(phase, manual, d).phase = phase /\ Copied(phase, manual, d).doc = d
  BY DEF Copied
<1>4. Copied(phase, manual, d).manual = manual
  BY DEF Copied
<1>5. QED  BY <1>2, <1>3, <1>4

\* A save in another phase; the order of the saves is kept.
LEMMA SaveGoesOn ==
    ASSUME SavesFit, NEW c \in Copies, NEW save \in EditorCopy, saves[c].phase # "idle", save.phase # "idle",
           save.phase = "encoded" => save.doc \in Whole, save.phase # "reading",
           saves' = [saves EXCEPT ![c] = save]
    PROVE  SavesFit' /\ saves'[c] = save /\ \A d \in Copies \ {c} : saves'[d] = saves[d]
<1>1. saves' \in [Copies -> EditorCopy] /\ saves'[c] = save /\ \A d \in Copies \ {c} : saves'[d] = saves[d]
  BY DEF SavesFit
<1>2. QED  BY <1>1 DEF SavesFit

LEMMA EncodedKeeps ==
    ASSUME EditorConstants, EditorInv, NEW c \in Copies, Encoded(c)
    PROVE  EditorInv'
<1> DEFINE array == IF saves[c].live THEN doc.layers ELSE saves[c].array
           rest  == SubSeq(array, 2, Len(array))
           whole == [size |-> doc.size, layers |-> saves[c].doc.layers \o rest]
           save  == Copied("encoded", saves[c].manual, whole)
<1>1. /\ saves[c].phase = "reading" /\ saves' = [saves EXCEPT ![c] = save]
      /\ UNCHANGED <<picture, timer, opens, records, edits, failures>>
  BY DEF Encoded
<1>2. SavesFit /\ doc \in Documents /\ saves[c] \in EditorCopy /\ saves[c].doc \in Whole
  BY <1>1 DEF EditorInv, PictureFits, SavesFit
<1>3. doc.size \in Sizes /\ doc.layers \in Seq(Stamps) /\ saves[c].array \in Seq(Stamps)
      /\ saves[c].doc.layers \in Seq(Stamps) /\ Len(saves[c].doc.layers) > 0
      /\ Len(saves[c].doc.layers) \in Nat
  BY <1>2, WholeParts DEF EditorCopy, Whole
<1>4. array \in Seq(Stamps)
  BY <1>3
<1>5. rest \in Seq(Stamps) /\ Len(rest) \in Nat
  <2> HIDE DEF array
  <2>1. Len(array) \in Nat /\ \A i \in 2 .. Len(array) : array[i] \in Stamps
    BY <1>4, ElementOfSeq, LenProperties
  <2>2. rest \in Seq(Stamps)
    BY <2>1, SubSeqProperties
  <2>3. QED  BY <2>2, LenProperties
<1>6. whole \in Whole
  <2> HIDE DEF rest
  <2>1. saves[c].doc.layers \o rest \in Seq(Stamps) /\ Len(saves[c].doc.layers \o rest) > 0
    BY <1>3, <1>5, ConcatProperties
  <2>2. QED  BY <1>3, <2>1, MadeWhole
<1>7. saves[c].live /\ saves[c].doc.layers = SubSeq(doc.layers, 1, 1) /\ Len(doc.layers) > 0 => whole = doc
  <2>1. HAVE saves[c].live /\ saves[c].doc.layers = SubSeq(doc.layers, 1, 1) /\ Len(doc.layers) > 0
  <2>2. Len(doc.layers) \in Nat \ {0}
    BY <1>3, <2>1, LenProperties
  <2>3. 1 \in 1 .. Len(doc.layers) + 1 /\ 1 \in 1 - 1 .. Len(doc.layers)
        /\ Len(doc.layers) \in 1 .. Len(doc.layers)
    BY <2>2
  <2>4. SubSeq(doc.layers, 1, 1) \o SubSeq(doc.layers, 1 + 1, Len(doc.layers))
            = SubSeq(doc.layers, 1, Len(doc.layers))
    BY <1>3, <2>3, ConcatAdjacentSubSeq
  <2>5. saves[c].doc.layers \o rest = doc.layers
    BY <1>3, <2>1, <2>4, SubSeqFull
  <2>6. QED  BY <1>2, <2>5, WholeParts
<1> HIDE DEF whole
<1>8. whole \in Documents /\ saves[c].manual \in BOOLEAN
  BY <1>2, <1>6 DEF Whole, EditorCopy
<1>9. save \in EditorCopy /\ save.phase = "encoded" /\ save.doc = whole /\ save.manual = saves[c].manual
  BY <1>8, CopyParts
<1> HIDE DEF save
<1>10. SavesFit' /\ saves'[c] = save /\ \A d \in Copies \ {c} : saves'[d] = saves[d]
  BY <1>1, <1>2, <1>6, <1>9, SaveGoesOn
<1>11. UNCHANGED <<doc, session, stale, timer>>
  BY <1>1 DEF picture, records
<1>12. doc \in Whole /\ Kept => Kept'
  <2>1. SUFFICES ASSUME doc \in Whole, NEW d \in Copies, Carries(d), IsLast(d)
                 PROVE  Kept'
    BY DEF Kept
  <2>2. \A e \in Copies : e > d => saves'[e].manual \/ saves'[e].phase = "idle"
    BY <1>1, <1>9, <1>10, <2>1 DEF IsLast
  <2>3. CASE d = c
    <3>1. whole = doc
      BY <1>1, <1>2, <1>7, <2>1, <2>3, WholeParts DEF Carries
    <3>2. Carries(c)'
      BY <1>9, <1>10, <1>11, <2>1, <2>3, <3>1 DEF Carries
    <3>3. QED  BY <2>2, <2>3, <3>2 DEF Kept, IsLast
  <2>4. CASE d # c
    <3>1. saves'[d] = saves[d]
      BY <1>10, <2>4
    <3>2. QED  BY <1>11, <2>1, <2>2, <3>1 DEF Kept, Carries, IsLast
  <2>5. QED  BY <2>3, <2>4
<1>13. RecordsFit' /\ failures' \in Nat
  BY <1>1 DEF EditorInv, RecordsFit, records
<1>14. loaded => doc \in Whole
  BY DEF EditorInv, PictureFits
<1>15. QED  BY <1>1, <1>10, <1>11, <1>12, <1>13, <1>14, SavesFrame, SameShown

LEMMA WrittenKeeps ==
    ASSUME EditorConstants, EditorInv, NEW c \in Copies, Written(c)
    PROVE  EditorInv'
<1> DEFINE save == Copied("done", saves[c].manual, NoDoc)
           older == \E later \in Copies : later > c /\ saves[later].phase = "done" /\ ~saves[later].manual
<1>1. /\ saves[c].phase = "encoded" /\ saves' = [saves EXCEPT ![c] = save]
      /\ UNCHANGED <<picture, timer, opens, clearing, edits>>
      /\ \/ /\ session' = IF saves[c].manual THEN session ELSE saves[c].doc
            /\ project' = IF saves[c].manual THEN saves[c].doc ELSE project
            /\ stale' = (stale \/ (~saves[c].manual /\ older))
            /\ UNCHANGED failures
         \/ /\ failures' = failures + 1 /\ stale' = (stale \/ ~saves[c].manual)
            /\ UNCHANGED <<session, project>>
  BY DEF Written, Fault
<1>2. SavesFit /\ RecordsFit /\ saves[c] \in EditorCopy /\ saves[c].doc \in Whole
  BY <1>1 DEF EditorInv, SavesFit
<1>3. save \in EditorCopy /\ save.phase = "done" /\ save.manual = saves[c].manual
  <2>1. saves[c].manual \in BOOLEAN /\ NoDoc \in Documents
    BY <1>2, EmptySeq DEF EditorCopy, NoDoc, Documents, Sizes
  <2>2. QED  BY <2>1, CopyParts
<1> HIDE DEF save
<1>4. SavesFit' /\ saves'[c] = save /\ \A d \in Copies \ {c} : saves'[d] = saves[d]
  BY <1>1, <1>2, <1>3, SaveGoesOn
<1>5. RecordsFit'
  BY <1>1, <1>2 DEF RecordsFit
<1>6. failures' \in Nat
  BY <1>1 DEF EditorInv
<1>7. UNCHANGED <<doc, timer>> /\ (stale => stale')
  BY <1>1 DEF picture
<1>8. ASSUME ~stale', NEW d \in Copies, Carries(d), IsLast(d)
      PROVE  Kept'
  <2>1. \A e \in Copies : e > d => saves'[e].manual \/ saves'[e].phase = "idle"
    BY <1>1, <1>3, <1>4, <1>8 DEF IsLast
  <2>2. CASE saves[c].manual
    <3>1. d # c /\ UNCHANGED session
      BY <1>1, <1>8, <2>2 DEF Carries
    <3>2. saves'[d] = saves[d]
      BY <1>4, <3>1
    <3>3. QED  BY <1>7, <1>8, <2>1, <3>1, <3>2 DEF Kept, Carries, IsLast
  <2>3. CASE ~saves[c].manual /\ d = c
    <3>1. session' = saves[c].doc /\ saves[c].doc = doc
      BY <1>1, <1>8, <2>3 DEF Carries
    <3>2. Carries(c)'
      BY <1>3, <1>4, <1>7, <2>3, <3>1 DEF Carries
    <3>3. QED  BY <2>1, <2>3, <3>2 DEF Kept, IsLast
  <2>4. CASE ~saves[c].manual /\ d # c
    <3>1. d > c
      BY <1>1, <1>8, <2>4 DEF IsLast, Copies
    <3>2. saves[d].phase # "done"
      BY <1>1, <1>8, <2>4, <3>1 DEF Carries
    <3>3. saves'[d] = saves[d]
      BY <1>4, <2>4
    <3>4. QED  BY <1>7, <1>8, <2>1, <3>2, <3>3 DEF Kept, Carries, IsLast
  <2>5. QED  BY <2>2, <2>3, <2>4
<1>9. stale' \/ (Kept => Kept')
  BY <1>8 DEF Kept
<1>10. QED  BY <1>1, <1>4, <1>5, <1>6, <1>7, <1>9, SavesFrame, SameShown

LEMMA ClearBeginsKeeps ==
    ASSUME EditorConstants, EditorInv, ClearBegins
    PROVE  EditorInv'
<1>1. /\ clearing' = [on |-> TRUE, kept |-> session]
      /\ UNCHANGED <<picture, timer, opens, saves, session, project, stale, edits, failures>>
  BY DEF ClearBegins
<1>2. RecordsFit' /\ SavesFit' /\ failures' \in Nat
  BY <1>1 DEF EditorInv, RecordsFit, SavesFit
<1>3. Kept' <=> Kept
  BY <1>1, SameSaves DEF picture
<1>4. QED  BY <1>1, <1>2, <1>3, SavesFrame, SameShown

LEMMA ClearEndsKeeps ==
    ASSUME EditorConstants, EditorInv, ClearEnds
    PROVE  EditorInv'
<1>1. /\ clearing' = [on |-> FALSE, kept |-> NoDoc] /\ session' = clearing.kept /\ project' = NoDoc
      /\ stale' = (stale \/ session # clearing.kept)
      /\ UNCHANGED <<picture, timer, opens, saves, edits, failures>>
  BY DEF ClearEnds
<1>2. RecordsFit' /\ SavesFit' /\ failures' \in Nat
  BY <1>1 DEF EditorInv, RecordsFit, SavesFit
<1>3. stale' \/ (Kept' <=> Kept)
  BY <1>1, SameSaves DEF picture
<1>4. stale => stale'
  BY <1>1
<1>5. QED  BY <1>1, <1>2, <1>3, <1>4, SavesFrame, SameShown

-----------------------------------------------------------------------------
(* The invariant                                                           *)

LEMMA EditorBegins ==
    ASSUME EditorConstants, EditorInit
    PROVE  EditorInv
<1>1. NoDoc \in Documents /\ [size |-> 1, layers |-> <<0, 0>>] \in Whole
  <2>1. 0 \in Stamps /\ 1 \in Sizes /\ <<>> \in Seq(Stamps)
    BY EmptySeq DEF EditorConstants, Stamps, Sizes
  <2>2. <<0, 0>> \in Seq(Stamps) /\ Len(<<0, 0>>) > 0
    BY <2>1
  <2>3. QED  BY <2>1, <2>2, MadeWhole DEF NoDoc, Documents
<1>2. PictureFits
  <2>1. hist \in Seq(Whole) /\ Len(hist) = 0 /\ index = 0 /\ HistoryLimit \in Nat
    BY EmptySeq DEF EditorInit, EditorConstants
  <2>2. HistTypes
    BY <2>1 DEF HistTypes
  <2>3. ~Measuring
    BY DEF EditorInit, Measuring, Closed
  <2>4. doc \in Documents /\ ~loaded /\ ~stroke
    BY <1>1 DEF EditorInit
  <2>5. QED  BY <2>2, <2>3, <2>4 DEF PictureFits
<1>3. OpensFit
  BY <1>1 DEF EditorInit, OpensFit, Opening, Closed
<1>4. SavesFit
  <2>1. Unsaved \in EditorCopy
    BY <1>1, EmptySeq DEF Unsaved, Copied, EditorCopy
  <2>2. QED  BY <2>1 DEF EditorInit, SavesFit, Unsaved, Copied
<1>5. RecordsFit
  BY <1>1 DEF EditorInit, RecordsFit
<1>6. QED
  BY <1>2, <1>3, <1>4, <1>5 DEF EditorInit, EditorInv, RestoringFits, HistFits, SavedFits, EditorConstants

LEMMA EditorInvRests ==
    ASSUME EditorConstants, EditorInv
    PROVE  RestsSaved
<1>1. SUFFICES ASSUME AtRest, ~stale
               PROVE  index > 0 /\ doc = hist[index] /\ session = doc
  BY DEF RestsSaved
<1>2. ~Measuring /\ ~restoring
  BY <1>1 DEF AtRest, Measuring, EditorInv, RestoringFits
<1>3. loaded /\ ~timer /\ ~Pending
  BY <1>1, <1>2 DEF AtRest, Pending
<1>4. Fresh /\ Kept
  BY <1>1, <1>3 DEF EditorInv, HistFits, SavedFits
<1>5. session = doc
  BY <1>1, <1>4 DEF Kept, Carries, AtRest
<1>6. QED  BY <1>4, <1>5 DEF Fresh

LEMMA EditorInvNext ==
    ASSUME EditorConstants, EditorInv, [EditorNext]_editorVars
    PROVE  EditorInv'
<1>1. CASE Adjust \/ RemoveBackground \/ Pixelate \/ ArrangeLayer
  BY <1>1, PaintedKeeps DEF Adjust, RemoveBackground, Pixelate, ArrangeLayer
<1>2. CASE Draw \/ Erase \/ Retouch
  BY <1>2, DrawKeeps DEF Erase, Retouch
<1>3. CASE StrokeEnds
  BY <1>3, StrokeEndsKeeps
<1>4. CASE AddText \/ AddShape \/ Watermark \/ Duplicate
  BY <1>4, LayerAddedKeeps DEF AddText, AddShape, Watermark, Duplicate
<1>5. CASE DropLayer
  BY <1>5, DropLayerKeeps
<1>6. CASE Crop \/ Resize \/ Turn
  BY <1>6, TransformedKeeps DEF Crop, Resize, Turn
<1>7. CASE Background
  BY <1>7, BackgroundKeeps
<1>8. CASE Undo \/ Redo
  <2>1. index \in 0 .. Len(hist) /\ Len(hist) \in Nat
    BY LenProperties DEF EditorInv, PictureFits, HistTypes
  <2>2. CASE Undo
    <3>1. index - 1 \in 1 .. Len(hist) /\ StepsTo(index - 1)
      BY <2>1, <2>2 DEF Undo
    <3>2. QED  BY <3>1, StepsToKeeps
  <2>3. CASE Redo
    <3>1. index + 1 \in 1 .. Len(hist) /\ StepsTo(index + 1)
      BY <2>1, <2>3 DEF Redo
    <3>2. QED  BY <3>1, StepsToKeeps
  <2>4. QED  BY <1>8, <2>2, <2>3
<1>9. ASSUME NEW s \in Slots,
             \/ OpenImage(s) \/ OpenProject(s) \/ Boot(s) \/ DecodedImage(s) \/ OpenedImage(s)
             \/ OpenedLayer(s) \/ OpenedCollage(s) \/ OpenedProject(s) \/ OpeningFails(s)
      PROVE  EditorInv'
  BY <1>9, OpenImageKeeps, OpenProjectKeeps, BootKeeps, DecodedImageKeeps, OpenedImageKeeps,
     OpenedLayerKeeps, OpenedCollageKeeps, OpenedProjectKeeps, OpeningFailsKeeps
<1>10. ASSUME NEW c \in Copies, AutoSave(c) \/ ManualSave(c) \/ Encoded(c) \/ Written(c)
       PROVE  EditorInv'
  BY <1>10, AutoSaveKeeps, ManualSaveKeeps, EncodedKeeps, WrittenKeeps
<1>11. CASE ClearBegins \/ ClearEnds
  BY <1>11, ClearBeginsKeeps, ClearEndsKeeps
<1>12. CASE UNCHANGED editorVars
  BY <1>12, StutterKeeps DEF editorVars
<1>13. QED
  BY <1>1, <1>2, <1>3, <1>4, <1>5, <1>6, <1>7, <1>8, <1>9, <1>10, <1>11, <1>12 DEF EditorNext

-----------------------------------------------------------------------------
(* Types                                                                   *)

MarksFit   == loaded \in BOOLEAN /\ restoring \in BOOLEAN /\ stroke \in BOOLEAN /\ timer \in BOOLEAN
LedgerFits == attached \in BOOLEAN /\ booted \in BOOLEAN /\ stale \in BOOLEAN /\ clearing.on \in BOOLEAN

LEMMA RecordedMarks ==
    ASSUME MarksFit, Recorded \/ Renewed
    PROVE  timer' \in BOOLEAN
BY DEF MarksFit, Recorded, Renewed, Pushed

LEMMA EditsMark ==
    ASSUME MarksFit, LedgerFits, Edits, Recorded \/ Draw, stroke' = stroke \/ Draw
    PROVE  MarksFit' /\ LedgerFits'
<1>1. LedgerFits' /\ UNCHANGED <<loaded, restoring>>
  BY DEF Edits, LedgerFits, records
<1>2. stroke' \in BOOLEAN /\ timer' \in BOOLEAN
  BY RecordedMarks DEF Draw, MarksFit
<1>3. QED  BY <1>1, <1>2 DEF MarksFit

LEMMA MarksNext ==
    ASSUME EditorInv, MarksFit, LedgerFits, [EditorNext]_editorVars
    PROVE  MarksFit' /\ LedgerFits'
<1>1. CASE Adjust \/ RemoveBackground \/ Pixelate \/ ArrangeLayer
  BY <1>1, EditsMark DEF Adjust, RemoveBackground, Pixelate, ArrangeLayer, Painted
<1>2. CASE Draw \/ Erase \/ Retouch
  BY <1>2, EditsMark DEF Erase, Retouch, Draw
<1>3. CASE StrokeEnds
  BY <1>3, RecordedMarks DEF StrokeEnds, MarksFit, LedgerFits, records
<1>4. CASE AddText \/ AddShape \/ Watermark \/ Duplicate
  BY <1>4, EditsMark DEF AddText, AddShape, Watermark, Duplicate, Added
<1>5. CASE DropLayer
  BY <1>5, EditsMark DEF DropLayer
<1>6. CASE Crop \/ Resize \/ Turn
  BY <1>6, EditsMark DEF Crop, Resize, Turn, Transformed
<1>7. CASE Background
  BY <1>7, EditsMark DEF Background
<1>8. CASE Undo \/ Redo
  BY <1>8 DEF Undo, Redo, StepsTo, MarksFit, LedgerFits, records
<1>9. ASSUME NEW s \in Slots, OpenImage(s) \/ OpenProject(s) \/ Boot(s)
      PROVE  MarksFit' /\ LedgerFits'
  BY <1>9 DEF OpenImage, OpenProject, Boot, Restores, MarksFit, LedgerFits, records, picture
<1>10. ASSUME NEW s \in Slots, DecodedImage(s) \/ OpenedLayer(s) \/ OpenedCollage(s) \/ OpeningFails(s)
       PROVE  MarksFit' /\ LedgerFits'
  <2>1. CASE DecodedImage(s) \/ OpeningFails(s)
    BY <2>1 DEF DecodedImage, OpeningFails, MarksFit, LedgerFits, records
  <2>2. CASE OpenedLayer(s) \/ OpenedCollage(s)
    BY <2>2, RecordedMarks DEF OpenedLayer, OpenedCollage, MarksFit, LedgerFits, records
  <2>3. QED  BY <1>10, <2>1, <2>2
<1>11. ASSUME NEW s \in Slots, OpenedImage(s) \/ OpenedProject(s)
       PROVE  MarksFit' /\ LedgerFits'
  <2>1. CASE OpenedImage(s)
    BY <2>1, RecordedMarks DEF OpenedImage, MarksFit, LedgerFits
  <2>2. CASE OpenedProject(s)
    <3>1. opens[s].mine \in BOOLEAN
      BY DEF EditorInv, OpensFit, Opening
    <3>2. attached' \in BOOLEAN
      BY <2>2, <3>1 DEF OpenedProject
    <3>3. QED  BY <2>2, <3>2 DEF OpenedProject, Pushed, MarksFit, LedgerFits
  <2>3. QED  BY <1>11, <2>1, <2>2
<1>12. ASSUME NEW c \in Copies, AutoSave(c) \/ ManualSave(c) \/ Encoded(c) \/ Written(c)
       PROVE  MarksFit' /\ LedgerFits'
  <2>1. CASE AutoSave(c) \/ ManualSave(c)
    BY <2>1 DEF AutoSave, ManualSave, Saves, MarksFit, LedgerFits, records, picture
  <2>2. CASE Encoded(c)
    BY <2>2 DEF Encoded, MarksFit, LedgerFits, records, picture
  <2>3. CASE Written(c)
    BY <2>3 DEF Written, MarksFit, LedgerFits, picture
  <2>4. QED  BY <1>12, <2>1, <2>2, <2>3
<1>13. CASE ClearBegins \/ ClearEnds
  <2>1. clearing'.on = TRUE \/ clearing'.on = FALSE
    BY <1>13 DEF ClearBegins, ClearEnds
  <2>2. /\ UNCHANGED <<loaded, restoring, stroke, timer, booted>>
        /\ attached' = attached \/ attached' = FALSE
        /\ stale' = stale \/ stale' = (stale \/ session # clearing.kept)
    BY <1>13 DEF ClearBegins, ClearEnds, picture
  <2>3. QED  BY <2>1, <2>2 DEF MarksFit, LedgerFits
<1>14. CASE UNCHANGED editorVars
  BY <1>14 DEF editorVars, MarksFit, LedgerFits, picture, records
<1>15. QED
  BY <1>1, <1>2, <1>3, <1>4, <1>5, <1>6, <1>7, <1>8, <1>9, <1>10, <1>11, <1>12, <1>13, <1>14 DEF EditorNext

LEMMA EditorTypesFit ==
    ASSUME EditorConstants, EditorInv, MarksFit, LedgerFits
    PROVE  EditorTypes
<1>1. Whole \subseteq Documents /\ NoDoc \in Documents
  BY EmptySeq DEF Whole, NoDoc, Documents, Sizes
<1>2. doc \in Documents /\ hist \in Seq(Whole) /\ Len(hist) <= HistoryLimit /\ index \in 0 .. Len(hist)
  BY DEF EditorInv, PictureFits, HistTypes
<1>3. hist \in Seq(Documents)
  BY <1>1, <1>2
<1>4. {session, project, clearing.kept} \subseteq Documents
  BY <1>1 DEF EditorInv, RecordsFit
<1>5. \A s \in Slots : opens[s].doc \in Documents
  BY DEF EditorInv, OpensFit, Opening
<1>6. \A c \in Copies : saves[c].doc \in Documents /\ saves[c].array \in Seq(Stamps)
  BY DEF EditorInv, SavesFit, EditorCopy
<1>7. {loaded, restoring, stroke, timer, attached, booted, stale, clearing.on} \subseteq BOOLEAN
  BY DEF MarksFit, LedgerFits
<1>8. QED  BY <1>2, <1>3, <1>4, <1>5, <1>6, <1>7 DEF EditorTypes

\* The editor's document, history, records and copies keep their types, and the
\* history its limit.
THEOREM EditorKeepsTypes ==
    ASSUME EditorConstants
    PROVE  EditorSpec => []EditorTypes
<1>1. EditorInit => EditorInv /\ MarksFit /\ LedgerFits
  <2>1. SUFFICES ASSUME EditorInit
                 PROVE  EditorInv /\ MarksFit /\ LedgerFits
    OBVIOUS
  <2>2. /\ loaded = FALSE /\ restoring = FALSE /\ stroke = FALSE /\ timer = FALSE
        /\ attached = FALSE /\ booted = FALSE /\ stale = FALSE
        /\ clearing = [on |-> FALSE, kept |-> NoDoc]
    BY <2>1 DEF EditorInit
  <2>3. clearing.on = FALSE
    BY <2>2
  <2>4. MarksFit /\ LedgerFits
    BY <2>2, <2>3 DEF MarksFit, LedgerFits
  <2>5. QED  BY <2>1, <2>4, EditorBegins
<1>2. EditorInv /\ MarksFit /\ LedgerFits /\ [EditorNext]_editorVars => (EditorInv /\ MarksFit /\ LedgerFits)'
  BY EditorInvNext, MarksNext
<1>3. EditorInv /\ MarksFit /\ LedgerFits => EditorTypes
  BY EditorTypesFit
<1>4. QED  BY <1>1, <1>2, <1>3, PTL DEF EditorSpec

-----------------------------------------------------------------------------
(* The theorem                                                             *)

\* An editor that rests shows the entry of its history that undo starts from,
\* and the session it would start with next time is that document, whatever
\* edits, openings and saves overlapped (pushHistory, restoreProject,
\* saveProject, scheduleAutosave).
THEOREM SessionRests ==
    ASSUME EditorConstants
    PROVE  EditorSpec => []RestsSaved
<1>1. EditorInit => EditorInv
  BY EditorBegins
<1>2. EditorInv /\ [EditorNext]_editorVars => EditorInv'
  BY EditorInvNext
<1>3. EditorInv => RestsSaved
  BY EditorInvRests
<1>4. QED  BY <1>1, <1>2, <1>3, PTL DEF EditorSpec

-----------------------------------------------------------------------------
(* THE SETTINGS                                                            *)

(* The inductive invariant                                                 *)

\* A save that is asked for.
Saving == [of : Controls \ {"media"}, next : Settings, previous : Settings, attached : BOOLEAN,
         state : {"queued", "sent", "saved", "failed"}]

\* The chain of the experience: what is not its first save waits.
ChainWaits(list) ==
    \A i, j \in DOMAIN list :
        i < j /\ list[i].of \in Fields /\ list[j].of \in Fields => list[j].state = "queued"

\* Saves of the same settings that overlap are noted.
OverlapsNoted(list, bad, blurred) ==
    \A i, j \in DOMAIN list :
        i # j /\ list[j].of \in Group(list[i].of) =>
            /\ Group(list[i].of) \subseteq bad \cup blurred
            /\ list[i].of \notin Fields => Group(list[i].of) \subseteq bad
RefusalsNoted(list, bad) ==
    \A i \in DOMAIN list : list[i].state = "failed" => Group(list[i].of) \subseteq bad

\* Nobody saves the setting.
Free(list, c) == \A i \in DOMAIN list : c \notin Group(list[i].of)

\* A setting nobody saves is in memory, and shown, as it is stored; one that was
\* saved is stored as it was sent.
Agrees(list, c, inMemory, inStore, onPage) ==
    /\ Free(list, c) => inMemory = inStore /\ (c # "close" => onPage = inMemory)
    /\ \A i \in DOMAIN list : c \in Group(list[i].of) /\ list[i].state = "saved" =>
           inStore = list[i].next[c]

\* What is sent of a setting is what the user asked for last.
Obeys(list, c, inStore, wish) ==
    /\ Free(list, c) => inStore = wish
    /\ \A i \in DOMAIN list : c \in Group(list[i].of) =>
           list[i].next[c] = wish /\ (list[i].state = "saved" => inStore = wish)

QueueFits ==
    /\ requests \in Seq(Saving) /\ ChainWaits(requests)
    /\ OverlapsNoted(requests, spoiled, mixed) /\ RefusalsNoted(requests, spoiled)

\* A control is disabled for a save whose answer will enable it.
OffFits ==
    \A c \in off : c \in spoiled \/ \E i \in DOMAIN requests : requests[i].of = c /\ requests[i].attached

MemoryFits ==
    hydration = "done" /\ ~leaving =>
        \A c \in Controls \ spoiled : Agrees(requests, c, memory[c], committed[c], displayed[c])
WishesFit ==
    \A c \in Controls \ (spoiled \cup mixed) : Obeys(requests, c, committed[c], wished[c])

ValuesFit ==
    /\ memory \in Settings /\ committed \in Settings /\ displayed \in Settings
    /\ read \in Settings /\ wished \in Settings
SetsFit  == off \subseteq Controls /\ spoiled \subseteq Controls /\ mixed \subseteq Controls
BoundsFit ==
    /\ hydration \in {"asked", "read", "late", "done"} /\ leaving \in BOOLEAN
    /\ changes \in 0 .. MaxChanges /\ refusals \in 0 .. MaxRefusals

PrefInv == ValuesFit /\ SetsFit /\ BoundsFit /\ QueueFits /\ OffFits /\ MemoryFits /\ WishesFit

-----------------------------------------------------------------------------
(* Groups of settings and lists of saves                                   *)

LEMMA GroupParts ==
    ASSUME PrefConstants, NEW c \in Controls
    PROVE  /\ c \in Group(c) /\ Group(c) \subseteq Controls
           /\ \A d \in Group(c) : Group(d) = Group(c) /\ (d \in Fields <=> c \in Fields)
           /\ c \in Fields => Group(c) = Fields
           /\ c \in Boxes => Group(c) = Boxes
           /\ c \in Single => Group(c) = {c}
BY DEF PrefConstants, Controls, Group, Single

LEMMA SaveParts ==
    ASSUME NEW list \in Seq(Saving)
    PROVE  /\ Len(list) \in Nat /\ DOMAIN list = 1 .. Len(list)
           /\ \A i \in DOMAIN list :
                /\ list[i] \in Saving /\ list[i].of \in Controls \ {"media"}
                /\ list[i].next \in Settings /\ list[i].previous \in Settings
                /\ list[i].state \in {"queued", "sent", "saved", "failed"}
<1>1. Len(list) \in Nat /\ DOMAIN list = 1 .. Len(list)
  BY LenProperties
<1>2. ASSUME NEW i \in DOMAIN list
      PROVE  list[i] \in Saving
  BY <1>1, <1>2, ElementOfSeq
<1>3. \A save \in Saving : /\ save.of \in Controls \ {"media"}
                         /\ save.next \in Settings /\ save.previous \in Settings
                         /\ save.state \in {"queued", "sent", "saved", "failed"}
  BY DEF Saving
<1>4. QED  BY <1>1, <1>2, <1>3

\* The same saves, for the same controls or for controls that are gone.
Like(list, other) ==
    /\ DOMAIN list = DOMAIN other
    /\ \A i \in DOMAIN other : /\ list[i].of = other[i].of /\ list[i].next = other[i].next
                               /\ list[i].state = other[i].state

LEMMA ReplacedLike ==
    ASSUME NEW list \in Seq(Saving)
    PROVE  Replaced(list) \in Seq(Saving) /\ Like(Replaced(list), list)
<1>1. Len(list) \in Nat /\ DOMAIN list = 1 .. Len(list) /\ \A i \in DOMAIN list : list[i] \in Saving
  BY SaveParts
<1>2. \A save \in Saving : [save EXCEPT !.attached = FALSE] \in Saving
  BY DEF Saving
<1>3. \A save \in Saving : /\ [save EXCEPT !.attached = FALSE].of = save.of
                         /\ [save EXCEPT !.attached = FALSE].next = save.next
                         /\ [save EXCEPT !.attached = FALSE].state = save.state
  BY DEF Saving
<1>4. DOMAIN Replaced(list) = DOMAIN list /\ \A i \in DOMAIN list : Replaced(list)[i] = [list[i] EXCEPT !.attached = FALSE]
  BY DEF Replaced
<1>5. Replaced(list) \in Seq(Saving)
  <2>1. \A i \in 1 .. Len(list) : [list[i] EXCEPT !.attached = FALSE] \in Saving
    BY <1>1, <1>2
  <2>2. Replaced(list) = [i \in 1 .. Len(list) |-> [list[i] EXCEPT !.attached = FALSE]]
    BY <1>1 DEF Replaced
  <2> HIDE DEF Saving
  <2>3. QED  BY <1>1, <2>1, <2>2, IsASeq
<1>6. Like(Replaced(list), list)
  BY <1>1, <1>3, <1>4 DEF Like
<1>7. QED  BY <1>5, <1>6

LEMMA LikeKeeps ==
    ASSUME NEW list, NEW other, Like(list, other)
    PROVE  /\ ChainWaits(other) => ChainWaits(list)
           /\ \A bad, blurred : OverlapsNoted(other, bad, blurred) => OverlapsNoted(list, bad, blurred)
           /\ \A bad : RefusalsNoted(other, bad) => RefusalsNoted(list, bad)
           /\ \A c : Free(list, c) <=> Free(other, c)
           /\ \A c, m, k, s : Agrees(other, c, m, k, s) => Agrees(list, c, m, k, s)
           /\ \A c, k, w : Obeys(other, c, k, w) => Obeys(list, c, k, w)
<1>1. ChainWaits(other) => ChainWaits(list)
  BY DEF Like, ChainWaits
<1>2. \A bad, blurred : OverlapsNoted(other, bad, blurred) => OverlapsNoted(list, bad, blurred)
  BY DEF Like, OverlapsNoted
<1>3. \A bad : RefusalsNoted(other, bad) => RefusalsNoted(list, bad)
  BY DEF Like, RefusalsNoted
<1>4. \A c : Free(list, c) <=> Free(other, c)
  BY DEF Like, Free
<1>5. \A c, m, k, s : Agrees(other, c, m, k, s) => Agrees(list, c, m, k, s)
  BY <1>4 DEF Like, Agrees
<1>6. \A c, k, w : Obeys(other, c, k, w) => Obeys(list, c, k, w)
  BY <1>4 DEF Like, Obeys
<1>7. QED  BY <1>1, <1>2, <1>3, <1>4, <1>5, <1>6

\* What is noted stays noted.
LEMMA NotedStays ==
    ASSUME NEW list, NEW bad, NEW blurred, NEW worse, NEW more, bad \subseteq worse, blurred \subseteq more
    PROVE  /\ OverlapsNoted(list, bad, blurred) => OverlapsNoted(list, worse, more)
           /\ RefusalsNoted(list, bad) => RefusalsNoted(list, worse)
<1>1. OverlapsNoted(list, bad, blurred) => OverlapsNoted(list, worse, more)
  BY DEF OverlapsNoted
<1>2. RefusalsNoted(list, bad) => RefusalsNoted(list, worse)
  BY DEF RefusalsNoted
<1>3. QED  BY <1>1, <1>2

\* The first of the chain is sent.
LEMMA ReleasedKeeps ==
    ASSUME NEW list \in Seq(Saving), ChainWaits(list)
    PROVE  /\ Released(list) \in Seq(Saving) /\ ChainWaits(Released(list))
           /\ \A bad, blurred : OverlapsNoted(list, bad, blurred) => OverlapsNoted(Released(list), bad, blurred)
           /\ \A bad : RefusalsNoted(list, bad) => RefusalsNoted(Released(list), bad)
           /\ \A c : Free(Released(list), c) <=> Free(list, c)
           /\ \A c, m, k, s : Agrees(list, c, m, k, s) => Agrees(Released(list), c, m, k, s)
           /\ \A c, k, w : Obeys(list, c, k, w) => Obeys(Released(list), c, k, w)
<1> DEFINE new == Released(list)
           Foremost(i) == list[i].of \in Fields /\ \A j \in DOMAIN list : list[j].of \in Fields => i <= j
<1>1. Len(list) \in Nat /\ DOMAIN list = 1 .. Len(list) /\ \A i \in DOMAIN list : list[i] \in Saving
  BY SaveParts
<1>2. \A save \in Saving : [save EXCEPT !.state = "sent"] \in Saving
  BY DEF Saving
<1>3. \A save \in Saving : /\ [save EXCEPT !.state = "sent"].of = save.of
                         /\ [save EXCEPT !.state = "sent"].next = save.next
                         /\ [save EXCEPT !.state = "sent"].state = "sent"
  BY DEF Saving
<1>4. DOMAIN new = DOMAIN list
  BY DEF Released
<1>5. ASSUME NEW i \in DOMAIN list
      PROVE  new[i] = IF Foremost(i) /\ list[i].state = "queued" THEN [list[i] EXCEPT !.state = "sent"] ELSE list[i]
  BY <1>5 DEF Released
<1>6. new \in Seq(Saving)
  <2>1. new = [i \in 1 .. Len(list) |-> new[i]]
    BY <1>1, <1>4 DEF Released
  <2>2. \A i \in 1 .. Len(list) : new[i] \in Saving
    BY <1>1, <1>2, <1>5
  <2> HIDE DEF new, Saving
  <2>3. QED  BY <1>1, <2>1, <2>2, IsASeq
<1>7. \A i \in DOMAIN list : /\ new[i].of = list[i].of /\ new[i].next = list[i].next
                             /\ new[i].state = list[i].state \/ (list[i].state = "queued" /\ new[i].state = "sent" /\ Foremost(i))
  BY <1>1, <1>3, <1>5
<1> HIDE DEF new
<1>8. ChainWaits(new)
  <2>1. SUFFICES ASSUME NEW i \in DOMAIN list, NEW j \in DOMAIN list, i < j, list[i].of \in Fields, list[j].of \in Fields
                 PROVE  new[j].state = "queued"
    BY <1>4, <1>7 DEF ChainWaits
  <2>2. list[j].state = "queued" /\ ~Foremost(j)
    BY <1>1, <2>1 DEF ChainWaits
  <2>3. QED  BY <1>7, <2>2
<1>9. \A bad, blurred : OverlapsNoted(list, bad, blurred) => OverlapsNoted(new, bad, blurred)
  BY <1>4, <1>7 DEF OverlapsNoted
<1>10. \A bad : RefusalsNoted(list, bad) => RefusalsNoted(new, bad)
  BY <1>4, <1>7 DEF RefusalsNoted
<1>11. \A c : Free(new, c) <=> Free(list, c)
  BY <1>4, <1>7 DEF Free
<1>12. \A c, m, k, s : Agrees(list, c, m, k, s) => Agrees(new, c, m, k, s)
  BY <1>4, <1>7, <1>11 DEF Agrees
<1>13. \A c, k, w : Obeys(list, c, k, w) => Obeys(new, c, k, w)
  BY <1>4, <1>7, <1>11 DEF Obeys
<1>14. QED  BY <1>6, <1>8, <1>9, <1>10, <1>11, <1>12, <1>13 DEF new

\* A save is taken out of the list.
LEMMA SaveRemovedKeeps ==
    ASSUME PrefConstants, NEW list \in Seq(Saving), NEW i \in DOMAIN list
    PROVE  /\ RemoveAt(list, i) \in Seq(Saving)
           /\ ChainWaits(list) => ChainWaits(RemoveAt(list, i))
           /\ \A bad, blurred : OverlapsNoted(list, bad, blurred) => OverlapsNoted(RemoveAt(list, i), bad, blurred)
           /\ \A bad : RefusalsNoted(list, bad) => RefusalsNoted(RemoveAt(list, i), bad)
           /\ \A k \in DOMAIN RemoveAt(list, i) : \E j \in DOMAIN list \ {i} : RemoveAt(list, i)[k] = list[j]
           /\ \A j \in DOMAIN list \ {i} : \E k \in DOMAIN RemoveAt(list, i) : RemoveAt(list, i)[k] = list[j]
           /\ \A c : c \notin Group(list[i].of) /\ Free(RemoveAt(list, i), c) => Free(list, c)
           /\ \A c, m, k, s : c \notin Group(list[i].of) /\ Agrees(list, c, m, k, s) => Agrees(RemoveAt(list, i), c, m, k, s)
           /\ \A c, k, w : c \notin Group(list[i].of) /\ Obeys(list, c, k, w) => Obeys(RemoveAt(list, i), c, k, w)
<1> DEFINE rest == RemoveAt(list, i)
           old(k) == IF k < i THEN k ELSE k + 1
<1>1. Len(list) \in Nat /\ DOMAIN list = 1 .. Len(list)
  BY SaveParts
<1>2. /\ rest \in Seq(Saving) /\ Len(rest) = Len(list) - 1 /\ DOMAIN rest = 1 .. Len(list) - 1
      /\ \A k \in 1 .. Len(list) - 1 : rest[k] = list[old(k)]
  BY RemoveAtParts, LenProperties
<1> HIDE DEF rest
<1>3. /\ \A k \in DOMAIN rest : old(k) \in DOMAIN list \ {i} /\ rest[k] = list[old(k)]
      /\ \A k, l \in DOMAIN rest : k < l => old(k) < old(l)
      /\ \A k, l \in DOMAIN rest : k # l => old(k) # old(l)
  BY <1>1, <1>2
<1>4. \A j \in DOMAIN list \ {i} : \E k \in DOMAIN rest : rest[k] = list[j]
  <2>1. TAKE j \in DOMAIN list \ {i}
  <2>2. CASE j < i
    <3>1. j \in DOMAIN rest /\ old(j) = j
      BY <1>1, <1>2, <2>2
    <3>2. QED  BY <1>3, <3>1
  <2>3. CASE ~(j < i)
    <3>1. j - 1 \in DOMAIN rest /\ old(j - 1) = j
      BY <1>1, <1>2, <2>3
    <3>2. QED  BY <1>3, <3>1
  <2>4. QED  BY <2>2, <2>3
<1> HIDE DEF old
<1>5. ChainWaits(list) => ChainWaits(rest)
  BY <1>3 DEF ChainWaits
<1>6. \A bad, blurred : OverlapsNoted(list, bad, blurred) => OverlapsNoted(rest, bad, blurred)
  BY <1>3 DEF OverlapsNoted
<1>7. \A bad : RefusalsNoted(list, bad) => RefusalsNoted(rest, bad)
  BY <1>3 DEF RefusalsNoted
<1>8. \A c : c \notin Group(list[i].of) /\ Free(rest, c) => Free(list, c)
  BY <1>4 DEF Free
<1>9. \A c, m, k, s : c \notin Group(list[i].of) /\ Agrees(list, c, m, k, s) => Agrees(rest, c, m, k, s)
  BY <1>3, <1>8 DEF Agrees
<1>10. \A c, k, w : c \notin Group(list[i].of) /\ Obeys(list, c, k, w) => Obeys(rest, c, k, w)
  BY <1>3, <1>8 DEF Obeys
<1>11. \A k \in DOMAIN rest : \E j \in DOMAIN list \ {i} : rest[k] = list[j]
  BY <1>3
<1>12. QED  BY <1>2, <1>4, <1>5, <1>6, <1>7, <1>8, <1>9, <1>10, <1>11 DEF rest

\* A save is asked for.
LEMMA AppendedKeeps ==
    ASSUME PrefConstants, NEW list \in Seq(Saving), NEW save \in Saving, save.state \in {"queued", "sent"}
    PROVE  /\ Append(list, save) \in Seq(Saving)
           /\ ChainWaits(list) /\ (save.of \in Fields /\ ~Free(list, save.of) => save.state = "queued")
                => ChainWaits(Append(list, save))
           /\ \A bad, blurred :
                OverlapsNoted(list, bad, blurred)
                /\ (~Free(list, save.of) => /\ Group(save.of) \subseteq bad \cup blurred
                                            /\ save.of \notin Fields => Group(save.of) \subseteq bad)
                => OverlapsNoted(Append(list, save), bad, blurred)
           /\ \A bad : RefusalsNoted(list, bad) => RefusalsNoted(Append(list, save), bad)
           /\ \A c : Free(Append(list, save), c) <=> Free(list, c) /\ c \notin Group(save.of)
           /\ \A c, m, k, s : Agrees(list, c, m, k, s) => Agrees(Append(list, save), c, m, k, s)
           /\ \A c, m, k, s, m2, s2 : Agrees(list, c, m, k, s) /\ c \in Group(save.of)
                => Agrees(Append(list, save), c, m2, k, s2)
           /\ \A c, k, w : Obeys(list, c, k, w) /\ (c \in Group(save.of) => save.next[c] = w)
                => Obeys(Append(list, save), c, k, w)
           /\ \A c, k, w : Free(list, c) /\ c \in Group(save.of) /\ save.next[c] = w
                => Obeys(Append(list, save), c, k, w)
<1> DEFINE new == Append(list, save)
           n   == Len(list)
<1>1. n \in Nat /\ DOMAIN list = 1 .. n /\ save.of \in Controls
      /\ \A i \in DOMAIN list : list[i].of \in Controls
  BY SaveParts DEF Saving
<1>2. /\ new \in Seq(Saving) /\ DOMAIN new = 1 .. n + 1 /\ new[n + 1] = save
      /\ \A i \in 1 .. n : new[i] = list[i]
  BY <1>1, AppendProperties, LenProperties
<1> HIDE DEF new, n
<1>3. \A i \in DOMAIN new : (i \in DOMAIN list /\ i # n + 1 /\ new[i] = list[i]) \/ (i = n + 1 /\ new[i] = save)
  BY <1>1, <1>2
<1>4. DOMAIN list \subseteq DOMAIN new /\ n + 1 \in DOMAIN new /\ \A i \in DOMAIN list : i < n + 1 /\ ~(n + 1 < i)
  BY <1>1, <1>2
<1>5. \A c : Free(new, c) <=> Free(list, c) /\ c \notin Group(save.of)
  BY <1>2, <1>3, <1>4 DEF Free
<1>6. \A i \in DOMAIN list : (save.of \in Group(list[i].of) \/ list[i].of \in Group(save.of))
                              => ~Free(list, save.of) /\ Group(list[i].of) = Group(save.of)
                                 /\ (list[i].of \in Fields <=> save.of \in Fields)
  BY <1>1, GroupParts DEF Free
<1>7. ChainWaits(list) /\ (save.of \in Fields /\ ~Free(list, save.of) => save.state = "queued") => ChainWaits(new)
  <2>1. SUFFICES ASSUME ChainWaits(list), save.of \in Fields /\ ~Free(list, save.of) => save.state = "queued",
                        NEW i \in DOMAIN new, NEW j \in DOMAIN new, i < j,
                        new[i].of \in Fields, new[j].of \in Fields
                 PROVE  new[j].state = "queued"
    BY DEF ChainWaits
  <2>2. i \in DOMAIN list /\ new[i] = list[i]
    BY <1>1, <1>2, <1>3, <2>1
  <2>3. CASE j \in DOMAIN list /\ new[j] = list[j]
    BY <2>1, <2>2, <2>3 DEF ChainWaits
  <2>4. CASE new[j] = save
    <3>1. Group(list[i].of) = Fields /\ save.of \in Fields
      BY <1>1, <2>1, <2>2, <2>4, GroupParts
    <3>2. ~Free(list, save.of)
      BY <2>2, <3>1 DEF Free
    <3>3. QED  BY <2>1, <2>4, <3>1, <3>2
  <2>5. QED  BY <1>3, <2>3, <2>4
<1>8. ASSUME NEW bad, NEW blurred, OverlapsNoted(list, bad, blurred),
             ~Free(list, save.of) => /\ Group(save.of) \subseteq bad \cup blurred
                                     /\ save.of \notin Fields => Group(save.of) \subseteq bad
      PROVE  OverlapsNoted(new, bad, blurred)
  <2>1. SUFFICES ASSUME NEW i \in DOMAIN new, NEW j \in DOMAIN new, i # j, new[j].of \in Group(new[i].of)
                 PROVE  /\ Group(new[i].of) \subseteq bad \cup blurred
                        /\ new[i].of \notin Fields => Group(new[i].of) \subseteq bad
    BY DEF OverlapsNoted
  <2>2. CASE i \in DOMAIN list /\ j \in DOMAIN list
    <3>1. new[i] = list[i] /\ new[j] = list[j]
      BY <1>1, <1>2, <2>2
    <3>2. QED  BY <1>8, <2>1, <2>2, <3>1 DEF OverlapsNoted
  <2>3. CASE i \in DOMAIN list /\ j = n + 1
    <3>1. new[i] = list[i] /\ new[j] = save
      BY <1>1, <1>2, <2>3
    <3>2. QED  BY <1>6, <1>8, <2>1, <2>3, <3>1
  <2>4. CASE j \in DOMAIN list /\ i = n + 1
    <3>1. new[j] = list[j] /\ new[i] = save
      BY <1>1, <1>2, <2>4
    <3>2. QED  BY <1>6, <1>8, <2>1, <2>4, <3>1
  <2>5. QED  BY <1>3, <2>1, <2>2, <2>3, <2>4
<1>9. \A bad : RefusalsNoted(list, bad) => RefusalsNoted(new, bad)
  BY <1>3 DEF RefusalsNoted
<1>10. \A c, m, k, s : Agrees(list, c, m, k, s) => Agrees(new, c, m, k, s)
  BY <1>3, <1>5 DEF Agrees
<1>11. \A c, k, w : Obeys(list, c, k, w) /\ (c \in Group(save.of) => save.next[c] = w) => Obeys(new, c, k, w)
  BY <1>3, <1>5 DEF Obeys
<1>12. \A c, m, k, s, m2, s2 : Agrees(list, c, m, k, s) /\ c \in Group(save.of) => Agrees(new, c, m2, k, s2)
  BY <1>3, <1>5 DEF Agrees
<1>13. \A c, k, w : Free(list, c) /\ c \in Group(save.of) /\ save.next[c] = w => Obeys(new, c, k, w)
  BY <1>3, <1>5 DEF Obeys, Free
<1>14. QED  BY <1>2, <1>5, <1>7, <1>8, <1>9, <1>10, <1>11, <1>12, <1>13 DEF new

-----------------------------------------------------------------------------
(* The steps                                                               *)

LEMMA UnderWayFree ==
    ASSUME PrefConstants, requests \in Seq(Saving), NEW c \in Controls
    PROVE  UnderWay(Group(c)) = {} <=> Free(requests, c)
<1>1. \A i \in DOMAIN requests : requests[i].of \in Controls
  BY SaveParts
<1>2. \A i \in DOMAIN requests : requests[i].of \in Group(c) <=> c \in Group(requests[i].of)
  BY <1>1, GroupParts
<1>3. QED  BY <1>2 DEF UnderWay, Free

\* The list that a step leaves, drawn anew or not.
LEMMA QueueStays ==
    ASSUME NEW list \in Seq(Saving), ChainWaits(list), OverlapsNoted(list, spoiled', mixed'),
           RefusalsNoted(list, spoiled'), requests' = list \/ requests' = Replaced(list)
    PROVE  QueueFits' /\ Like(requests', list)
<1>1. requests' \in Seq(Saving) /\ Like(requests', list)
  BY ReplacedLike DEF Like
<1>2. /\ ChainWaits(requests') /\ OverlapsNoted(requests', spoiled', mixed')
      /\ RefusalsNoted(requests', spoiled')
  BY <1>1, LikeKeeps
<1>3. QED
  BY <1>1, <1>2 DEF QueueFits, ChainWaits, OverlapsNoted, RefusalsNoted

LEMMA ClaimsStay ==
    ASSUME NEW list, Like(requests', list),
           hydration' = "done" /\ ~leaving' =>
               \A c \in Controls \ spoiled' : Agrees(list, c, memory'[c], committed'[c], displayed'[c]),
           \A c \in Controls \ (spoiled' \cup mixed') : Obeys(list, c, committed'[c], wished'[c])
    PROVE  MemoryFits' /\ WishesFit'
<1>1. hydration' = "done" /\ ~leaving' =>
          \A c \in Controls \ spoiled' : Agrees(requests', c, memory'[c], committed'[c], displayed'[c])
  BY LikeKeeps
<1>2. \A c \in Controls \ (spoiled' \cup mixed') : Obeys(requests', c, committed'[c], wished'[c])
  BY LikeKeeps
<1>3. MemoryFits'
  BY <1>1 DEF MemoryFits, Agrees, Free
<1>4. WishesFit'
  BY <1>2 DEF WishesFit, Obeys, Free
<1>5. QED  BY <1>3, <1>4

\* The page is drawn: every control shows the memory and is enabled.
LEMMA DrawnFits ==
    ASSUME NEW list \in Seq(Saving), ChainWaits(list), OverlapsNoted(list, spoiled', mixed'),
           RefusalsNoted(list, spoiled'), Draws(list), memory' \in Settings,
           hydration' = "done" /\ ~leaving' =>
               \A c \in Controls \ spoiled' : Agrees(list, c, memory'[c], committed'[c], memory'[c]),
           \A c \in Controls \ (spoiled' \cup mixed') : Obeys(list, c, committed'[c], wished'[c])
    PROVE  QueueFits' /\ OffFits' /\ MemoryFits' /\ WishesFit' /\ displayed' \in Settings /\ off' \subseteq Controls
<1>1. displayed' = memory' /\ off' = {} /\ requests' = Replaced(list)
  BY DEF Draws
<1>2. QueueFits' /\ Like(requests', list)
  BY <1>1, QueueStays
<1>3. MemoryFits' /\ WishesFit'
  BY <1>1, <1>2, ClaimsStay
<1>4. QED  BY <1>1, <1>2, <1>3 DEF OffFits

LEMMA RequestedKeeps ==
    ASSUME PrefConstants, PrefInv, NEW c \in Controls \ {"media"}, NEW value \in BOOLEAN, NEW now \in BOOLEAN,
           Requested(c, value, now), displayed' \in Settings,
           \A d \in Controls \ {c} : displayed'[d] = displayed[d], off' = off \/ off' = off \cup {c}
    PROVE  PrefInv'
<1> DEFINE next  == [memory EXCEPT ![c] = value]
           how   == IF c \in Fields /\ UnderWay(Group(c)) # {} THEN "queued" ELSE "sent"
           save  == [of |-> c, next |-> next, previous |-> memory, attached |-> TRUE, state |-> how]
           free  == Free(requests, c)
<1>1. /\ ValuesFit /\ SetsFit /\ BoundsFit /\ QueueFits /\ OffFits /\ MemoryFits /\ WishesFit
      /\ requests \in Seq(Saving) /\ ChainWaits(requests)
      /\ OverlapsNoted(requests, spoiled, mixed) /\ RefusalsNoted(requests, spoiled)
  BY DEF PrefInv, QueueFits
<1>2. UnderWay(Group(c)) = {} <=> free
  BY <1>1, UnderWayFree
<1>3. /\ changes < MaxChanges /\ changes' = changes + 1 /\ requests' = Append(requests, save)
      /\ memory' = IF now THEN next ELSE memory
      /\ wished' = [wished EXCEPT ![c] = next[c]]
      /\ mixed' = IF UnderWay(Group(c)) # {} \/ hydration # "done" \/ leaving THEN mixed \cup Group(c) ELSE mixed
      /\ spoiled' = IF UnderWay(Group(c)) # {} /\ c \notin Fields THEN spoiled \cup Group(c) ELSE spoiled
      /\ UNCHANGED <<committed, hydration, read, leaving, refusals>>
  BY DEF Requested
<1>4. next \in Settings /\ next[c] = value /\ \A d \in Controls \ {c} : next[d] = memory[d]
  BY <1>1 DEF ValuesFit, Settings
<1> HIDE DEF next, free
<1>5. how \in {"queued", "sent"} /\ (c \in Fields /\ ~free => how = "queued")
  BY <1>2
<1> HIDE DEF how
<1>6. save \in Saving /\ save.of = c /\ save.next = next /\ save.state = how /\ save.attached
  BY <1>1, <1>4, <1>5 DEF Saving, ValuesFit
<1> HIDE DEF save
<1>7. /\ spoiled \subseteq spoiled' /\ mixed \subseteq mixed' /\ spoiled' \subseteq Controls /\ mixed' \subseteq Controls
      /\ ~free => Group(c) \subseteq mixed' /\ (c \notin Fields => Group(c) \subseteq spoiled')
      /\ \A d \in Group(c) : d \notin mixed' => free /\ hydration = "done" /\ ~leaving
  BY <1>1, <1>2, <1>3, GroupParts DEF SetsFit
<1>8. OverlapsNoted(requests, spoiled', mixed') /\ RefusalsNoted(requests, spoiled')
  BY <1>1, <1>7, NotedStays
<1>9. Append(requests, save) \in Seq(Saving) /\ ChainWaits(Append(requests, save))
  BY <1>1, <1>5, <1>6, AppendedKeeps DEF free
<1>10. OverlapsNoted(Append(requests, save), spoiled', mixed')
  <2>1. ~Free(requests, save.of) => /\ Group(save.of) \subseteq spoiled' \cup mixed'
                                    /\ save.of \notin Fields => Group(save.of) \subseteq spoiled'
    BY <1>6, <1>7 DEF free
  <2>2. QED  BY <1>1, <1>5, <1>6, <1>8, <2>1, AppendedKeeps
<1>11. RefusalsNoted(Append(requests, save), spoiled')
  BY <1>1, <1>5, <1>6, <1>8, AppendedKeeps
<1>12. QueueFits' /\ Like(requests', Append(requests, save))
  BY <1>3, <1>9, <1>10, <1>11, QueueStays
<1>13. ValuesFit'
  <2>1. wished' \in Settings
    BY <1>1, <1>3, <1>4 DEF ValuesFit, Settings
  <2>2. QED  BY <1>1, <1>3, <1>4, <2>1 DEF ValuesFit
<1>14. \A d \in Controls \ {c} : wished'[d] = wished[d] /\ memory'[d] = memory[d] /\ displayed'[d] = displayed[d]
  BY <1>1, <1>3, <1>4 DEF ValuesFit, Settings
<1>15. wished'[c] = next[c]
  BY <1>1, <1>3 DEF ValuesFit, Settings
<1>16. ASSUME hydration' = "done", ~leaving', NEW d \in Controls \ spoiled'
       PROVE  Agrees(Append(requests, save), d, memory'[d], committed'[d], displayed'[d])
  <2>1. Agrees(requests, d, memory[d], committed[d], displayed[d])
    BY <1>1, <1>3, <1>7, <1>16 DEF MemoryFits
  <2>2. CASE d \in Group(c)
    BY <1>1, <1>3, <1>5, <1>6, <2>1, <2>2, AppendedKeeps
  <2>3. CASE d \notin Group(c)
    <3>1. d # c
      BY <2>3, GroupParts
    <3>2. memory'[d] = memory[d] /\ committed'[d] = committed[d] /\ displayed'[d] = displayed[d]
      BY <1>3, <1>14, <3>1
    <3>3. QED  BY <1>1, <1>5, <1>6, <2>1, <3>2, AppendedKeeps
  <2>4. QED  BY <2>2, <2>3
<1>17. ASSUME NEW d \in Controls \ (spoiled' \cup mixed')
       PROVE  Obeys(Append(requests, save), d, committed'[d], wished'[d])
  <2>1. Obeys(requests, d, committed[d], wished[d]) /\ committed' = committed
    BY <1>1, <1>3, <1>7 DEF WishesFit
  <2>2. CASE d \notin Group(c)
    <3>1. d # c
      BY <2>2, GroupParts
    <3>2. wished'[d] = wished[d]
      BY <1>14, <3>1
    <3>3. QED  BY <1>1, <1>5, <1>6, <2>1, <2>2, <3>2, AppendedKeeps
  <2>3. CASE d \in Group(c)
    <3>1. free /\ hydration = "done" /\ ~leaving /\ d \notin spoiled
      BY <1>7, <2>3
    <3>2. Free(requests, d)
      <4>1. Group(d) = Group(c)
        BY <2>3, GroupParts
      <4>2. QED  BY <1>1, <1>2, <3>1, <4>1, UnderWayFree
    <3>3. next[d] = wished'[d]
      <4>1. CASE d = c
        BY <1>15, <4>1
      <4>2. CASE d # c
        <5>1. Agrees(requests, d, memory[d], committed[d], displayed[d])
          BY <1>1, <3>1 DEF MemoryFits
        <5>2. memory[d] = committed[d] /\ committed[d] = wished[d]
          BY <2>1, <3>2, <5>1 DEF Agrees, Obeys
        <5>3. QED  BY <1>4, <1>14, <4>2, <5>2
      <4>3. QED  BY <4>1, <4>2
    <3>4. QED  BY <1>1, <1>5, <1>6, <2>3, <3>2, <3>3, AppendedKeeps
  <2>4. QED  BY <2>2, <2>3
<1>18. MemoryFits' /\ WishesFit'
  BY <1>12, <1>16, <1>17, ClaimsStay
<1>19. OffFits'
  <2>1. DOMAIN requests = 1 .. Len(requests) /\ Len(requests) \in Nat
    BY <1>1, SaveParts
  <2>2. /\ DOMAIN requests' = 1 .. Len(requests) + 1 /\ requests'[Len(requests) + 1] = save
        /\ \A i \in 1 .. Len(requests) : requests'[i] = requests[i]
    BY <1>1, <1>3, <1>6, <2>1, AppendProperties, LenProperties
  <2>3. \A i \in DOMAIN requests : i \in DOMAIN requests' /\ requests'[i] = requests[i]
    BY <2>1, <2>2
  <2>4. Len(requests) + 1 \in DOMAIN requests'
    BY <2>1, <2>2
  <2>5. QED  BY <1>1, <1>6, <1>7, <2>2, <2>3, <2>4 DEF OffFits
<1>20. SetsFit' /\ BoundsFit'
  BY <1>1, <1>3, <1>7 DEF SetsFit, BoundsFit, PrefConstants
<1>21. QED  BY <1>12, <1>13, <1>18, <1>19, <1>20 DEF PrefInv

\* A control of the page is changed.
LEMMA ChangeKeepsPrefs ==
    ASSUME PrefConstants, PrefInv, NEW cs \in SUBSET (Controls \ {"media"}), NEW disables \in BOOLEAN,
           Change(cs, disables)
    PROVE  PrefInv'
<1>1. PICK c \in cs : /\ Requested(c, ~displayed[c], FALSE)
                      /\ displayed' = [displayed EXCEPT ![c] = ~displayed[c]]
                      /\ off' = IF disables THEN off \cup {c} ELSE off
  BY DEF Change
<1> DEFINE value == ~displayed[c]
<1>2. value \in BOOLEAN /\ displayed' = [displayed EXCEPT ![c] = value] /\ Requested(c, value, FALSE)
  BY <1>1
<1> HIDE DEF value
<1>3. displayed' \in Settings /\ \A d \in Controls \ {c} : displayed'[d] = displayed[d]
  BY <1>2 DEF PrefInv, ValuesFit, Settings
<1>4. QED  BY <1>1, <1>2, <1>3, RequestedKeeps

LEMMA NoteKeeps ==
    ASSUME PrefConstants, PrefInv, Note
    PROVE  PrefInv'
<1>1. PICK c \in Fields : Requested(c, ~memory[c], TRUE)
  BY DEF Note
<1> DEFINE value == ~memory[c]
<1>2. value \in BOOLEAN /\ Requested(c, value, TRUE) /\ UNCHANGED <<displayed, off>>
  BY <1>1 DEF Note, form
<1> HIDE DEF value
<1>3. c \in Controls \ {"media"}
  BY DEF Controls, PrefConstants, Single
<1>4. displayed' \in Settings
  BY <1>2 DEF PrefInv, ValuesFit
<1>5. QED  BY <1>2, <1>3, <1>4, RequestedKeeps

LEMMA ChangesKeep ==
    ASSUME PrefConstants, PrefInv,
           ChangeField \/ ChangeBox \/ ChangeLimit \/ ChangeCount \/ ChangeClose \/ ChangeStart
    PROVE  PrefInv'
<1>1. /\ Fields \subseteq Controls \ {"media"} /\ Boxes \subseteq Controls \ {"media"}
      /\ {"limit", "concurrency", "close", "startup"} \subseteq Controls \ {"media"}
  BY DEF Controls, Single, PrefConstants
<1>2. QED
  BY <1>1, ChangeKeepsPrefs
     DEF ChangeField, ChangeBox, ChangeLimit, ChangeCount, ChangeClose, ChangeStart

\* The parts of the invariant, for the list as it is.
LEMMA PrefParts ==
    ASSUME PrefInv
    PROVE  /\ ValuesFit /\ SetsFit /\ BoundsFit /\ QueueFits /\ OffFits /\ MemoryFits /\ WishesFit
           /\ requests \in Seq(Saving) /\ ChainWaits(requests)
           /\ OverlapsNoted(requests, spoiled, mixed) /\ RefusalsNoted(requests, spoiled)
BY DEF PrefInv, QueueFits

LEMMA DrawAgainKeeps ==
    ASSUME PrefConstants, PrefInv, DrawAgain
    PROVE  PrefInv'
<1>1. /\ memory' = memory /\ Draws(requests)
      /\ UNCHANGED <<committed, hydration, read, leaving, wished, spoiled, mixed, changes, refusals>>
  BY DEF DrawAgain, history
<1>2. /\ hydration' = "done" /\ ~leaving' =>
             \A c \in Controls \ spoiled' : Agrees(requests, c, memory'[c], committed'[c], memory'[c])
      /\ \A c \in Controls \ (spoiled' \cup mixed') : Obeys(requests, c, committed'[c], wished'[c])
  BY <1>1, PrefParts DEF MemoryFits, WishesFit, Agrees
<1>3. memory' \in Settings /\ OverlapsNoted(requests, spoiled', mixed') /\ RefusalsNoted(requests, spoiled')
  BY <1>1, PrefParts DEF ValuesFit
<1>4. QueueFits' /\ OffFits' /\ MemoryFits' /\ WishesFit' /\ displayed' \in Settings /\ off' \subseteq Controls
  BY <1>1, <1>2, <1>3, PrefParts, DrawnFits
<1>5. ValuesFit' /\ SetsFit' /\ BoundsFit'
  BY <1>1, <1>3, <1>4, PrefParts DEF ValuesFit, SetsFit, BoundsFit
<1>6. QED  BY <1>4, <1>5 DEF PrefInv

\* No save is one of the media preferences.
LEMMA MediaIsFree ==
    ASSUME PrefConstants, NEW list \in Seq(Saving)
    PROVE  Free(list, "media")
<1>1. "media" \in Controls /\ Group("media") = {"media"}
  BY GroupParts DEF Controls, Single
<1>2. \A i \in DOMAIN list : list[i].of \in Controls \ {"media"}
  BY SaveParts
<1>3. QED  BY <1>1, <1>2, GroupParts DEF Free

LEMMA MediaKeeps ==
    ASSUME PrefConstants, PrefInv, Media
    PROVE  PrefInv'
<1> DEFINE value == ~memory["media"]
<1>1. /\ changes < MaxChanges /\ changes' = changes + 1
      /\ memory' = [memory EXCEPT !["media"] = value]
      /\ committed' = [committed EXCEPT !["media"] = memory'["media"]]
      /\ wished' = [wished EXCEPT !["media"] = memory'["media"]]
      /\ Draws(requests) /\ UNCHANGED <<hydration, read, leaving, spoiled, mixed, refusals>>
  BY DEF Media
<1>2. value \in BOOLEAN /\ "media" \in Controls
  BY DEF Controls, Single
<1> HIDE DEF value
<1>3. /\ memory' \in Settings /\ memory'["media"] = value
      /\ \A c \in Controls \ {"media"} : memory'[c] = memory[c]
  BY <1>1, <1>2, PrefParts DEF ValuesFit, Settings
<1>4. /\ committed' \in Settings /\ wished' \in Settings
      /\ committed'["media"] = value /\ wished'["media"] = value
      /\ \A c \in Controls \ {"media"} : committed'[c] = committed[c] /\ wished'[c] = wished[c]
  BY <1>1, <1>2, <1>3, PrefParts DEF ValuesFit, Settings
<1>5. Free(requests, "media")
  BY PrefParts, MediaIsFree
<1>6. ASSUME hydration' = "done", ~leaving', NEW c \in Controls \ spoiled'
      PROVE  Agrees(requests, c, memory'[c], committed'[c], memory'[c])
  <2>1. CASE c = "media"
    BY <1>3, <1>4, <1>5, <2>1 DEF Agrees, Free
  <2>2. CASE c # "media"
    BY <1>1, <1>3, <1>4, <1>6, <2>2, PrefParts DEF MemoryFits, Agrees
  <2>3. QED  BY <2>1, <2>2
<1>7. ASSUME NEW c \in Controls \ (spoiled' \cup mixed')
      PROVE  Obeys(requests, c, committed'[c], wished'[c])
  <2>1. CASE c = "media"
    BY <1>4, <1>5, <2>1 DEF Obeys, Free
  <2>2. CASE c # "media"
    BY <1>1, <1>4, <2>2, PrefParts DEF WishesFit
  <2>3. QED  BY <2>1, <2>2
<1>8. OverlapsNoted(requests, spoiled', mixed') /\ RefusalsNoted(requests, spoiled')
  BY <1>1, PrefParts
<1>9. QueueFits' /\ OffFits' /\ MemoryFits' /\ WishesFit' /\ displayed' \in Settings /\ off' \subseteq Controls
  BY <1>1, <1>3, <1>6, <1>7, <1>8, PrefParts, DrawnFits
<1>10. ValuesFit' /\ SetsFit' /\ BoundsFit'
  BY <1>1, <1>3, <1>4, <1>9, PrefParts DEF ValuesFit, SetsFit, BoundsFit, PrefConstants
<1>11. QED  BY <1>9, <1>10 DEF PrefInv

-----------------------------------------------------------------------------
(* The application executes a save                                         *)

\* A save that was sent is the only one of its settings that is not waiting, unless
\* that is noted.
LEMMA SentAlone ==
    ASSUME PrefConstants, PrefInv, NEW i \in DOMAIN requests, requests[i].state # "queued",
           NEW c \in Group(requests[i].of) \ spoiled, NEW j \in DOMAIN requests \ {i}, c \in Group(requests[j].of)
    PROVE  requests[j].state = "queued" /\ c \in mixed
<1>1. /\ requests[i].of \in Controls /\ requests[j].of \in Controls /\ i \in Int /\ j \in Int
      /\ ChainWaits(requests) /\ OverlapsNoted(requests, spoiled, mixed)
  BY PrefParts, SaveParts
<1>2. /\ Group(requests[j].of) = Group(requests[i].of) /\ requests[j].of \in Group(requests[i].of)
      /\ (requests[j].of \in Fields <=> requests[i].of \in Fields)
  BY <1>1, GroupParts
<1>3. Group(requests[i].of) \subseteq spoiled \cup mixed /\ requests[i].of \in Fields
  BY <1>1, <1>2 DEF OverlapsNoted
<1>4. i < j
  BY <1>1, <1>2, <1>3 DEF ChainWaits
<1>5. QED  BY <1>1, <1>2, <1>3, <1>4 DEF ChainWaits

LEMMA SettingExecuteKeeps ==
    ASSUME PrefConstants, PrefInv, Execute
    PROVE  PrefInv'
<1>1. PICK i \in DOMAIN requests :
        /\ requests[i].state = "sent"
        /\ \/ /\ committed' = Over(Group(requests[i].of), requests[i].next, committed)
              /\ requests' = [requests EXCEPT ![i].state = "saved"]
              /\ UNCHANGED <<spoiled, refusals>>
           \/ /\ refusals < MaxRefusals /\ refusals' = refusals + 1
              /\ requests' = [requests EXCEPT ![i].state = "failed"]
              /\ spoiled' = spoiled \cup Group(requests[i].of) /\ UNCHANGED committed
  BY DEF Execute
<1>2. UNCHANGED <<memory, displayed, off, hydration, read, leaving, wished, mixed, changes>>
  BY DEF Execute, form
<1>3. requests[i] \in Saving /\ requests[i].of \in Controls /\ requests[i].next \in Settings
      /\ Group(requests[i].of) \subseteq Controls
  BY PrefParts, SaveParts, GroupParts
<1> DEFINE G == Group(requests[i].of)
<1>4. PICK s \in {"saved", "failed"} :
        /\ requests' = [requests EXCEPT ![i].state = s]
        /\ s = "saved" => committed' = Over(G, requests[i].next, committed) /\ UNCHANGED <<spoiled, refusals>>
        /\ s = "failed" => /\ refusals < MaxRefusals /\ refusals' = refusals + 1
                           /\ spoiled' = spoiled \cup G /\ UNCHANGED committed
  BY <1>1
<1>5. /\ requests' \in Seq(Saving) /\ DOMAIN requests' = DOMAIN requests
      /\ requests'[i].of = requests[i].of /\ requests'[i].next = requests[i].next
      /\ requests'[i].attached = requests[i].attached /\ requests'[i].state = s
      /\ \A j \in DOMAIN requests \ {i} : requests'[j] = requests[j]
  <2>1. [requests[i] EXCEPT !.state = s] \in Saving
    BY <1>3 DEF Saving
  <2>2. /\ [requests[i] EXCEPT !.state = s].of = requests[i].of
        /\ [requests[i] EXCEPT !.state = s].next = requests[i].next
        /\ [requests[i] EXCEPT !.state = s].state = s
    BY <1>3 DEF Saving
  <2>3. [requests[i] EXCEPT !.state = s].attached = requests[i].attached
    BY <1>3 DEF Saving
  <2>4. requests \in Seq(Saving) /\ DOMAIN requests = 1 .. Len(requests) /\ Len(requests) \in Nat
    BY PrefParts, SaveParts
  <2>5. requests' = [requests EXCEPT ![i] = [requests[i] EXCEPT !.state = s]]
    BY <1>4
  <2> DEFINE save == [requests[i] EXCEPT !.state = s]
  <2> HIDE DEF save, Saving
  <2>6. save \in Saving /\ requests' = [requests EXCEPT ![i] = save]
    BY <2>1, <2>5 DEF save
  <2>7. requests' \in Seq(Saving) /\ DOMAIN requests' = DOMAIN requests /\ requests'[i] = save
        /\ \A j \in DOMAIN requests \ {i} : requests'[j] = requests[j]
    BY <2>4, <2>6, ExceptSeq, LenProperties
  <2>8. QED  BY <2>2, <2>3, <2>7 DEF save
<1>6. \A j \in DOMAIN requests : /\ requests'[j].of = requests[j].of /\ requests'[j].next = requests[j].next
                                 /\ requests'[j].attached = requests[j].attached
  BY <1>5
<1>7. spoiled \subseteq spoiled' /\ spoiled' \subseteq Controls
  BY <1>3, <1>4, PrefParts DEF SetsFit
<1>8. QueueFits'
  <2>1. ChainWaits(requests)'
    <3>1. ChainWaits(requests) /\ requests[i].state = "sent"
      BY <1>1, PrefParts
    <3>2. QED  BY <1>5, <1>6, <3>1 DEF ChainWaits
  <2>2. OverlapsNoted(requests, spoiled, mixed)'
    BY <1>2, <1>5, <1>6, <1>7, PrefParts DEF OverlapsNoted
  <2>3. RefusalsNoted(requests, spoiled)'
    BY <1>4, <1>5, <1>7, PrefParts DEF RefusalsNoted
  <2>4. QED  BY <1>5, <2>1, <2>2, <2>3 DEF QueueFits
<1>9. OffFits'
  BY <1>2, <1>5, <1>6, <1>7, PrefParts DEF OffFits
<1>10. \A c \in Controls : committed'[c] = IF c \in G /\ s = "saved" THEN requests[i].next[c] ELSE committed[c]
  BY <1>4 DEF Over
<1>11. committed' \in Settings
  BY <1>3, <1>4, PrefParts DEF Over, Settings, ValuesFit
<1>12. ASSUME hydration' = "done", ~leaving', NEW c \in Controls \ spoiled'
       PROVE  Agrees(requests', c, memory'[c], committed'[c], displayed'[c])
  <2>1. Agrees(requests, c, memory[c], committed[c], displayed[c])
    BY <1>2, <1>7, <1>12, PrefParts DEF MemoryFits
  <2>2. CASE c \notin G
    <3>1. committed'[c] = committed[c] /\ memory'[c] = memory[c] /\ displayed'[c] = displayed[c]
      BY <1>2, <1>10, <2>2
    <3>2. QED  BY <1>5, <1>6, <2>1, <2>2, <3>1 DEF Agrees, Free
  <2>3. CASE c \in G
    <3>1. s = "saved" /\ c \notin spoiled
      BY <1>4, <1>7, <1>12, <2>3
    <3>2. committed'[c] = requests[i].next[c]
      BY <1>10, <2>3, <3>1
    <3>3. \A j \in DOMAIN requests \ {i} : c \in Group(requests[j].of) => requests[j].state = "queued"
      BY <1>1, <2>3, <3>1, SentAlone
    <3>4. QED  BY <1>5, <1>6, <2>3, <3>1, <3>2, <3>3 DEF Agrees, Free
  <2>4. QED  BY <2>2, <2>3
<1>13. ASSUME NEW c \in Controls \ (spoiled' \cup mixed')
       PROVE  Obeys(requests', c, committed'[c], wished'[c])
  <2>1. Obeys(requests, c, committed[c], wished[c]) /\ wished' = wished /\ c \notin mixed /\ c \notin spoiled
    BY <1>2, <1>7, <1>13, PrefParts DEF WishesFit
  <2>2. CASE c \notin G
    <3>1. committed'[c] = committed[c]
      BY <1>10, <2>2
    <3>2. QED  BY <1>5, <1>6, <2>1, <2>2, <3>1 DEF Obeys, Free
  <2>3. CASE c \in G
    <3>1. s = "saved"
      BY <1>4, <1>13, <2>3
    <3>2. committed'[c] = requests[i].next[c] /\ requests[i].next[c] = wished[c]
      BY <1>10, <2>1, <2>3, <3>1 DEF Obeys
    <3>3. \A j \in DOMAIN requests \ {i} : c \notin Group(requests[j].of)
      BY <1>1, <2>1, <2>3, SentAlone
    <3>4. QED  BY <1>5, <1>6, <2>1, <2>3, <3>2, <3>3 DEF Obeys, Free
  <2>4. QED  BY <2>2, <2>3
<1>14. MemoryFits' /\ WishesFit'
  <2>1. Like(requests', requests')
    BY DEF Like
  <2>2. QED  BY <1>12, <1>13, <2>1, ClaimsStay
<1>15. ValuesFit' /\ SetsFit' /\ BoundsFit'
  BY <1>2, <1>4, <1>7, <1>11, PrefParts DEF ValuesFit, SetsFit, BoundsFit, PrefConstants
<1>16. QED  BY <1>8, <1>9, <1>14, <1>15 DEF PrefInv

-----------------------------------------------------------------------------
(* An answer comes                                                         *)

\* What every answer does: its save leaves the list, and the memory has what was saved.
LEMMA SettingAnsweredKeeps ==
    ASSUME PrefConstants, PrefInv, NEW i \in DOMAIN requests, requests[i].state \in {"saved", "failed"},
           UNCHANGED <<committed, hydration, leaving, wished, spoiled, mixed>>,
           \A c \in Controls \ Group(requests[i].of) : memory'[c] = memory[c],
           requests[i].state = "saved" =>
               \A c \in Group(requests[i].of) : memory'[c] = requests[i].next[c]
    PROVE  /\ RemoveAt(requests, i) \in Seq(Saving) /\ ChainWaits(RemoveAt(requests, i))
           /\ OverlapsNoted(RemoveAt(requests, i), spoiled', mixed')
           /\ RefusalsNoted(RemoveAt(requests, i), spoiled')
           /\ hydration' = "done" /\ ~leaving' =>
                \A c \in Controls \ spoiled' : \A s :
                    /\ c \notin Group(requests[i].of) => s = displayed[c] \/ s = memory'[c]
                    /\ c \in Group(requests[i].of) => c = "close" \/ s = memory'[c]
                    => Agrees(RemoveAt(requests, i), c, memory'[c], committed'[c], s)
           /\ \A c \in Controls \ (spoiled' \cup mixed') :
                Obeys(RemoveAt(requests, i), c, committed'[c], wished'[c])
<1> DEFINE rest == RemoveAt(requests, i)
           G    == Group(requests[i].of)
<1>1. /\ requests \in Seq(Saving) /\ ChainWaits(requests)
      /\ OverlapsNoted(requests, spoiled, mixed) /\ RefusalsNoted(requests, spoiled)
  BY PrefParts
<1>2. /\ rest \in Seq(Saving) /\ ChainWaits(rest)
      /\ OverlapsNoted(rest, spoiled', mixed') /\ RefusalsNoted(rest, spoiled')
  BY <1>1, SaveRemovedKeeps
<1>3. /\ \A k \in DOMAIN rest : \E j \in DOMAIN requests \ {i} : rest[k] = requests[j]
      /\ \A c, m, k, s : c \notin G /\ Agrees(requests, c, m, k, s) => Agrees(rest, c, m, k, s)
      /\ \A c, k, w : c \notin G /\ Obeys(requests, c, k, w) => Obeys(rest, c, k, w)
  BY <1>1, SaveRemovedKeeps
<1>4. ASSUME NEW c \in G \ spoiled
      PROVE  /\ requests[i].state = "saved" /\ memory'[c] = requests[i].next[c]
             /\ \A k \in DOMAIN rest : c \in Group(rest[k].of) => rest[k].state = "queued" /\ c \in mixed
  <2>1. requests[i].state = "saved"
    BY <1>1, <1>4 DEF RefusalsNoted
  <2>2. \A j \in DOMAIN requests \ {i} : c \in Group(requests[j].of) => requests[j].state = "queued" /\ c \in mixed
    BY <2>1, SentAlone
  <2>3. QED  BY <1>3, <2>1, <2>2
<1> HIDE DEF rest
<1>5. ASSUME hydration' = "done", ~leaving', NEW c \in Controls \ spoiled', NEW s,
             c \notin G => s = displayed[c] \/ s = memory'[c],
             c \in G => c = "close" \/ s = memory'[c]
      PROVE  Agrees(rest, c, memory'[c], committed'[c], s)
  <2>1. Agrees(requests, c, memory[c], committed[c], displayed[c])
    BY <1>5, PrefParts DEF MemoryFits
  <2>2. CASE c \notin G
    <3>1. memory'[c] = memory[c] /\ committed'[c] = committed[c]
      BY <2>2
    <3>2. Agrees(requests, c, memory'[c], committed'[c], s)
      BY <1>5, <2>1, <2>2, <3>1 DEF Agrees
    <3>3. QED  BY <1>3, <2>2, <3>2
  <2>3. CASE c \in G
    <3>1. /\ requests[i].state = "saved" /\ memory'[c] = requests[i].next[c]
          /\ \A k \in DOMAIN rest : c \in Group(rest[k].of) => rest[k].state = "queued"
      BY <1>4, <1>5, <2>3
    <3>2. committed'[c] = requests[i].next[c]
      BY <2>1, <2>3, <3>1 DEF Agrees
    <3>3. QED  BY <1>5, <2>3, <3>1, <3>2 DEF Agrees
  <2>4. QED  BY <2>2, <2>3
<1>6. ASSUME NEW c \in Controls \ (spoiled' \cup mixed')
      PROVE  Obeys(rest, c, committed'[c], wished'[c])
  <2>1. Obeys(requests, c, committed[c], wished[c])
    BY <1>6, PrefParts DEF WishesFit
  <2>2. CASE c \notin G
    BY <1>3, <2>1, <2>2
  <2>3. CASE c \in G
    <3>1. requests[i].state = "saved" /\ \A k \in DOMAIN rest : c \notin Group(rest[k].of)
      BY <1>4, <1>6, <2>3
    <3>2. committed[c] = wished[c]
      BY <2>1, <2>3, <3>1 DEF Obeys
    <3>3. QED  BY <3>1, <3>2 DEF Obeys
  <2>4. QED  BY <2>2, <2>3
<1>7. QED  BY <1>2, <1>5, <1>6 DEF rest

\* An answer that draws the page.
LEMMA DrawnAnswerKeeps ==
    ASSUME PrefConstants, PrefInv, NEW i \in DOMAIN requests, requests[i].state \in {"saved", "failed"},
           UNCHANGED <<committed, hydration, read, leaving, wished, spoiled, mixed, changes, refusals>>,
           memory' \in Settings, \A c \in Controls \ Group(requests[i].of) : memory'[c] = memory[c],
           requests[i].state = "saved" =>
               \A c \in Group(requests[i].of) : memory'[c] = requests[i].next[c],
           Draws(RemoveAt(requests, i)) \/ Draws(Released(RemoveAt(requests, i)))
    PROVE  PrefInv'
<1> DEFINE rest == RemoveAt(requests, i)
<1>1. /\ rest \in Seq(Saving) /\ ChainWaits(rest)
      /\ OverlapsNoted(rest, spoiled', mixed') /\ RefusalsNoted(rest, spoiled')
      /\ hydration' = "done" /\ ~leaving' =>
             \A c \in Controls \ spoiled' : Agrees(rest, c, memory'[c], committed'[c], memory'[c])
      /\ \A c \in Controls \ (spoiled' \cup mixed') : Obeys(rest, c, committed'[c], wished'[c])
  BY SettingAnsweredKeeps
<1> HIDE DEF rest
<1>2. PICK list : /\ list \in Seq(Saving) /\ ChainWaits(list) /\ Draws(list)
                  /\ OverlapsNoted(list, spoiled', mixed') /\ RefusalsNoted(list, spoiled')
                  /\ hydration' = "done" /\ ~leaving' =>
                       \A c \in Controls \ spoiled' : Agrees(list, c, memory'[c], committed'[c], memory'[c])
                  /\ \A c \in Controls \ (spoiled' \cup mixed') : Obeys(list, c, committed'[c], wished'[c])
  <2>1. CASE Draws(rest)
    BY <1>1, <2>1
  <2>2. CASE Draws(Released(rest))
    <3>1. /\ Released(rest) \in Seq(Saving) /\ ChainWaits(Released(rest))
          /\ OverlapsNoted(Released(rest), spoiled', mixed') /\ RefusalsNoted(Released(rest), spoiled')
      BY <1>1, ReleasedKeeps
    <3>2. /\ \A c, m, k, s : Agrees(rest, c, m, k, s) => Agrees(Released(rest), c, m, k, s)
          /\ \A c, k, w : Obeys(rest, c, k, w) => Obeys(Released(rest), c, k, w)
      BY <1>1, ReleasedKeeps
    <3>3. QED  BY <1>1, <2>2, <3>1, <3>2
  <2>3. QED  BY <2>1, <2>2 DEF rest
<1>3. QueueFits' /\ OffFits' /\ MemoryFits' /\ WishesFit' /\ displayed' \in Settings /\ off' \subseteq Controls
  BY <1>2, DrawnFits
<1>4. ValuesFit' /\ SetsFit' /\ BoundsFit'
  BY <1>3, PrefParts DEF ValuesFit, SetsFit, BoundsFit
<1>5. QED  BY <1>3, <1>4 DEF PrefInv

LEMMA OverParts ==
    ASSUME NEW group \in SUBSET Controls, NEW new \in Settings, NEW old \in Settings
    PROVE  /\ Over(group, new, old) \in Settings
           /\ \A c \in group : Over(group, new, old)[c] = new[c]
           /\ \A c \in Controls \ group : Over(group, new, old)[c] = old[c]
BY DEF Over, Settings

\* The limit, refused: its control stays as it is, and is noted.
LEMMA RefusedLimitKeeps ==
    ASSUME PrefConstants, PrefInv, NEW i \in DOMAIN requests, requests[i].state = "failed",
           requests[i].of = "limit", UNCHANGED memory, Keeps(RemoveAt(requests, i)),
           UNCHANGED <<committed, hydration, read, leaving, wished, spoiled, mixed, changes, refusals>>
    PROVE  PrefInv'
<1> DEFINE rest == RemoveAt(requests, i)
<1>1. /\ rest \in Seq(Saving) /\ ChainWaits(rest)
      /\ OverlapsNoted(rest, spoiled', mixed') /\ RefusalsNoted(rest, spoiled')
      /\ hydration' = "done" /\ ~leaving' =>
             \A c \in Controls \ spoiled' : \A s :
                 /\ c \notin Group(requests[i].of) => s = displayed[c] \/ s = memory'[c]
                 /\ c \in Group(requests[i].of) => c = "close" \/ s = memory'[c]
                 => Agrees(rest, c, memory'[c], committed'[c], s)
      /\ \A c \in Controls \ (spoiled' \cup mixed') : Obeys(rest, c, committed'[c], wished'[c])
  BY SettingAnsweredKeeps
<1>2. "limit" \in Controls /\ Group("limit") = {"limit"} /\ "limit" \in spoiled
  <2>1. "limit" \in Controls /\ Group("limit") = {"limit"}
    BY GroupParts DEF Controls, Single
  <2>2. QED  BY <2>1, PrefParts DEF RefusalsNoted
<1>3. displayed' = displayed /\ off' = off /\ requests' = rest
  BY DEF Keeps, form
<1>4. \A j \in DOMAIN requests \ {i} : \E k \in DOMAIN rest : rest[k] = requests[j]
  BY PrefParts, SaveRemovedKeeps
<1> HIDE DEF rest
<1>5. QueueFits' /\ Like(requests', rest)
  BY <1>1, <1>3, QueueStays
<1>6. MemoryFits' /\ WishesFit'
  <2>1. hydration' = "done" /\ ~leaving' =>
           \A c \in Controls \ spoiled' : Agrees(rest, c, memory'[c], committed'[c], displayed'[c])
    BY <1>1, <1>2, <1>3
  <2>2. QED  BY <1>1, <1>5, <2>1, ClaimsStay
<1>7. OffFits'
  BY <1>2, <1>3, <1>4, PrefParts DEF OffFits
<1>8. ValuesFit' /\ SetsFit' /\ BoundsFit'
  BY <1>3, PrefParts DEF ValuesFit, SetsFit, BoundsFit
<1>9. QED  BY <1>5, <1>6, <1>7, <1>8 DEF PrefInv

\* The close action: its control may be left showing what was refused.
LEMMA CloseAnswerKeeps ==
    ASSUME PrefConstants, PrefInv, NEW i \in DOMAIN requests, requests[i].state \in {"saved", "failed"},
           requests[i].of = "close", CloseAnswered(requests[i], RemoveAt(requests, i)),
           UNCHANGED <<committed, hydration, read, leaving, wished, spoiled, mixed, changes, refusals>>
    PROVE  PrefInv'
<1> DEFINE rest == RemoveAt(requests, i)
           r    == requests[i]
<1>1. "close" \in Controls /\ Group("close") = {"close"} /\ r.next \in Settings
  <2>1. "close" \in Controls /\ Group("close") = {"close"}
    BY GroupParts DEF Controls, Single
  <2>2. QED  BY <2>1, PrefParts, SaveParts
<1>2. /\ memory' = IF r.state = "saved" THEN Over({"close"}, r.next, memory) ELSE memory
      /\ displayed' = IF r.attached /\ r.state = "failed"
                      THEN [displayed EXCEPT !["close"] = memory["close"]] ELSE displayed
      /\ off' = IF r.attached THEN off \ {"close"} ELSE off
      /\ requests' = rest
  BY <1>1 DEF CloseAnswered, Over1
<1>3. /\ memory' \in Settings /\ \A c \in Controls \ {"close"} : memory'[c] = memory[c]
      /\ r.state = "saved" => memory'["close"] = r.next["close"]
  <2>1. memory \in Settings /\ {"close"} \in SUBSET Controls
    BY <1>1, PrefParts DEF ValuesFit
  <2> DEFINE after == Over({"close"}, r.next, memory)
  <2>2. /\ after \in Settings /\ \A c \in Controls \ {"close"} : after[c] = memory[c]
        /\ after["close"] = r.next["close"]
    BY <1>1, <2>1, OverParts
  <2>3. memory' = IF r.state = "saved" THEN after ELSE memory
    BY <1>2
  <2> HIDE DEF after
  <2>4. QED  BY <2>1, <2>2, <2>3
<1>4. displayed' \in Settings /\ \A c \in Controls \ {"close"} : displayed'[c] = displayed[c]
  BY <1>1, <1>2, PrefParts DEF ValuesFit, Settings
<1>5. /\ rest \in Seq(Saving) /\ ChainWaits(rest)
      /\ OverlapsNoted(rest, spoiled', mixed') /\ RefusalsNoted(rest, spoiled')
      /\ hydration' = "done" /\ ~leaving' =>
             \A c \in Controls \ spoiled' : \A s :
                 /\ c \notin {"close"} => s = displayed[c] \/ s = memory'[c]
                 /\ c \in {"close"} => c = "close" \/ s = memory'[c]
                 => Agrees(rest, c, memory'[c], committed'[c], s)
      /\ \A c \in Controls \ (spoiled' \cup mixed') : Obeys(rest, c, committed'[c], wished'[c])
  BY <1>1, <1>3, SettingAnsweredKeeps
<1>6. \A j \in DOMAIN requests \ {i} : \E k \in DOMAIN rest : rest[k] = requests[j]
  BY PrefParts, SaveRemovedKeeps
<1> HIDE DEF rest
<1>7. QueueFits' /\ Like(requests', rest)
  BY <1>2, <1>5, QueueStays
<1>8. MemoryFits' /\ WishesFit'
  <2>1. hydration' = "done" /\ ~leaving' =>
           \A c \in Controls \ spoiled' : Agrees(rest, c, memory'[c], committed'[c], displayed'[c])
    BY <1>4, <1>5
  <2>2. QED  BY <1>5, <1>7, <2>1, ClaimsStay
<1>9. OffFits'
  <2>1. SUFFICES ASSUME NEW c \in off'
                 PROVE  c \in spoiled \/ \E k \in DOMAIN rest : rest[k].of = c /\ rest[k].attached
    BY <1>2 DEF OffFits
  <2>2. c \in off /\ (r.attached => c # "close")
    BY <1>2, <2>1
  <2>3. CASE c \in spoiled
    BY <2>3
  <2>4. CASE \E j \in DOMAIN requests : requests[j].of = c /\ requests[j].attached
    <3>1. PICK j \in DOMAIN requests : requests[j].of = c /\ requests[j].attached
      BY <2>4
    <3>2. j # i
      BY <2>2, <3>1
    <3>3. QED  BY <1>6, <3>1, <3>2
  <2>5. QED  BY <2>2, <2>3, <2>4, PrefParts DEF OffFits
<1>10. ValuesFit' /\ SetsFit' /\ BoundsFit'
  BY <1>2, <1>3, <1>4, PrefParts DEF ValuesFit, SetsFit, BoundsFit
<1>11. QED  BY <1>7, <1>8, <1>9, <1>10 DEF PrefInv

LEMMA RepliedKeeps ==
    ASSUME PrefConstants, PrefInv, Replied
    PROVE  PrefInv'
<1>1. PICK i \in DOMAIN requests :
        LET r == requests[i]  rest == RemoveAt(requests, i)
        IN /\ r.state \in {"saved", "failed"}
           /\ CASE r.of \in Fields        -> FieldAnswered(r, rest)
                [] r.of \in Boxes         -> BoxAnswered(r, rest)
                [] r.of = "limit"         -> LimitAnswered(r, rest)
                [] r.of = "concurrency"   -> CountAnswered(r, rest)
                [] r.of = "close"         -> CloseAnswered(r, rest)
                [] r.of = "startup"       -> StartAnswered(r, rest)
  BY DEF Replied
<1> DEFINE r == requests[i]
           rest == RemoveAt(requests, i)
<1>2. UNCHANGED <<committed, hydration, read, leaving, wished, spoiled, mixed, changes, refusals>>
  BY DEF Replied, history
<1>3. /\ r.of \in Controls /\ r.of # "media" /\ r.next \in Settings /\ r.previous \in Settings
      /\ r.state \in {"saved", "failed"}
      /\ Group(r.of) \subseteq Controls /\ (r.of \in Boxes => Group(r.of) = Boxes)
      /\ memory \in Settings
  BY <1>1, PrefParts, SaveParts, GroupParts DEF ValuesFit
<1>4. /\ r.of \in Fields => r.of \notin Boxes /\ r.of \notin Single
      /\ r.of \in Boxes => r.of \notin Single
      /\ r.of \in Fields \cup Boxes \cup {"limit", "concurrency", "close", "startup"}
  BY <1>3 DEF Controls, PrefConstants, Single
<1>5. ASSUME memory' = Over(Group(r.of), r.next, memory) \/ (memory' = memory /\ r.state = "failed")
             \/ (memory' = Over(Group(r.of), r.previous, memory) /\ r.state = "failed"),
             Draws(rest) \/ Draws(Released(rest))
      PROVE  PrefInv'
  <2> DEFINE G      == Group(r.of)
             after  == Over(G, r.next, memory)
             before == Over(G, r.previous, memory)
  <2>1. /\ after \in Settings /\ before \in Settings /\ \A c \in G : after[c] = r.next[c]
        /\ \A c \in Controls \ G : after[c] = memory[c] /\ before[c] = memory[c]
    <3>1. G \in SUBSET Controls /\ r.next \in Settings /\ r.previous \in Settings /\ memory \in Settings
      BY <1>3
    <3> HIDE DEF r, G
    <3>2. /\ after \in Settings /\ \A c \in G : after[c] = r.next[c]
          /\ \A c \in Controls \ G : after[c] = memory[c]
      BY <3>1, OverParts
    <3>3. before \in Settings /\ \A c \in Controls \ G : before[c] = memory[c]
      BY <3>1, OverParts
    <3>4. QED  BY <3>2, <3>3
  <2>2. /\ memory' \in Settings /\ \A c \in Controls \ Group(r.of) : memory'[c] = memory[c]
        /\ r.state = "saved" => \A c \in Group(r.of) : memory'[c] = r.next[c]
    BY <1>3, <1>5, <2>1
  <2>3. QED  BY <1>2, <1>3, <1>5, <2>2, DrawnAnswerKeeps
<1>6. CASE r.of \in Fields
  <2>1. FieldAnswered(r, rest)
    BY <1>1, <1>4, <1>6 DEF Single
  <2>2. QED  BY <1>5, <2>1 DEF FieldAnswered, Over1
<1>7. CASE r.of \in Boxes
  <2>1. BoxAnswered(r, rest)
    BY <1>1, <1>4, <1>7 DEF Single
  <2>2. QED  BY <1>3, <1>5, <1>7, <2>1 DEF BoxAnswered
<1>8. CASE r.of = "limit"
  <2>1. LimitAnswered(r, rest)
    BY <1>1, <1>4, <1>8 DEF Single
  <2>2. CASE r.state = "saved" /\ Over1(r) /\ Draws(rest)
    BY <1>5, <2>2 DEF Over1
  <2>3. CASE r.state = "failed" /\ UNCHANGED memory /\ Keeps(rest)
    BY <1>2, <1>8, <2>3, RefusedLimitKeeps
  <2>4. QED  BY <2>1, <2>2, <2>3 DEF LimitAnswered
<1>9. CASE r.of = "concurrency"
  <2>1. CountAnswered(r, rest)
    BY <1>1, <1>4, <1>9 DEF Single
  <2>2. QED  BY <1>3, <1>5, <2>1 DEF CountAnswered, Over1
<1>10. CASE r.of = "close"
  <2>1. CloseAnswered(r, rest)
    BY <1>1, <1>4, <1>10 DEF Single
  <2>2. QED  BY <1>2, <1>3, <1>10, <2>1, CloseAnswerKeeps
<1>11. CASE r.of = "startup"
  <2>1. StartAnswered(r, rest)
    BY <1>1, <1>4, <1>11 DEF Single
  <2>2. QED  BY <1>3, <1>5, <2>1 DEF StartAnswered, Over1
<1>12. QED  BY <1>4, <1>6, <1>7, <1>8, <1>9, <1>10, <1>11

-----------------------------------------------------------------------------
(* The start and the reset                                                 *)

\* Memory is not in use before the first snapshot, nor while the page is left.
LEMMA ReadsKeeps ==
    ASSUME PrefConstants, PrefInv, Reads \/ Defer
    PROVE  PrefInv'
<1>1. /\ hydration' \in {"read", "late"} /\ read' \in {committed, read}
      /\ UNCHANGED <<memory, committed, displayed, off, requests, leaving, wished, spoiled, mixed,
                     changes, refusals>>
  BY DEF Reads, Defer, form, history
<1>2. ValuesFit' /\ SetsFit' /\ BoundsFit'
  BY <1>1, PrefParts DEF ValuesFit, SetsFit, BoundsFit
<1>3. QueueFits' /\ OffFits'
  BY <1>1, PrefParts DEF QueueFits, OffFits, ChainWaits, OverlapsNoted, RefusalsNoted
<1>4. MemoryFits' /\ WishesFit'
  BY <1>1, PrefParts DEF MemoryFits, WishesFit, Obeys, Free
<1>5. QED  BY <1>2, <1>3, <1>4 DEF PrefInv

\* What the first snapshot leaves of the list, and what is noted.
LEMMA MigrationKeeps ==
    ASSUME PrefConstants, PrefInv, NEW list \in {requests} \cup Migration, memory' \in Settings,
           UNCHANGED <<committed, wished, mixed>>, spoiled \subseteq spoiled',
           {c \in Controls : memory'[c] # committed[c]} \subseteq spoiled',
           UNION {Group(requests[i].of) : i \in DOMAIN requests} \subseteq spoiled', Hydrated(list)
    PROVE  /\ list \in Seq(Saving) /\ ChainWaits(list) /\ changes' \in 0 .. MaxChanges
           /\ OverlapsNoted(list, spoiled', mixed') /\ RefusalsNoted(list, spoiled')
           /\ \A c \in Controls \ spoiled' : \A s :
                (c # "close" => s = memory'[c]) => Agrees(list, c, memory'[c], committed'[c], s)
           /\ \A c \in Controls \ (spoiled' \cup mixed') : Obeys(list, c, committed'[c], wished'[c])
<1>1. /\ requests \in Seq(Saving) /\ ChainWaits(requests) /\ changes \in 0 .. MaxChanges
      /\ OverlapsNoted(requests, spoiled', mixed') /\ RefusalsNoted(requests, spoiled')
  BY PrefParts, NotedStays DEF BoundsFit
<1>2. \A i \in DOMAIN requests : Group(requests[i].of) \subseteq spoiled'
  OBVIOUS
<1>3. \A c \in Controls \ spoiled' : Free(requests, c) /\ memory'[c] = committed[c]
  BY <1>2 DEF Free
<1>4. \A c \in Controls \ spoiled' : \A s :
         (c # "close" => s = memory'[c]) => Agrees(requests, c, memory'[c], committed'[c], s)
  BY <1>3 DEF Agrees, Free
<1>5. \A c \in Controls \ (spoiled' \cup mixed') :
         Obeys(requests, c, committed'[c], wished'[c]) /\ committed[c] = wished[c]
  BY <1>3, PrefParts DEF WishesFit, Obeys
<1>6. Len(requests) \in Nat
  BY <1>1, SaveParts
<1>7. CASE list = requests
  <2>1. changes' \in 0 .. MaxChanges
    BY <1>1, <1>6, <1>7 DEF Hydrated, PrefConstants
  <2>2. QED  BY <1>1, <1>4, <1>5, <1>7, <2>1
<1>8. CASE list \in Migration
  <2> DEFINE f == CHOOSE field \in Fields : TRUE
             save == [of |-> f, next |-> memory', previous |-> memory', attached |-> TRUE,
                      state |-> IF UnderWay(Fields) = {} THEN "sent" ELSE "queued"]
  <2>1. Fields # {} /\ changes # MaxChanges /\ list = Append(requests, save)
    BY <1>8 DEF Migration
  <2>2. f \in Fields /\ f \in Controls \ {"media"} /\ Group(f) = Fields
    BY <2>1, GroupParts DEF Controls, PrefConstants, Single
  <2> HIDE DEF f
  <2>3. /\ save \in Saving /\ save.state \in {"queued", "sent"} /\ save.of = f /\ save.next = memory'
        /\ save.state = IF UnderWay(Fields) = {} THEN "sent" ELSE "queued"
    BY <2>2 DEF Saving
  <2>4. UnderWay(Fields) = {} <=> Free(requests, f)
    BY <1>1, <2>2, UnderWayFree
  <2> HIDE DEF save
  <2>5. list \in Seq(Saving) /\ ChainWaits(list) /\ RefusalsNoted(list, spoiled')
    BY <1>1, <2>1, <2>3, <2>4, AppendedKeeps
  <2>6. OverlapsNoted(list, spoiled', mixed')
    <3>1. ~Free(requests, f) => Fields \subseteq spoiled'
      <4>1. \A i \in DOMAIN requests : f \in Group(requests[i].of) => Group(requests[i].of) = Fields
        BY <1>1, <2>2, SaveParts, GroupParts
      <4>2. QED  BY <1>2, <4>1 DEF Free
    <3>2. ~Free(requests, save.of) => /\ Group(save.of) \subseteq spoiled' \cup mixed'
                                      /\ save.of \notin Fields => Group(save.of) \subseteq spoiled'
      BY <2>2, <2>3, <3>1
    <3>3. QED  BY <1>1, <2>1, <2>3, <3>2, AppendedKeeps
  <2>7. \A c \in Controls \ spoiled' : \A s :
           (c # "close" => s = memory'[c]) => Agrees(list, c, memory'[c], committed'[c], s)
    BY <1>1, <1>4, <2>1, <2>3, AppendedKeeps
  <2>8. \A c \in Controls \ (spoiled' \cup mixed') : Obeys(list, c, committed'[c], wished'[c])
    <3>1. TAKE c \in Controls \ (spoiled' \cup mixed')
    <3>2. Obeys(requests, c, committed'[c], wished'[c]) /\ save.next[c] = wished'[c]
      BY <1>3, <1>5, <2>3
    <3>3. QED  BY <1>1, <2>1, <2>3, <3>2, AppendedKeeps
  <2>9. changes' \in 0 .. MaxChanges
    <3>1. Len(list) = Len(requests) + 1
      BY <1>1, <2>1, <2>3, AppendProperties
    <3>2. QED  BY <1>1, <1>6, <2>1, <3>1 DEF Hydrated, PrefConstants
  <2>10. QED  BY <2>5, <2>6, <2>7, <2>8, <2>9
<1>9. QED  BY <1>7, <1>8

LEMMA HydrateKeeps ==
    ASSUME PrefConstants, PrefInv, Hydrate
    PROVE  PrefInv'
<1>1. /\ hydration' = "done" /\ read' = Defaults
      /\ memory' = [read EXCEPT !["media"] = memory["media"]]
      /\ spoiled' = spoiled \cup {c \in Controls : memory'[c] # committed[c]}
                            \cup UNION {Group(requests[i].of) : i \in DOMAIN requests}
      /\ UNCHANGED <<committed, leaving, wished, mixed, refusals>>
  BY DEF Hydrate
<1>2. PICK list \in {requests} \cup Migration : Hydrated(list) /\ Draws(list)
  BY DEF Hydrate
<1>3. memory' \in Settings /\ read' \in Settings
  BY <1>1, PrefParts DEF ValuesFit, Settings, Defaults, Controls, Single
<1>4. spoiled' \subseteq Controls
  BY <1>1, PrefParts, SaveParts, GroupParts DEF SetsFit
<1>5. /\ list \in Seq(Saving) /\ ChainWaits(list) /\ changes' \in 0 .. MaxChanges
      /\ OverlapsNoted(list, spoiled', mixed') /\ RefusalsNoted(list, spoiled')
      /\ \A c \in Controls \ spoiled' : Agrees(list, c, memory'[c], committed'[c], memory'[c])
      /\ \A c \in Controls \ (spoiled' \cup mixed') : Obeys(list, c, committed'[c], wished'[c])
  BY <1>1, <1>2, <1>3, MigrationKeeps
<1>6. QueueFits' /\ OffFits' /\ MemoryFits' /\ WishesFit' /\ displayed' \in Settings /\ off' \subseteq Controls
  BY <1>2, <1>3, <1>5, DrawnFits
<1>7. ValuesFit' /\ SetsFit' /\ BoundsFit'
  BY <1>1, <1>3, <1>4, <1>5, <1>6, PrefParts DEF ValuesFit, SetsFit, BoundsFit
<1>8. QED  BY <1>6, <1>7 DEF PrefInv

LEMMA HydrateLateKeeps ==
    ASSUME PrefConstants, PrefInv, HydrateLate
    PROVE  PrefInv'
<1>1. /\ hydration' = "done" /\ read' = Defaults
      /\ memory' = [read EXCEPT !["media"] = memory["media"]]
      /\ spoiled' = spoiled
                      \cup {c \in Controls : memory'[c] # committed[c] \/ displayed[c] # memory'[c]}
                            \cup UNION {Group(requests[i].of) : i \in DOMAIN requests}
      /\ UNCHANGED <<committed, leaving, wished, mixed, refusals>>
  BY DEF HydrateLate
<1>2. PICK list \in {requests} \cup Migration : Hydrated(list) /\ Keeps(list)
  BY DEF HydrateLate
<1>3. memory' \in Settings /\ read' \in Settings
  BY <1>1, PrefParts DEF ValuesFit, Settings, Defaults, Controls, Single
<1>4. spoiled' \subseteq Controls
  BY <1>1, PrefParts, SaveParts, GroupParts DEF SetsFit
<1>5. /\ list \in Seq(Saving) /\ ChainWaits(list) /\ changes' \in 0 .. MaxChanges
      /\ OverlapsNoted(list, spoiled', mixed') /\ RefusalsNoted(list, spoiled')
      /\ \A c \in Controls \ spoiled' : \A s :
            (c # "close" => s = memory'[c]) => Agrees(list, c, memory'[c], committed'[c], s)
      /\ \A c \in Controls \ (spoiled' \cup mixed') : Obeys(list, c, committed'[c], wished'[c])
  <2>1. /\ spoiled \subseteq spoiled' /\ {c \in Controls : memory'[c] # committed[c]} \subseteq spoiled'
        /\ UNION {Group(requests[i].of) : i \in DOMAIN requests} \subseteq spoiled'
    BY <1>1
  <2>2. QED  BY <1>1, <1>2, <1>3, <2>1, MigrationKeeps
<1>6. displayed' = displayed /\ off' = off /\ requests' = list
  BY <1>2 DEF Keeps, form
<1>7. QueueFits' /\ Like(requests', list)
  BY <1>5, <1>6, QueueStays
<1>8. MemoryFits' /\ WishesFit'
  <2>1. \A c \in Controls \ spoiled' : Agrees(list, c, memory'[c], committed'[c], displayed'[c])
    BY <1>1, <1>5, <1>6
  <2>2. QED  BY <1>5, <1>7, <2>1, ClaimsStay
<1>9. OffFits'
  <2>1. \A c \in off : c \in spoiled'
    <3>1. TAKE c \in off
    <3>2. CASE \E i \in DOMAIN requests : requests[i].of = c
      <4>1. PICK i \in DOMAIN requests : requests[i].of = c
        BY <3>2
      <4>2. c \in Group(requests[i].of)
        BY <4>1, PrefParts, SaveParts, GroupParts
      <4>3. QED  BY <1>1, <4>2
    <3>3. QED  BY <1>1, <3>2, PrefParts DEF OffFits
  <2>2. QED  BY <1>6, <2>1 DEF OffFits
<1>10. ValuesFit' /\ SetsFit' /\ BoundsFit'
  BY <1>1, <1>3, <1>4, <1>5, <1>6, PrefParts DEF ValuesFit, SetsFit, BoundsFit
<1>11. QED  BY <1>7, <1>8, <1>9, <1>10 DEF PrefInv

\* The settings that are under way when all that is stored is dropped are noted.
LEMMA ResetKeeps ==
    ASSUME PrefConstants, PrefInv, Reset
    PROVE  PrefInv'
<1>1. /\ changes < MaxChanges /\ changes' = changes + 1 /\ leaving' = TRUE
      /\ committed' = Defaults /\ wished' = Defaults
      /\ mixed' = mixed \cup UNION {Group(requests[i].of) : i \in DOMAIN requests}
      /\ UNCHANGED <<memory, displayed, off, requests, hydration, read, spoiled, refusals>>
  BY DEF Reset, form
<1>2. Defaults \in Settings /\ mixed' \subseteq Controls
  BY <1>1, PrefParts, SaveParts, GroupParts DEF Defaults, Settings, SetsFit
<1>3. ValuesFit' /\ SetsFit' /\ BoundsFit'
  BY <1>1, <1>2, PrefParts DEF ValuesFit, SetsFit, BoundsFit, PrefConstants
<1>4. OverlapsNoted(requests, spoiled', mixed') /\ RefusalsNoted(requests, spoiled')
  BY <1>1, PrefParts, NotedStays
<1>5. QueueFits' /\ Like(requests', requests)
  BY <1>1, <1>4, PrefParts, QueueStays
<1>6. \A c \in Controls \ (spoiled' \cup mixed') : Obeys(requests, c, committed'[c], wished'[c])
  <2>1. \A c \in Controls \ mixed' : Free(requests, c)
    BY <1>1 DEF Free
  <2>2. QED  BY <1>1, <2>1 DEF Obeys, Free
<1>7. MemoryFits' /\ WishesFit'
  BY <1>1, <1>5, <1>6, ClaimsStay
<1>8. OffFits'
  BY <1>1, PrefParts DEF OffFits
<1>9. QED  BY <1>3, <1>5, <1>7, <1>8 DEF PrefInv

LEMMA ReloadKeeps ==
    ASSUME PrefConstants, PrefInv, Reload
    PROVE  PrefInv'
<1>1. /\ leaving' = FALSE /\ memory' = Loaded(committed) /\ displayed' = memory'
      /\ off' = {} /\ requests' = <<>> /\ hydration' = "asked" /\ read' = Defaults
      /\ mixed' = mixed \cup UNION {Group(requests[i].of) : i \in DOMAIN requests}
      /\ UNCHANGED <<committed, wished, spoiled, changes, refusals>>
  BY DEF Reload
<1>2. mixed' \subseteq Controls
  BY <1>1, PrefParts, SaveParts, GroupParts DEF SetsFit
<1>3. memory' \in Settings /\ Defaults \in Settings
  BY <1>1, PrefParts DEF Loaded, Defaults, Settings, ValuesFit, Controls, Single
<1>4. ValuesFit' /\ SetsFit' /\ BoundsFit'
  BY <1>1, <1>2, <1>3, PrefParts DEF ValuesFit, SetsFit, BoundsFit
<1>5. requests' \in Seq(Saving) /\ DOMAIN requests' = {}
  BY <1>1
<1>6. QueueFits' /\ OffFits'
  BY <1>1, <1>5 DEF QueueFits, OffFits, ChainWaits, OverlapsNoted, RefusalsNoted
<1>7. \A c \in Controls \ (spoiled' \cup mixed') : committed[c] = wished[c]
  <2>1. \A c \in Controls \ mixed' : Free(requests, c)
    BY <1>1 DEF Free
  <2>2. QED  BY <1>1, <2>1, PrefParts DEF WishesFit, Obeys
<1>8. MemoryFits' /\ WishesFit'
  BY <1>1, <1>5, <1>7 DEF MemoryFits, WishesFit, Obeys
<1>9. QED  BY <1>4, <1>6, <1>8 DEF PrefInv

-----------------------------------------------------------------------------
(* The specification                                                       *)

LEMMA PrefStart ==
    ASSUME PrefConstants, PrefInit
    PROVE  PrefInv
<1>1. Defaults \in Settings /\ [c \in Controls |-> TRUE] \in Settings
  BY DEF Defaults, Settings
<1>2. committed \in Settings /\ memory \in Settings
  BY <1>1 DEF PrefInit, Loaded, Defaults, Settings, Controls, Single
<1>3. ValuesFit /\ SetsFit /\ BoundsFit
  <2>1. ValuesFit /\ SetsFit
    BY <1>1, <1>2 DEF PrefInit, ValuesFit, SetsFit
  <2>2. 0 \in 0 .. MaxChanges /\ 0 \in 0 .. MaxRefusals
    BY DEF PrefConstants
  <2>3. QED  BY <2>1, <2>2 DEF PrefInit, BoundsFit
<1>4. requests \in Seq(Saving) /\ DOMAIN requests = {}
  BY DEF PrefInit
<1>5. QueueFits /\ OffFits
  BY <1>4 DEF PrefInit, QueueFits, OffFits, ChainWaits, OverlapsNoted, RefusalsNoted
<1>6. MemoryFits /\ WishesFit
  BY <1>4 DEF PrefInit, MemoryFits, WishesFit, Obeys
<1>7. QED  BY <1>3, <1>5, <1>6 DEF PrefInv

LEMMA PrefStep ==
    ASSUME PrefConstants, PrefInv, [PrefNext]_prefVars
    PROVE  PrefInv'
<1>1. CASE PrefNext
  <2>1. CASE ChangeField \/ ChangeBox \/ ChangeLimit \/ ChangeCount \/ ChangeClose \/ ChangeStart
    BY <2>1, ChangesKeep
  <2>2. CASE Note
    BY <2>2, NoteKeeps
  <2>3. CASE Media
    BY <2>3, MediaKeeps
  <2>4. CASE DrawAgain
    BY <2>4, DrawAgainKeeps
  <2>5. CASE Execute
    BY <2>5, SettingExecuteKeeps
  <2>6. CASE Replied
    BY <2>6, RepliedKeeps
  <2>7. CASE Reads \/ Defer
    BY <2>7, ReadsKeeps
  <2>8. CASE Hydrate
    BY <2>8, HydrateKeeps
  <2>9. CASE HydrateLate
    BY <2>9, HydrateLateKeeps
  <2>10. CASE Reset
    BY <2>10, ResetKeeps
  <2>11. CASE Reload
    BY <2>11, ReloadKeeps
  <2>12. QED
    BY <1>1, <2>1, <2>2, <2>3, <2>4, <2>5, <2>6, <2>7, <2>8, <2>9, <2>10, <2>11 DEF PrefNext
<1>2. CASE UNCHANGED prefVars
  <2>1. UNCHANGED <<memory, committed, displayed, off, requests, hydration, read, leaving,
                    wished, spoiled, mixed, changes, refusals>>
    BY <1>2 DEF prefVars
  <2>2. ValuesFit' /\ SetsFit' /\ BoundsFit'
    BY <2>1, PrefParts DEF ValuesFit, SetsFit, BoundsFit
  <2>3. QueueFits' /\ OffFits'
    BY <2>1, PrefParts DEF QueueFits, OffFits, ChainWaits, OverlapsNoted, RefusalsNoted
  <2>4. MemoryFits' /\ WishesFit'
    BY <2>1, PrefParts DEF MemoryFits, WishesFit, Agrees, Obeys, Free
  <2>5. QED  BY <2>2, <2>3, <2>4 DEF PrefInv
<1>3. QED  BY <1>1, <1>2

LEMMA PrefAlways ==
    ASSUME PrefConstants
    PROVE  PrefSpec => []PrefInv
<1>1. PrefInit => PrefInv
  BY PrefStart
<1>2. PrefInv /\ [PrefNext]_prefVars => PrefInv'
  BY PrefStep
<1>3. QED  BY <1>1, <1>2, PTL DEF PrefSpec

LEMMA PrefTyped ==
    ASSUME PrefInv
    PROVE  PrefTypes
<1>1. ValuesFit /\ SetsFit /\ BoundsFit /\ requests \in Seq(Saving)
  BY PrefParts
<1>2. requests \in Seq(Request)
  <2>1. \A save \in Saving : save \in Request
    BY DEF Saving, Request
  <2>2. Len(requests) \in Nat /\ DOMAIN requests = 1 .. Len(requests) /\ \A i \in 1 .. Len(requests) : requests[i] \in Request
    BY <1>1, <2>1, SaveParts
  <2>3. requests = [i \in 1 .. Len(requests) |-> requests[i]]
    BY <1>1, <2>2
  <2> HIDE DEF Saving, Request
  <2>4. QED  BY <2>2, <2>3, IsASeq
<1>3. {memory, committed, displayed, read, wished} \subseteq Settings
  BY <1>1 DEF ValuesFit
<1>4. {off, spoiled, mixed} \subseteq SUBSET Controls
  BY <1>1 DEF SetsFit
<1>5. leaving \in BOOLEAN
  BY <1>1 DEF BoundsFit
<1>6. QED  BY <1>1, <1>2, <1>3, <1>4, <1>5 DEF PrefTypes, BoundsFit

\* The memory, the store, the page and the saves under way stay what they are.
THEOREM PrefsKeepTypes ==
    ASSUME PrefConstants
    PROVE  PrefSpec => []PrefTypes
<1>1. PrefInv => PrefTypes
  BY PrefTyped
<1>2. QED  BY <1>1, PrefAlways, PTL

\* At rest the page, memory and the store agree on every setting that no refusal, no
\* unordered overlap and no late snapshot has touched (main.js, persistExperienceSettings
\* and the handlers of the settings page), and what is stored is what was asked for last.
THEOREM SettingsAreKept ==
    ASSUME PrefConstants
    PROVE  PrefSpec => []SettingsKept
<1>1. PrefInv => SettingsKept
  <2>1. SUFFICES ASSUME PrefInv, requests = <<>>, hydration = "done", ~leaving, NEW c \in Controls \ spoiled
                 PROVE  /\ memory[c] = committed[c] /\ c \notin off
                        /\ c # "close" => displayed[c] = memory[c]
                        /\ c \notin mixed => committed[c] = wished[c]
    BY DEF SettingsKept
  <2>2. DOMAIN requests = {} /\ Free(requests, c)
    BY <2>1 DEF Free
  <2>3. memory[c] = committed[c] /\ (c # "close" => displayed[c] = memory[c])
    BY <2>1, <2>2, PrefParts DEF MemoryFits, Agrees
  <2>4. c \notin off
    BY <2>1, <2>2, PrefParts DEF OffFits
  <2>5. c \notin mixed => committed[c] = wished[c]
    BY <2>1, <2>2, PrefParts DEF WishesFit, Obeys
  <2>6. QED  BY <2>3, <2>4, <2>5
<1>2. QED  BY <1>1, PrefAlways, PTL

-----------------------------------------------------------------------------
(* THE LOOK OF THE WINDOWS                                                 *)

(* The inductive invariant                                                 *)

\* What the main window holds is what was chosen last and is shown, or will be in the
\* next frame.
ScreenFits ==
    overrun \/ (look = chosen /\ preview \in {NoLook, look} /\ (preview = NoLook => dom = look))

\* What is neither waiting to be saved, nor sent, nor told, is stored.
StoreFits ==
    (calls = <<>> /\ announced["main"] = <<>> /\ ~persisting /\ ~draft) => unstored \/ look = stored.look

\* The icon that there will be when the worker ends, if nothing fails.
Target == IF nextIcon # NoLook THEN nextIcon ELSE IF setting # NoLook THEN setting ELSE icon
IconFits ==
    /\ setting = NoLook => nextIcon \in {NoLook, icon}
    /\ missed \/ persisting \/ draft \/ Target = look

\* What is told to a window follows what it knows, revision by revision, up to what is
\* stored.
Telling(list, known, final) ==
    /\ known + Len(list) = final.revision
    /\ list # <<>> => list[Len(list)] = final
    /\ \A i \in DOMAIN list : list[i].revision = known + i
MainHears == Telling(announced["main"], revision, stored)

\* A window that was not opening during a save is told of every save.
WindowFits(w) ==
    /\ stage[w] \in {"asking", "served", "binding"} => announced[w] = <<>>
    /\ stage[w] = "served" => answerOf[w] = stored
    /\ stage[w] = "binding" => lookOf[w] = stored
    /\ stage[w] = "open" => /\ Telling(announced[w], lookOf[w].revision, stored)
                            /\ announced[w] = <<>> => lookOf[w] = stored
OthersFit == \A w \in Windows \ late : WindowFits(w)

LookValues ==
    /\ look \in Looks /\ dom \in Looks /\ chosen \in Looks /\ icon \in Looks /\ revision \in Nat
    /\ preview \in Looks \cup {NoLook} /\ nextIcon \in Looks \cup {NoLook} /\ setting \in Looks \cup {NoLook}
ToldValues ==
    /\ calls \in Seq(Looks) /\ stored \in Saved /\ announced \in [Hearers -> Seq(Saved)]
    /\ stage \in [Windows -> {"closed", "asking", "served", "binding", "open"}]
    /\ lookOf \in [Windows -> Saved] /\ answerOf \in [Windows -> Saved] /\ late \subseteq Windows
LookFlags ==
    /\ persisting \in BOOLEAN /\ draft \in BOOLEAN /\ overrun \in BOOLEAN
    /\ unstored \in BOOLEAN /\ missed \in BOOLEAN
LookBounds ==
    /\ tried \in 0 .. MaxLooks /\ openings \in 0 .. MaxOpenings /\ mishaps \in 0 .. MaxMishaps

LookInv ==
    /\ LookValues /\ ToldValues /\ LookFlags /\ LookBounds
    /\ ScreenFits /\ StoreFits /\ IconFits /\ MainHears /\ OthersFit

-----------------------------------------------------------------------------
(* What is told                                                            *)

LEMMA SavedParts == \A save \in Saved : save.look \in Looks /\ save.revision \in Nat
BY DEF Saved

LEMMA HearersParts == "main" \in Hearers /\ Windows \subseteq Hearers /\ "main" \notin Windows
BY DEF Hearers, Windows

\* The first of what is told is heard.
LEMMA TellingHead ==
    ASSUME NEW list \in Seq(Saved), NEW known \in Nat, NEW final \in Saved,
           Telling(list, known, final), list # <<>>
    PROVE  /\ Head(list) \in Saved /\ Head(list).revision = known + 1
           /\ Tail(list) \in Seq(Saved) /\ Telling(Tail(list), known + 1, final)
           /\ Tail(list) = <<>> => Head(list) = final
<1>1. Len(list) \in Nat /\ Len(list) >= 1 /\ DOMAIN list = 1 .. Len(list)
  BY EmptySeq, LenProperties
<1>2. /\ Head(list) \in Saved /\ Tail(list) \in Seq(Saved) /\ Len(Tail(list)) = Len(list) - 1
      /\ \A i \in 1 .. Len(Tail(list)) : Tail(list)[i] = list[i + 1]
  BY HeadTailProperties
<1>3. Head(list) = list[1]
  OBVIOUS
<1>4. DOMAIN Tail(list) = 1 .. Len(list) - 1 /\ (Tail(list) = <<>> => Len(list) = 1)
  <2>1. DOMAIN Tail(list) = 1 .. Len(Tail(list))
    BY <1>2, LenProperties
  <2>2. Tail(list) = <<>> => Len(Tail(list)) = 0
    BY EmptySeq
  <2>3. QED  BY <1>1, <1>2, <2>1, <2>2
<1>5. known + 1 + Len(Tail(list)) = final.revision
  BY <1>1, <1>2, SavedParts DEF Telling
<1>6. Tail(list) # <<>> => Tail(list)[Len(Tail(list))] = final
  <2>1. SUFFICES ASSUME Tail(list) # <<>>
                 PROVE  Tail(list)[Len(Tail(list))] = final
    OBVIOUS
  <2>2. Len(list) - 1 \in 1 .. Len(Tail(list))
    BY <1>1, <1>2, <2>1, EmptySeq, LenProperties
  <2>3. Tail(list)[Len(list) - 1] = list[Len(list) - 1 + 1] /\ Len(list) - 1 + 1 = Len(list)
    BY <1>1, <1>2, <2>2
  <2>4. list[Len(list)] = final
    BY DEF Telling
  <2>5. QED  BY <1>2, <2>3, <2>4
<1>7. ASSUME NEW i \in DOMAIN Tail(list)
      PROVE  Tail(list)[i].revision = known + 1 + i
  <2>1. i + 1 \in DOMAIN list /\ Tail(list)[i] = list[i + 1] /\ i \in Nat
    BY <1>1, <1>2, <1>4
  <2>2. list[i + 1].revision = known + (i + 1)
    BY <2>1 DEF Telling
  <2>3. QED  BY <2>1, <2>2
<1>8. Head(list).revision = known + 1
  <2>1. 1 \in DOMAIN list
    BY <1>1
  <2>2. QED  BY <1>3, <2>1 DEF Telling
<1>9. Tail(list) = <<>> => Head(list) = final
  BY <1>3, <1>4 DEF Telling
<1>10. QED  BY <1>2, <1>5, <1>6, <1>7, <1>8, <1>9 DEF Telling

\* One more is told.
LEMMA TellingAppend ==
    ASSUME NEW list \in Seq(Saved), NEW known \in Nat, NEW final \in Saved, NEW new \in Saved,
           new.revision = final.revision + 1, Telling(list, known, final)
    PROVE  /\ Append(list, new) \in Seq(Saved) /\ Append(list, new) # <<>>
           /\ Telling(Append(list, new), known, new)
<1>1. Len(list) \in Nat /\ DOMAIN list = 1 .. Len(list)
  BY LenProperties
<1>2. /\ Append(list, new) \in Seq(Saved) /\ Append(list, new) # <<>>
      /\ Len(Append(list, new)) = Len(list) + 1 /\ Append(list, new)[Len(list) + 1] = new
      /\ \A i \in 1 .. Len(list) : Append(list, new)[i] = list[i]
  BY AppendProperties
<1>3. DOMAIN Append(list, new) = 1 .. Len(list) + 1
  BY <1>2, LenProperties
<1>4. known + (Len(list) + 1) = new.revision
  BY <1>1, SavedParts DEF Telling
<1>5. ASSUME NEW i \in 1 .. Len(list) + 1
      PROVE  Append(list, new)[i].revision = known + i
  <2>1. CASE i \in 1 .. Len(list)
    BY <1>1, <1>2, <2>1 DEF Telling
  <2>2. CASE i = Len(list) + 1
    BY <1>2, <1>4, <2>2
  <2>3. QED  BY <1>1, <2>1, <2>2
<1>6. QED  BY <1>2, <1>3, <1>4, <1>5 DEF Telling

\* Nothing is told to a window that knows what is stored.
LEMMA TellingNothing ==
    ASSUME NEW final \in Saved
    PROVE  Telling(<<>>, final.revision, final)
BY SavedParts DEF Telling

-----------------------------------------------------------------------------
(* The parts that a step leaves alone                                      *)

LEMMA LookParts ==
    ASSUME LookInv
    PROVE  /\ LookValues /\ ToldValues /\ LookFlags /\ LookBounds
           /\ ScreenFits /\ StoreFits /\ IconFits /\ MainHears /\ OthersFit
BY DEF LookInv

LEMMA OthersStay ==
    ASSUME LookInv, UNCHANGED <<stored, announced, stage, lookOf, answerOf, late>>
    PROVE  OthersFit'
BY LookParts DEF OthersFit, WindowFits, Telling

LEMMA MainStays ==
    ASSUME LookInv, UNCHANGED <<stored, announced, revision>>
    PROVE  MainHears'
BY LookParts DEF MainHears, Telling

LEMMA ToldStays ==
    ASSUME LookInv, UNCHANGED <<calls, stored, announced, stage, lookOf, answerOf, late>>
    PROVE  ToldValues'
BY LookParts DEF ToldValues

\* The icon of a look is asked for.
LEMMA IconKeeps ==
    ASSUME LookConstants, LookInv, NEW l \in Looks, Icon(l), look' = l
    PROVE  /\ IconFits' /\ icon' = icon /\ missed' \in BOOLEAN
           /\ nextIcon' \in Looks \cup {NoLook} /\ setting' \in Looks \cup {NoLook}
<1>1. /\ icon \in Looks /\ nextIcon \in Looks \cup {NoLook} /\ setting \in Looks \cup {NoLook}
      /\ missed \in BOOLEAN /\ NoLook \notin Looks
      /\ setting = NoLook => nextIcon \in {NoLook, icon}
  BY LookParts DEF LookValues, LookFlags, LookConstants, IconFits
<1>2. CASE l = icon
  <2>1. missed' = (missed \/ setting # NoLook) /\ UNCHANGED <<icon, nextIcon, setting>>
    BY <1>2 DEF Icon
  <2>2. missed' \in BOOLEAN
    BY <1>1, <2>1
  <2>3. setting = NoLook => Target' = l
    BY <1>1, <1>2, <2>1 DEF Target
  <2>4. setting # NoLook => missed'
    BY <2>1
  <2>5. IconFits'
    BY <1>1, <2>1, <2>3, <2>4 DEF IconFits
  <2>6. QED  BY <1>1, <2>1, <2>2, <2>5
<1>3. CASE l # icon
  <2>1. /\ IF setting = NoLook THEN setting' = l /\ nextIcon' = NoLook
                               ELSE nextIcon' = l /\ UNCHANGED setting
        /\ missed' = FALSE /\ UNCHANGED icon
    BY <1>3 DEF Icon
  <2>2. Target' = l /\ setting' # NoLook
    BY <1>1, <2>1 DEF Target
  <2>3. IconFits'
    BY <2>2 DEF IconFits
  <2>4. QED  BY <1>1, <2>1, <2>3
<1>4. QED  BY <1>2, <1>3

-----------------------------------------------------------------------------
(* The main window                                                         *)

LEMMA ChangeLookKeeps ==
    ASSUME LookConstants, LookInv, ChangeLook
    PROVE  LookInv'
<1>1. PICK l \in Looks : Swatch(l) \/ Slide(l) \/ Pick(l) \/ Outside(l)
  BY DEF ChangeLook
<1>2. /\ tried < MaxLooks /\ tried' = tried + 1 /\ look' = l /\ chosen' = l
      /\ UNCHANGED <<revision, overrun, calls, stored, announced, unstored, icon, nextIcon, setting, missed,
                     stage, lookOf, answerOf, late, openings, mishaps>>
  BY <1>1 DEF Swatch, Slide, Pick, Outside, Changes, storeVars, iconVars, otherVars
<1>3. persisting' \/ draft'
  BY <1>1 DEF Swatch, Slide, Pick, Outside
<1>4. persisting' \in BOOLEAN /\ draft' \in BOOLEAN
  BY <1>1, LookParts DEF Swatch, Slide, Pick, Outside, LookFlags
<1>5. (dom' = l /\ preview = NoLook /\ preview' = NoLook) \/ (preview' = l /\ dom' = dom)
  BY <1>1 DEF Swatch, Slide, Pick, Outside, Drawn, FrameDrawn
<1>6. ScreenFits'
  BY <1>2, <1>5, LookParts DEF ScreenFits, LookConstants
<1>7. LookValues' /\ LookFlags' /\ LookBounds'
  <2>1. LookValues'
    BY <1>2, <1>5, LookParts DEF LookValues
  <2>2. LookFlags'
    BY <1>2, <1>4, LookParts DEF LookFlags
  <2>3. LookBounds'
    BY <1>2, LookParts DEF LookBounds, LookConstants
  <2>4. QED  BY <2>1, <2>2, <2>3
<1>8. StoreFits' /\ IconFits'
  BY <1>2, <1>3, LookParts DEF StoreFits, IconFits
<1>9. QED
  BY <1>2, <1>6, <1>7, <1>8, OthersStay, MainStays, ToldStays DEF LookInv

LEMMA DrawingKeeps ==
    ASSUME LookConstants, LookInv, Frame \/ Commit \/ Resized
    PROVE  LookInv'
<1>1. UNCHANGED <<look, revision, chosen, overrun, calls, stored, announced, unstored, icon, nextIcon,
                  setting, missed, stage, lookOf, answerOf, late, tried, openings, mishaps>>
  BY DEF Frame, Commit, Resized, storeVars, iconVars, otherVars, counters
<1>2. \/ preview # NoLook /\ dom' = preview /\ preview' = NoLook /\ UNCHANGED <<persisting, draft>>
      \/ persisting' = TRUE /\ draft' = FALSE /\ UNCHANGED <<dom, preview>>
      \/ dom' = look /\ UNCHANGED <<preview, persisting, draft>>
  BY DEF Frame, Commit, Resized, Drawn
<1>3. ScreenFits'
  BY <1>1, <1>2, LookParts DEF ScreenFits
<1>4. LookValues'
  BY <1>1, <1>2, LookParts DEF LookValues
<1>5. LookFlags'
  BY <1>1, <1>2, LookParts DEF LookFlags
<1>6. LookBounds'
  BY <1>1, LookParts DEF LookBounds
<1>7. StoreFits'
  BY <1>1, <1>2, LookParts DEF StoreFits
<1>8. IconFits'
  BY <1>1, <1>2, LookParts DEF IconFits, Target
<1>9. QED
  BY <1>1, <1>3, <1>4, <1>5, <1>6, <1>7, <1>8, OthersStay, MainStays, ToldStays DEF LookInv

LEMMA PersistKeeps ==
    ASSUME LookConstants, LookInv, Persist
    PROVE  LookInv'
<1>1. /\ persisting' = FALSE /\ draft' = FALSE /\ dom' = look /\ calls' = Append(calls, look)
      /\ Icon(look)
      /\ UNCHANGED <<look, revision, preview, chosen, overrun, stored, announced, unstored,
                     stage, lookOf, answerOf, late, tried, openings, mishaps>>
  BY DEF Persist, Drawn, otherVars, counters
<1>2. look \in Looks /\ calls \in Seq(Looks)
  BY LookParts DEF LookValues, ToldValues
<1>3. calls' \in Seq(Looks) /\ calls' # <<>>
  BY <1>1, <1>2, AppendProperties
<1>4. /\ IconFits' /\ icon' = icon /\ missed' \in BOOLEAN
      /\ nextIcon' \in Looks \cup {NoLook} /\ setting' \in Looks \cup {NoLook}
  BY <1>1, <1>2, IconKeeps
<1>5. LookValues'
  BY <1>1, <1>2, <1>4, LookParts DEF LookValues
<1>6. LookFlags'
  BY <1>1, <1>4, LookParts DEF LookFlags
<1>7. LookBounds' /\ ToldValues'
  BY <1>1, <1>3, LookParts DEF LookBounds, ToldValues
<1>8. ScreenFits' /\ StoreFits'
  BY <1>1, <1>3, LookParts DEF ScreenFits, StoreFits
<1>9. QED
  BY <1>1, <1>4, <1>5, <1>6, <1>7, <1>8, OthersStay, MainStays DEF LookInv

LEMMA IconSetKeeps ==
    ASSUME LookConstants, LookInv, IconSet
    PROVE  LookInv'
<1>1. /\ setting # NoLook
      /\ \/ icon' = setting /\ UNCHANGED <<mishaps, missed>>
         \/ /\ mishaps < MaxMishaps /\ mishaps' = mishaps + 1
            /\ missed' = (missed \/ nextIcon = NoLook) /\ UNCHANGED icon
      /\ setting' = IF nextIcon = icon' THEN NoLook ELSE nextIcon
      /\ nextIcon' = IF nextIcon = icon' THEN nextIcon ELSE NoLook
      /\ UNCHANGED <<look, revision, dom, preview, persisting, draft, chosen, overrun, calls, stored,
                     announced, unstored, stage, lookOf, answerOf, late, tried, openings>>
  BY DEF IconSet, mainVars, storeVars, otherVars
<1>2. /\ icon \in Looks /\ nextIcon \in Looks \cup {NoLook} /\ setting \in Looks
      /\ missed \in BOOLEAN /\ NoLook \notin Looks /\ icon' \in Looks
  BY <1>1, LookParts DEF LookValues, LookFlags, LookConstants
<1>3. missed' \in BOOLEAN
  BY <1>1, <1>2
<1>4. IconFits'
  <2>1. setting' = NoLook => nextIcon' \in {NoLook, icon'}
    BY <1>1, <1>2
  <2>2. missed' \/ Target' = Target
    BY <1>1, <1>2 DEF Target
  <2>3. missed => missed'
    BY <1>1
  <2>4. QED  BY <1>1, <2>1, <2>2, <2>3, LookParts DEF IconFits
<1>5. LookValues'
  BY <1>1, <1>2, LookParts DEF LookValues
<1>6. LookFlags'
  BY <1>1, <1>3, LookParts DEF LookFlags
<1>7. LookBounds'
  BY <1>1, LookParts DEF LookBounds, LookConstants
<1>8. ScreenFits' /\ StoreFits'
  BY <1>1, LookParts DEF ScreenFits, StoreFits
<1>9. QED
  BY <1>1, <1>4, <1>5, <1>6, <1>7, <1>8, OthersStay, MainStays, ToldStays DEF LookInv

-----------------------------------------------------------------------------
(* The application                                                         *)

LEMMA StoreLookKeeps ==
    ASSUME LookConstants, LookInv, StoreLook
    PROVE  LookInv'
<1>1. /\ calls # <<>> /\ calls' = Tail(calls)
      /\ UNCHANGED <<look, revision, dom, preview, persisting, draft, chosen, overrun, icon, nextIcon,
                     setting, missed, stage, lookOf, answerOf, tried, openings>>
  BY DEF StoreLook, mainVars, iconVars
<1>2. calls' \in Seq(Looks) /\ Head(calls) \in Looks
  BY <1>1, LookParts, HeadTailProperties DEF ToldValues
<1>3. LookValues' /\ ScreenFits'
  BY <1>1, LookParts DEF LookValues, ScreenFits
<1>4. IconFits'
  BY <1>1, LookParts DEF IconFits, Target
<1>5. CASE /\ mishaps < MaxMishaps /\ mishaps' = mishaps + 1 /\ unstored' = TRUE
           /\ UNCHANGED <<stored, announced, late>>
  <2>1. LookFlags'
    BY <1>1, <1>5, LookParts DEF LookFlags
  <2>2. LookBounds' /\ ToldValues'
    BY <1>1, <1>2, <1>5, LookParts DEF LookBounds, ToldValues, LookConstants
  <2>3. StoreFits'
    BY <1>5 DEF StoreFits
  <2>4. QED
    BY <1>1, <1>3, <1>4, <1>5, <2>1, <2>2, <2>3, OthersStay, MainStays DEF LookInv
<1>6. CASE /\ stored' = [look |-> Head(calls), revision |-> stored.revision + 1]
           /\ announced' = [h \in Hearers |-> IF Hears(h) THEN Append(announced[h], stored')
                                                          ELSE announced[h]]
           /\ late' = late \cup StillOpening
           /\ UNCHANGED <<unstored, mishaps>>
  <2>1. stored \in Saved /\ announced \in [Hearers -> Seq(Saved)] /\ lookOf \in [Windows -> Saved]
        /\ revision \in Nat
    BY LookParts DEF ToldValues, LookValues
  <2>2. stored' \in Saved /\ stored'.revision = stored.revision + 1
    BY <1>2, <1>6, <2>1 DEF Saved
  <2>3. \A h \in Hearers : announced'[h] = IF Hears(h) THEN Append(announced[h], stored') ELSE announced[h]
    BY <1>6
  <2>4. announced' \in [Hearers -> Seq(Saved)]
    <3>1. \A h \in Hearers : Append(announced[h], stored') \in Seq(Saved)
      BY <2>1, <2>2, AppendProperties
    <3>2. QED  BY <1>6, <2>1, <3>1
  <2>5. ToldValues'
    BY <1>1, <1>2, <1>6, <2>2, <2>4, LookParts DEF ToldValues, StillOpening
  <2>6. announced'["main"] = Append(announced["main"], stored')
    BY <2>3, HearersParts DEF Hears
  <2>7. MainHears' /\ announced'["main"] # <<>>
    <3>1. announced["main"] \in Seq(Saved) /\ Telling(announced["main"], revision, stored)
      BY <2>1, HearersParts, LookParts DEF MainHears
    <3>2. /\ Telling(Append(announced["main"], stored'), revision, stored')
          /\ Append(announced["main"], stored') # <<>>
      BY <2>1, <2>2, <3>1, TellingAppend
    <3>3. QED  BY <1>1, <2>6, <3>2 DEF MainHears, Telling
  <2>8. StoreFits'
    BY <2>7 DEF StoreFits
  <2>9. ASSUME NEW w \in Windows \ late'
        PROVE  WindowFits(w)'
    <3>1. w \notin late /\ stage[w] \in {"closed", "open"} /\ w \in Hearers
      BY <1>6, <2>9, HearersParts DEF StillOpening
    <3>2. CASE stage[w] = "closed"
      BY <1>1, <3>2 DEF WindowFits
    <3>3. CASE stage[w] = "open"
      <4>1. announced'[w] = Append(announced[w], stored')
        BY <2>3, <3>1, <3>3 DEF Hears
      <4>2. Telling(announced[w], lookOf[w].revision, stored)
        BY <2>9, <3>1, <3>3, LookParts DEF OthersFit, WindowFits
      <4>3. announced[w] \in Seq(Saved) /\ lookOf[w] \in Saved /\ lookOf[w].revision \in Nat
        BY <2>1, <2>9, <3>1, SavedParts
      <4>4. /\ Telling(Append(announced[w], stored'), lookOf[w].revision, stored')
            /\ Append(announced[w], stored') # <<>>
        BY <2>1, <2>2, <4>2, <4>3, TellingAppend
      <4>5. QED  BY <1>1, <3>3, <4>1, <4>4 DEF WindowFits, Telling
    <3>4. QED  BY <3>1, <3>2, <3>3
  <2>10. OthersFit'
    BY <2>9 DEF OthersFit
  <2>11. LookFlags'
    BY <1>1, <1>6, LookParts DEF LookFlags
  <2>12. LookBounds'
    BY <1>1, <1>6, LookParts DEF LookBounds
  <2>13. QED  BY <1>3, <1>4, <2>5, <2>7, <2>8, <2>10, <2>11, <2>12 DEF LookInv
<1>7. QED  BY <1>5, <1>6 DEF StoreLook

-----------------------------------------------------------------------------
(* Hearing                                                                 *)

LEMMA HeardKeeps ==
    ASSUME LookConstants, LookInv, Heard
    PROVE  LookInv'
<1> DEFINE e == Head(announced["main"])
           rest == Tail(announced["main"])
<1>1. /\ announced["main"] # <<>> /\ announced' = [announced EXCEPT !["main"] = rest]
      /\ UNCHANGED <<calls, stored, unstored, stage, lookOf, answerOf, late, tried, openings, mishaps>>
  BY DEF Heard, otherVars, counters
<1>2. /\ announced \in [Hearers -> Seq(Saved)] /\ announced["main"] \in Seq(Saved)
      /\ stored \in Saved /\ revision \in Nat /\ Telling(announced["main"], revision, stored)
  BY LookParts, HearersParts DEF ToldValues, LookValues, MainHears
<1>3. /\ e \in Saved /\ e.revision = revision + 1 /\ e.look \in Looks
      /\ rest \in Seq(Saved) /\ Telling(rest, revision + 1, stored)
      /\ rest = <<>> => e = stored
  BY <1>1, <1>2, TellingHead, SavedParts
<1>4. /\ look' = e.look /\ revision' = e.revision /\ dom' = e.look
      /\ overrun' = (overrun \/ e.look # look) /\ draft' = FALSE /\ Icon(e.look)
      /\ UNCHANGED <<preview, persisting, chosen>>
  <2>1. Newer(e, revision)
    BY <1>2, <1>3 DEF Newer
  <2>2. QED  BY <2>1 DEF Heard, Drawn
<1> HIDE DEF e, rest
<1>5. announced' \in [Hearers -> Seq(Saved)] /\ announced'["main"] = rest
      /\ \A w \in Windows : announced'[w] = announced[w]
  BY <1>1, <1>2, <1>3, HearersParts
<1>6. MainHears'
  BY <1>1, <1>3, <1>4, <1>5 DEF MainHears, Telling
<1>7. OthersFit'
  <2>1. ASSUME NEW w \in Windows \ late
        PROVE  WindowFits(w)'
    BY <1>1, <1>5, <2>1, LookParts DEF OthersFit, WindowFits, Telling
  <2>2. QED  BY <1>1, <2>1 DEF OthersFit
<1>8. StoreFits'
  BY <1>1, <1>3, <1>4, <1>5 DEF StoreFits
<1>9. /\ IconFits' /\ icon' = icon /\ missed' \in BOOLEAN
      /\ nextIcon' \in Looks \cup {NoLook} /\ setting' \in Looks \cup {NoLook}
  BY <1>3, <1>4, IconKeeps
<1>10. ScreenFits'
  BY <1>4, LookParts DEF ScreenFits
<1>11. LookValues'
  BY <1>2, <1>3, <1>4, <1>9, LookParts DEF LookValues
<1>12. LookFlags'
  <2>1. overrun' \in BOOLEAN
    BY <1>4
  <2>2. QED  BY <1>1, <1>4, <1>9, <2>1, LookParts DEF LookFlags
<1>13. LookBounds' /\ ToldValues'
  BY <1>1, <1>5, LookParts DEF LookBounds, ToldValues
<1>14. QED  BY <1>6, <1>7, <1>8, <1>9, <1>10, <1>11, <1>12, <1>13 DEF LookInv

\* What is left alone by the steps of the other windows.
LEMMA MainAlone ==
    ASSUME LookInv,
           UNCHANGED <<look, revision, dom, preview, persisting, draft, chosen, overrun, calls, stored,
                       unstored, icon, nextIcon, setting, missed, tried, mishaps>>,
           announced'["main"] = announced["main"]
    PROVE  /\ LookValues' /\ LookFlags' /\ ScreenFits' /\ StoreFits' /\ IconFits' /\ MainHears'
           /\ tried' \in 0 .. MaxLooks /\ mishaps' \in 0 .. MaxMishaps
<1>1. LookValues' /\ ScreenFits'
  BY LookParts DEF LookValues, ScreenFits
<1>2. LookFlags'
  BY LookParts DEF LookFlags
<1>3. StoreFits'
  BY LookParts DEF StoreFits
<1>4. IconFits'
  BY LookParts DEF IconFits, Target
<1>5. MainHears'
  BY LookParts DEF MainHears, Telling
<1>6. tried' \in 0 .. MaxLooks /\ mishaps' \in 0 .. MaxMishaps
  BY LookParts DEF LookBounds
<1>7. QED  BY <1>1, <1>2, <1>3, <1>4, <1>5, <1>6

LEMMA HeardElsewhereKeeps ==
    ASSUME LookConstants, LookInv, HeardElsewhere
    PROVE  LookInv'
<1>1. PICK w \in Windows :
        /\ announced[w] # <<>>
        /\ announced' = [announced EXCEPT ![w] = Tail(announced[w])]
        /\ lookOf' = [lookOf EXCEPT ![w] = IF Newer(Head(announced[w]), lookOf[w].revision)
                                           THEN Head(announced[w]) ELSE lookOf[w]]
  BY DEF HeardElsewhere
<1>2. UNCHANGED <<look, revision, dom, preview, persisting, draft, chosen, overrun, calls, stored, unstored,
                  icon, nextIcon, setting, missed, stage, answerOf, late, tried, openings, mishaps>>
  BY DEF HeardElsewhere, mainVars, iconVars, counters
<1>3. /\ announced \in [Hearers -> Seq(Saved)] /\ announced[w] \in Seq(Saved) /\ w \in Hearers /\ w # "main"
      /\ lookOf \in [Windows -> Saved] /\ lookOf[w] \in Saved /\ stored \in Saved
      /\ lookOf[w].revision \in Nat
  BY LookParts, HearersParts, SavedParts DEF ToldValues
<1>4. Head(announced[w]) \in Saved /\ Tail(announced[w]) \in Seq(Saved)
  BY <1>1, <1>3, HeadTailProperties
<1> DEFINE rest  == Tail(announced[w])
           after == IF Newer(Head(announced[w]), lookOf[w].revision) THEN Head(announced[w]) ELSE lookOf[w]
<1>5. rest \in Seq(Saved) /\ after \in Saved
  BY <1>3, <1>4
<1>6. announced' = [announced EXCEPT ![w] = rest] /\ lookOf' = [lookOf EXCEPT ![w] = after]
  BY <1>1
<1>7. ASSUME w \notin late, stage[w] = "open"
      PROVE  Telling(rest, after.revision, stored) /\ (rest = <<>> => after = stored)
  <2>1. Telling(announced[w], lookOf[w].revision, stored)
    BY <1>7, LookParts DEF OthersFit, WindowFits
  <2>2. /\ Head(announced[w]).revision = lookOf[w].revision + 1
        /\ Telling(rest, lookOf[w].revision + 1, stored)
        /\ rest = <<>> => Head(announced[w]) = stored
    BY <1>1, <1>3, <2>1, TellingHead
  <2>3. after = Head(announced[w])
    BY <1>3, <2>2 DEF Newer
  <2>4. QED  BY <2>2, <2>3
<1> HIDE DEF rest, after
<1>8. /\ announced' \in [Hearers -> Seq(Saved)] /\ lookOf' \in [Windows -> Saved]
      /\ announced'[w] = rest /\ lookOf'[w] = after
      /\ \A h \in Hearers \ {w} : announced'[h] = announced[h]
      /\ \A v \in Windows \ {w} : lookOf'[v] = lookOf[v] /\ announced'[v] = announced[v]
  BY <1>3, <1>5, <1>6, HearersParts
<1>9. OthersFit'
  <2>1. ASSUME NEW v \in Windows \ late
        PROVE  WindowFits(v)'
    <3>1. CASE v # w
      BY <1>2, <1>8, <2>1, <3>1, LookParts DEF OthersFit, WindowFits, Telling
    <3>2. CASE v = w
      <4>1. stage[w] \notin {"asking", "served", "binding"}
        BY <1>1, <2>1, <3>2, LookParts DEF OthersFit, WindowFits
      <4>2. QED  BY <1>2, <1>7, <1>8, <2>1, <3>2, <4>1 DEF WindowFits, Telling
    <3>3. QED  BY <3>1, <3>2
  <2>2. QED  BY <1>2, <2>1 DEF OthersFit
<1>10. ToldValues'
  BY <1>2, <1>8, LookParts DEF ToldValues
<1>11. announced'["main"] = announced["main"]
  BY <1>3, <1>8, HearersParts
<1>12. QED
  BY <1>2, <1>9, <1>10, <1>11, MainAlone, LookParts DEF LookInv, LookBounds

-----------------------------------------------------------------------------
(* The other windows                                                       *)

LEMMA OpenKeepsLook ==
    ASSUME LookConstants, LookInv, Open
    PROVE  LookInv'
<1>1. PICK w \in Windows, l \in Remembered :
        /\ stage[w] = "closed" /\ stage' = [stage EXCEPT ![w] = "asking"]
        /\ lookOf' = [lookOf EXCEPT ![w] = [look |-> l, revision |-> revision]]
        /\ announced' = [announced EXCEPT ![w] = <<>>] /\ late' = late \ {w}
  BY DEF Open
<1>2. /\ openings < MaxOpenings /\ openings' = openings + 1
      /\ UNCHANGED <<look, revision, dom, preview, persisting, draft, chosen, overrun, calls, stored, unstored,
                     icon, nextIcon, setting, missed, answerOf, tried, mishaps>>
  BY DEF Open, mainVars, iconVars
<1>3. [look |-> l, revision |-> revision] \in Saved
  BY LookParts, SavedParts DEF Remembered, LookValues, ToldValues, Saved
<1>4. /\ stage' \in [Windows -> {"closed", "asking", "served", "binding", "open"}]
      /\ lookOf' \in [Windows -> Saved] /\ late' \subseteq Windows
      /\ stage'[w] = "asking" /\ \A v \in Windows \ {w} : stage'[v] = stage[v] /\ lookOf'[v] = lookOf[v]
  BY <1>1, <1>3, LookParts DEF ToldValues
<1>5. /\ announced' \in [Hearers -> Seq(Saved)] /\ announced'[w] = <<>>
      /\ \A h \in Hearers \ {w} : announced'[h] = announced[h]
  BY <1>1, LookParts, HearersParts DEF ToldValues
<1>6. OthersFit'
  <2>1. ASSUME NEW v \in Windows \ late'
        PROVE  WindowFits(v)'
    <3>1. CASE v # w
      <4>1. v \in Windows \ late /\ v \in Hearers \ {w}
        BY <1>1, <2>1, <3>1, HearersParts
      <4>2. QED  BY <1>2, <1>4, <1>5, <3>1, <4>1, LookParts DEF OthersFit, WindowFits, Telling
    <3>2. CASE v = w
      BY <1>4, <1>5, <3>2 DEF WindowFits
    <3>3. QED  BY <3>1, <3>2
  <2>2. QED  BY <2>1 DEF OthersFit
<1>7. announced'["main"] = announced["main"]
  BY <1>5, HearersParts
<1>8. ToldValues'
  BY <1>2, <1>4, <1>5, LookParts DEF ToldValues
<1>9. openings' \in 0 .. MaxOpenings
  BY <1>2, LookParts DEF LookBounds, LookConstants
<1>10. QED
  BY <1>2, <1>6, <1>7, <1>8, <1>9, MainAlone DEF LookInv, LookBounds

LEMMA ReadingKeeps ==
    ASSUME LookConstants, LookInv, Serve \/ Receive \/ Bind \/ CloseOne
    PROVE  LookInv'
<1>1. UNCHANGED <<look, revision, dom, preview, persisting, draft, chosen, overrun, calls, stored, unstored,
                  icon, nextIcon, setting, missed, late, tried, openings, mishaps>>
  BY DEF Serve, Receive, Bind, CloseOne, mainVars, iconVars, storeVars, counters
<1>2. PICK w \in Windows :
        \/ /\ stage[w] = "asking" /\ stage' = [stage EXCEPT ![w] = "served"]
           /\ answerOf' = [answerOf EXCEPT ![w] = stored] /\ UNCHANGED <<lookOf, announced>>
        \/ /\ stage[w] = "served"
           /\ stage' = [stage EXCEPT ![w] = IF w = "prep" THEN "open" ELSE "binding"]
           /\ lookOf' = [lookOf EXCEPT ![w] = answerOf[w]] /\ UNCHANGED <<answerOf, announced>>
        \/ /\ stage[w] = "binding" /\ stage' = [stage EXCEPT ![w] = "open"]
           /\ UNCHANGED <<lookOf, answerOf, announced>>
        \/ /\ stage[w] = "open" /\ stage' = [stage EXCEPT ![w] = "closed"]
           /\ announced' = [announced EXCEPT ![w] = <<>>] /\ UNCHANGED <<lookOf, answerOf>>
  BY DEF Serve, Receive, Bind, CloseOne, storeVars, Windows
<1>3. /\ stage \in [Windows -> {"closed", "asking", "served", "binding", "open"}]
      /\ lookOf \in [Windows -> Saved] /\ answerOf \in [Windows -> Saved]
      /\ announced \in [Hearers -> Seq(Saved)] /\ stored \in Saved
  BY LookParts DEF ToldValues
<1>4. /\ stage' \in [Windows -> {"closed", "asking", "served", "binding", "open"}]
      /\ lookOf' \in [Windows -> Saved] /\ answerOf' \in [Windows -> Saved]
      /\ \A v \in Windows \ {w} : stage'[v] = stage[v] /\ lookOf'[v] = lookOf[v] /\ answerOf'[v] = answerOf[v]
  BY <1>2, <1>3
<1>5. /\ announced' \in [Hearers -> Seq(Saved)]
      /\ \A h \in Hearers \ {w} : announced'[h] = announced[h]
  <2>1. announced' = announced \/ announced' = [announced EXCEPT ![w] = <<>>]
    BY <1>2
  <2>2. <<>> \in Seq(Saved)
    BY EmptySeq
  <2>3. CASE announced' = announced
    BY <1>3, <2>3
  <2>4. CASE announced' = [announced EXCEPT ![w] = <<>>]
    BY <1>3, <2>2, <2>4, HearersParts
  <2>5. QED  BY <2>1, <2>3, <2>4
<1>6. ASSUME w \notin late
      PROVE  WindowFits(w)'
  <2>1. WindowFits(w) /\ w \in Hearers
    BY <1>6, LookParts, HearersParts DEF OthersFit
  <2>2. CASE /\ stage[w] = "asking" /\ stage' = [stage EXCEPT ![w] = "served"]
             /\ answerOf' = [answerOf EXCEPT ![w] = stored] /\ UNCHANGED <<lookOf, announced>>
    <3>1. stage'[w] = "served" /\ answerOf'[w] = stored' /\ announced'[w] = <<>>
      BY <1>1, <1>3, <2>1, <2>2 DEF WindowFits
    <3>2. QED  BY <3>1 DEF WindowFits
  <2>3. CASE /\ stage[w] = "served"
             /\ stage' = [stage EXCEPT ![w] = IF w = "prep" THEN "open" ELSE "binding"]
             /\ lookOf' = [lookOf EXCEPT ![w] = answerOf[w]] /\ UNCHANGED <<answerOf, announced>>
    <3>1. stage'[w] \in {"open", "binding"} /\ lookOf'[w] = stored' /\ announced'[w] = <<>>
      BY <1>1, <1>3, <2>1, <2>3 DEF WindowFits
    <3>2. Telling(<<>>, stored.revision, stored)
      BY <1>3, TellingNothing
    <3>3. QED  BY <1>1, <3>1, <3>2 DEF WindowFits, Telling
  <2>4. CASE /\ stage[w] = "binding" /\ stage' = [stage EXCEPT ![w] = "open"]
             /\ UNCHANGED <<lookOf, answerOf, announced>>
    <3>1. stage'[w] = "open" /\ lookOf'[w] = stored' /\ announced'[w] = <<>>
      BY <1>1, <1>3, <2>1, <2>4 DEF WindowFits
    <3>2. Telling(<<>>, stored.revision, stored)
      BY <1>3, TellingNothing
    <3>3. QED  BY <1>1, <3>1, <3>2 DEF WindowFits, Telling
  <2>5. CASE /\ stage[w] = "open" /\ stage' = [stage EXCEPT ![w] = "closed"]
             /\ announced' = [announced EXCEPT ![w] = <<>>] /\ UNCHANGED <<lookOf, answerOf>>
    <3>1. stage'[w] = "closed"
      BY <1>3, <2>5
    <3>2. QED  BY <3>1 DEF WindowFits
  <2>6. QED  BY <1>2, <2>2, <2>3, <2>4, <2>5
<1>7. OthersFit'
  <2>1. ASSUME NEW v \in Windows \ late, v # w
        PROVE  WindowFits(v)'
    <3>1. v \in Hearers \ {w} /\ WindowFits(v)
      BY <2>1, LookParts, HearersParts DEF OthersFit
    <3>2. stage'[v] = stage[v] /\ lookOf'[v] = lookOf[v] /\ answerOf'[v] = answerOf[v]
          /\ announced'[v] = announced[v] /\ stored' = stored
      BY <1>1, <1>4, <1>5, <2>1, <3>1
    <3>3. QED  BY <3>1, <3>2 DEF WindowFits, Telling
  <2>2. QED  BY <1>1, <1>6, <2>1 DEF OthersFit
<1>8. announced'["main"] = announced["main"]
  BY <1>5, HearersParts
<1>9. ToldValues'
  BY <1>1, <1>4, <1>5, LookParts DEF ToldValues
<1>10. QED
  BY <1>1, <1>7, <1>8, <1>9, MainAlone, LookParts DEF LookInv, LookBounds

-----------------------------------------------------------------------------
(* The specification                                                       *)

LEMMA LookStart ==
    ASSUME LookConstants, LookInit
    PROVE  LookInv
<1>1. PICK l \in Looks : stored = [look |-> l, revision |-> 1]
  BY DEF LookInit
<1>2. stored \in Saved /\ stored.look \in Looks /\ stored.revision = 1
  BY <1>1 DEF Saved
<1>3. LookValues
  BY <1>2 DEF LookInit, LookValues
<1>4. ToldValues
  <2>1. announced \in [Hearers -> Seq(Saved)] /\ calls \in Seq(Looks)
    BY DEF LookInit
  <2>2. stage \in [Windows -> {"closed", "asking", "served", "binding", "open"}]
    BY DEF LookInit
  <2>3. QED  BY <1>2, <2>1, <2>2 DEF LookInit, ToldValues
<1>5. LookFlags
  BY DEF LookInit, LookFlags
<1>6. LookBounds
  <2>1. 0 \in 0 .. MaxLooks /\ 0 \in 0 .. MaxOpenings /\ 0 \in 0 .. MaxMishaps
    BY DEF LookConstants
  <2>2. QED  BY <2>1 DEF LookInit, LookBounds
<1>7. ScreenFits /\ StoreFits
  BY DEF LookInit, ScreenFits, StoreFits
<1>8. IconFits
  BY <1>3 DEF LookInit, IconFits, Target, LookConstants, LookValues
<1>9. MainHears
  <2>1. Telling(<<>>, stored.revision, stored)
    BY <1>2, TellingNothing
  <2>2. announced["main"] = <<>> /\ revision = stored.revision
    BY <1>2, HearersParts DEF LookInit
  <2>3. QED  BY <2>1, <2>2 DEF MainHears
<1>10. OthersFit
  BY DEF LookInit, OthersFit, WindowFits
<1>11. QED  BY <1>3, <1>4, <1>5, <1>6, <1>7, <1>8, <1>9, <1>10 DEF LookInv

LEMMA LookStep ==
    ASSUME LookConstants, LookInv, [LookNext]_lookVars
    PROVE  LookInv'
<1>1. CASE LookNext
  <2>1. CASE ChangeLook
    BY <2>1, ChangeLookKeeps
  <2>2. CASE Frame \/ Commit \/ Resized
    BY <2>2, DrawingKeeps
  <2>3. CASE Persist
    BY <2>3, PersistKeeps
  <2>4. CASE IconSet
    BY <2>4, IconSetKeeps
  <2>5. CASE StoreLook
    BY <2>5, StoreLookKeeps
  <2>6. CASE Heard
    BY <2>6, HeardKeeps
  <2>7. CASE HeardElsewhere
    BY <2>7, HeardElsewhereKeeps
  <2>8. CASE Open
    BY <2>8, OpenKeepsLook
  <2>9. CASE Serve \/ Receive \/ Bind \/ CloseOne
    BY <2>9, ReadingKeeps
  <2>10. QED
    BY <1>1, <2>1, <2>2, <2>3, <2>4, <2>5, <2>6, <2>7, <2>8, <2>9 DEF LookNext
<1>2. CASE UNCHANGED lookVars
  <2>1. UNCHANGED <<look, revision, dom, preview, persisting, draft, calls, stored, announced,
                    icon, nextIcon, setting, stage, lookOf, answerOf, chosen, overrun, unstored, missed,
                    late, tried, openings, mishaps>>
    BY <1>2 DEF lookVars
  <2>2. QED
    BY <2>1, MainAlone, OthersStay, ToldStays, LookParts DEF LookInv, LookBounds
<1>3. QED  BY <1>1, <1>2

LEMMA LookAlways ==
    ASSUME LookConstants
    PROVE  LookSpec => []LookInv
<1>1. LookInit => LookInv
  BY LookStart
<1>2. LookInv /\ [LookNext]_lookVars => LookInv'
  BY LookStep
<1>3. QED  BY <1>1, <1>2, PTL DEF LookSpec

\* Looks, revisions, saves and what is told keep their types.
THEOREM LookKeepsTypes ==
    ASSUME LookConstants
    PROVE  LookSpec => []LookTypes
<1>1. LookInv => LookTypes
  <2>1. SUFFICES ASSUME LookInv
                 PROVE  LookTypes
    OBVIOUS
  <2>2. {persisting, draft, overrun, unstored, missed} \subseteq BOOLEAN
    BY <2>1, LookParts DEF LookFlags
  <2>3. {look, dom, chosen, icon} \subseteq Looks /\ revision \in Nat
        /\ {preview, nextIcon, setting} \subseteq Looks \cup {NoLook}
    BY <2>1, LookParts DEF LookValues
  <2>4. QED  BY <2>1, <2>2, <2>3, LookParts DEF LookTypes, ToldValues, LookBounds
<1>2. QED  BY <1>1, LookAlways, PTL

\* Once every change is saved and told, the main window holds, shows and wears the look
\* that is stored and was chosen last, and every other window has it (main.js,
\* persistAppearance; appearance/sync.js), but for the failures and overlaps the
\* property names.
THEOREM EveryWindowAgrees ==
    ASSUME LookConstants
    PROVE  LookSpec => []LookSettles
<1>1. LookInv => LookSettles
  <2>1. SUFFICES ASSUME LookInv, ~persisting, ~draft, preview = NoLook, calls = <<>>,
                        \A h \in Hearers : announced[h] = <<>>
                 PROVE  /\ unstored \/ look = stored.look
                        /\ overrun \/ (dom = look /\ look = chosen)
                        /\ setting = NoLook => missed \/ icon = look
                        /\ \A w \in Windows \ late : stage[w] = "open" => lookOf[w].look = stored.look
    BY DEF LookSettles
  <2>2. unstored \/ look = stored.look
    BY <2>1, LookParts, HearersParts DEF StoreFits
  <2>3. overrun \/ (dom = look /\ look = chosen)
    BY <2>1, LookParts DEF ScreenFits
  <2>4. setting = NoLook => missed \/ icon = look
    BY <2>1, LookParts DEF IconFits, Target
  <2>5. ASSUME NEW w \in Windows \ late, stage[w] = "open"
        PROVE  lookOf[w].look = stored.look
    BY <2>1, <2>5, LookParts, HearersParts DEF OthersFit, WindowFits
  <2>6. QED  BY <2>2, <2>3, <2>4, <2>5
<1>2. QED  BY <1>1, LookAlways, PTL

-----------------------------------------------------------------------------
(* THE PAGES TOGETHER                                                      *)

\* Whichever part moves, each of them takes a step of its own or rests.
LEMMA PartsStep ==
    ASSUME [MCNext]_partVars
    PROVE  /\ [IntakeNext]_intakeVars /\ [EditorNext]_editorVars
           /\ [PrefNext]_prefVars /\ [LookNext]_lookVars
<1>1. CASE UNCHANGED partVars
  BY <1>1 DEF partVars
<1>2. ASSUME NEW part \in Parts, \A other \in Parts \ {part} : Still(other)
      PROVE  /\ part # "intake" => UNCHANGED intakeVars
             /\ part # "editor" => UNCHANGED editorVars
             /\ part # "pref" => UNCHANGED prefVars
             /\ part # "look" => UNCHANGED lookVars
  <2>1. {"intake", "editor", "pref", "look"} \subseteq Parts
    BY DEF Parts
  <2>2. \A other \in {"intake", "editor", "pref", "look"} : other # part => Still(other)
    BY <1>2, <2>1
  <2>3. /\ Still("intake") => UNCHANGED intakeVars
        /\ Still("editor") => UNCHANGED editorVars
        /\ Still("pref") => UNCHANGED prefVars
        /\ Still("look") => UNCHANGED lookVars
    BY DEF Still
  <2>4. QED  BY <2>2, <2>3
<1>3. CASE Alone("intake", IntakeNext)
  BY <1>2, <1>3 DEF Alone, In, Parts
<1>4. CASE Alone("editor", EditorNext)
  BY <1>2, <1>4 DEF Alone, In, Parts
<1>5. CASE Alone("pref", PrefNext)
  BY <1>2, <1>5 DEF Alone, In, Parts
<1>6. CASE Alone("look", LookNext)
  BY <1>2, <1>6 DEF Alone, In, Parts
<1>7. CASE \/ Alone("rows", RowNext) \/ Alone("store", MigrationNext)
           \/ Alone("comp", Comp!ComponentNext) \/ Alone("update", UpdateNext)
           \/ Alone("bridge", BridgeNext)
  BY <1>2, <1>7 DEF Alone, In, Parts
<1>8. QED  BY <1>1, <1>3, <1>4, <1>5, <1>6, <1>7 DEF MCNext

\* Nothing that was put off is forgotten: at rest the editor's session, the settings, the
\* look and the links are as they were left, for every behaviour of the pages together.
THEOREM NothingIsForgotten == MCSpec => []NothingForgotten
<1>1. IntakeConstants /\ EditorConstants /\ PrefConstants /\ LookConstants
  BY PartAssumption
<1>2. MCInit => IntakeInit /\ EditorInit /\ PrefInit /\ LookInit
  BY DEF MCInit
<1>3. MCSpec => IntakeSpec /\ EditorSpec /\ PrefSpec /\ LookSpec
  BY <1>2, PartsStep, PTL DEF MCSpec, IntakeSpec, EditorSpec, PrefSpec, LookSpec
<1>4. /\ IntakeSpec => []PromptsKept /\ []LinksServed
      /\ (EditorSpec => []RestsSaved) /\ (PrefSpec => []SettingsKept) /\ (LookSpec => []LookSettles)
  BY <1>1, PromptsAreKept, LastLinkWins, SessionRests, SettingsAreKept, EveryWindowAgrees, PTL
<1>5. PromptsKept /\ LinksServed /\ RestsSaved /\ SettingsKept /\ LookSettles => NothingForgotten
  BY DEF NothingForgotten
<1>6. QED  BY <1>3, <1>4, <1>5, PTL

\* Every part of the main window keeps its types, the ones that show and the ones that
\* keep, for every behaviour of the pages together.
THEOREM PartsKeepTypes == MCSpec => []PartTypes
<1>1. /\ RowConstants /\ EditorConstants /\ IntakeConstants /\ PrefConstants /\ LookConstants
      /\ UpdateConstants /\ BridgeConstants /\ Comp!ComponentConstants
  BY PartAssumption
<1>2. MCInit => /\ RowInit /\ EditorInit /\ MigrationInit /\ IntakeInit /\ PrefInit /\ LookInit
                /\ UpdateInit /\ BridgeInit /\ Comp!ComponentInit
  BY DEF MCInit
<1>3. MCSpec => /\ RowSpec /\ MigrationSpec /\ UpdateSpec /\ BridgeSpec /\ Comp!ComponentSpec
                /\ IntakeSpec /\ EditorSpec /\ PrefSpec /\ LookSpec
  BY <1>2, PartsMove, PartsStep, PTL
     DEF MCSpec, RowSpec, MigrationSpec, UpdateSpec, BridgeSpec, Comp!ComponentSpec,
         IntakeSpec, EditorSpec, PrefSpec, LookSpec
<1>4. /\ (RowSpec => []RowTypes) /\ (MigrationSpec => []TypeOK)
      /\ (UpdateSpec => []UpdateTypes) /\ (BridgeSpec => []BridgeTypes)
      /\ (Comp!ComponentSpec => []Comp!ComponentTypes) /\ (IntakeSpec => []IntakeTypes)
      /\ (EditorSpec => []EditorTypes) /\ (PrefSpec => []PrefTypes)
      /\ (LookSpec => []LookTypes)
  BY <1>1, RowsKeepTypes, MigrationTypes, UpdateKeepsTypes, BridgeKeepsTypes,
     ComponentsKeepTypes, IntakeKeepsTypes, EditorKeepsTypes, PrefsKeepTypes, LookKeepsTypes
<1>5. /\ RowTypes /\ TypeOK /\ UpdateTypes /\ BridgeTypes /\ Comp!ComponentTypes
      /\ IntakeTypes /\ EditorTypes /\ PrefTypes /\ LookTypes
      => PartTypes
  BY DEF PartTypes
<1>6. QED  BY <1>3, <1>4, <1>5, PTL
=============================================================================
