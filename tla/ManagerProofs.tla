------------------------------- MODULE ManagerProofs -------------------------------
(***************************************************************************)
(* Proofs about the parts of the download manager's page: the search box   *)
(* (UnifiedSearch), the controls of the list (ListControls), the search of *)
(* videos (VideoSearch) and the pictures (Thumbnails), the types of its    *)
(* snapshot, dialogs and settings of rows, and what holds of all of them   *)
(* together, for any texts, rows, queries, pictures and number of inputs.  *)
(***************************************************************************)
EXTENDS MCManager, FiniteSetTheorems, SequenceTheorems, WellFoundedInduction, TLAPS

-----------------------------------------------------------------------------
(* THE SEARCH BOX                                                          *)

(* The inductive invariant                                                 *)

\* A request is made for one text, so a drain hears of its own text only; the flights
\* of the last request look for what is in the box, unless it was cleared.
FlightsFit ==
    /\ \A f \in flights : f.by <= request /\ (f.by = request => query \in {f.word, Nothing})
    /\ \A f, g \in flights : f.by = g.by => f.word = g.word
    /\ drain.page # 0 => \A f \in flights : f.by = drain.on => f.word = drain.word

\* What may still ask for the component, which takes a request number of its own.
Waiting ==
    \/ drain.page # 0 /\ drain.req = request
    \/ \E f \in flights : f.by = request
Pending ==
    \/ prompt # 0
    \/ timer.page # 0 /\ timer.req = request
    \/ Waiting

\* Each input makes two requests at most.
Numbered ==
    /\ timer.req <= request /\ drain.req <= request
    /\ inputs <= MaxInputs /\ request <= inputs + inputs
    /\ Pending => request < inputs + inputs

SearchInv == TypeOK /\ FlightsFit /\ Numbered /\ SuggestionsFit

\* Flights that are left, or late, of the ones under way.
Left(others) ==
    /\ others \subseteq Flights
    /\ \A g \in others : \E f \in flights : f.by = g.by /\ f.word = g.word

-----------------------------------------------------------------------------
(* What is asked for, and what is heard                                    *)

LEMMA IdleDrain == SearchConstants => Idle \in Drain /\ Idle.page = 0 /\ Idle.req = 0
<1> SUFFICES ASSUME SearchConstants
             PROVE  Idle \in Drain /\ Idle.page = 0 /\ Idle.req = 0
  OBVIOUS
<1>1. (CHOOSE w \in Words : TRUE) \in Words
  BY DEF SearchConstants
<1>2. 0 \in Ids
  BY DEF SearchConstants, Ids
<1> QED
  BY <1>1, <1>2 DEF Idle, Drain

\* A flight of this request is made, or the one of the same text is joined.
LEMMA AskFits ==
    ASSUME SearchConstants, SearchInv, NEW page \in Pages, NEW others,
           Left(others), query \in Words, Ask(query, page, others),
           UNCHANGED <<query, request>>
    PROVE  /\ flights' \subseteq Flights /\ drain' \in Drain
           /\ FlightsFit' /\ drain'.req = request
<1> DEFINE shared == {f \in others : f.word = query /\ f.page = page /\ f.cached}
           made == [by |-> request, word |-> query, page |-> page, cached |-> TRUE]
<1>1. \A g \in others : /\ g \in Flights /\ g.by \in Ids /\ g.by <= request
                        /\ g.by = request => query \in {g.word, Nothing}
  BY DEF Left, SearchInv, FlightsFit, Flights
<1>2. \A g, h \in others : g.by = h.by => g.word = h.word
  BY DEF Left, SearchInv, FlightsFit
<1>3. request \in Ids /\ Ids \subseteq Nat /\ page \in 0 .. 2
  BY DEF SearchInv, TypeOK, Ids, SearchConstants, Pages
<1>4. made \in Flights
  BY <1>3 DEF Flights, SearchInv, TypeOK
<1> HIDE DEF made
<1>5. made.by = request /\ made.word = query
  BY DEF made
<1>6. CASE shared = {}
  <2>1. /\ flights' = others \cup {made}
        /\ drain' = [word |-> query, req |-> request, page |-> page, on |-> request]
    BY <1>6 DEF Ask, made
  <2>2. drain' \in Drain /\ drain'.req = request /\ drain'.on = request /\ drain'.word = query
    BY <2>1, <1>3 DEF Drain
  <2>3. \A g \in others : g.by = request => g.word = query
    BY <1>1 DEF SearchConstants
  <2>4. \A g \in flights' : g.by <= request /\ (g.by = request => query \in {g.word, Nothing})
    BY <2>1, <1>1, <1>3, <1>5
  <2>5. \A g, h \in flights' : g.by = h.by => g.word = h.word
    BY <2>1, <2>3, <1>2, <1>5
  <2>6. \A g \in flights' : g.by = drain'.on => g.word = drain'.word
    BY <2>1, <2>2, <2>3, <1>5
  <2>7. flights' \subseteq Flights
    BY <2>1, <1>4 DEF Left
  <2> QED
    BY <2>2, <2>4, <2>5, <2>6, <2>7 DEF FlightsFit
<1>7. CASE shared # {}
  <2>1. PICK f \in shared :
          /\ flights' = others
          /\ drain' = [word |-> query, req |-> request, page |-> page, on |-> f.by]
    BY <1>7 DEF Ask
  <2>2. /\ drain' \in Drain /\ drain'.req = request
        /\ drain'.on = f.by /\ drain'.word = query /\ f.word = query
    BY <2>1, <1>1, <1>3 DEF Drain
  <2>3. \A g \in flights' : g.by = drain'.on => g.word = drain'.word
    BY <2>1, <2>2, <1>2
  <2> QED
    BY <2>1, <2>2, <2>3, <1>1, <1>2 DEF FlightsFit, Left
<1> QED
  BY <1>6, <1>7

\* What a step that hears of a flight leaves: flights and a drain of the request, and
\* suggestions for the text in the box.
Heard ==
    /\ flights' \subseteq Flights /\ drain' \in Drain /\ FlightsFit'
    /\ (Waiting' => Pending) /\ drain'.req <= request
    /\ suggestions' \in {Nothing, query, suggestions}
    /\ suggestions' \in Words \cup {Nothing}
    /\ remote' \in Words \cup {Nothing} /\ busy' \in BOOLEAN

\* The flights that are left, without a drain, fit.
LEMMA RestFits ==
    ASSUME SearchConstants, SearchInv, NEW others, Left(others), flights' = others,
           drain'.page = 0, UNCHANGED <<query, request>>
    PROVE  flights' \subseteq Flights /\ FlightsFit' /\ (Waiting' => Pending)
BY DEF Left, FlightsFit, SearchInv, Waiting, Pending

\* A page of results shows them, and the second page is asked for.
LEMMA GoesFits ==
    ASSUME SearchConstants, SearchInv, NEW page \in Pages, NEW value, NEW others,
           Left(others), query \in Words, Goes(query, page, value, others),
           Pending, UNCHANGED <<query, request>>
    PROVE  Heard
<1>1. suggestions \in Words \cup {Nothing} /\ busy \in BOOLEAN /\ remote \in Words \cup {Nothing}
      /\ request \in Ids /\ Ids \subseteq Nat
  BY DEF SearchInv, TypeOK, Ids, SearchConstants
<1>2. \A v : Results(query, v) \in {query, Nothing}
  BY DEF Results
<1>3. CASE page = 1 /\ suggestions' = Results(query, value) /\ Ask(query, 2, others)
           /\ UNCHANGED <<busy, remote>>
  <2>1. flights' \subseteq Flights /\ drain' \in Drain /\ FlightsFit' /\ drain'.req = request
    <3>1. 2 \in Pages
      BY DEF Pages
    <3> QED
      BY <3>1, <1>3, AskFits
  <2> QED
    BY <2>1, <1>1, <1>2, <1>3 DEF Heard
<1>4. ASSUME NEW shown \in {Nothing, query, suggestions}, Drained(others, shown),
             remote' = suggestions'
      PROVE  Heard
  <2>1. drain' \in Drain /\ drain'.page = 0 /\ drain'.req = 0
    BY <1>4, IdleDrain DEF Drained
  <2>2. flights' \subseteq Flights /\ FlightsFit'
    BY <1>4, <2>1, RestFits DEF Drained
  <2>3. busy' \in BOOLEAN
    BY <1>4 DEF Drained
  <2>4. suggestions' = shown
    BY <1>4 DEF Drained
  <2>5. drain'.req <= request
    BY <1>1, <2>1
  <2> QED
    BY <1>1, <1>4, <2>1, <2>2, <2>3, <2>4, <2>5 DEF Heard
<1>5. CASE page = 2 /\ Drained(others, IF value = "some" THEN query ELSE suggestions)
           /\ remote' = suggestions'
  BY <1>4, <1>5
<1>6. CASE page = 1 /\ kept[<<query, 2>>] # "none"
           /\ Drained(others, IF kept[<<query, 2>>] = "some" THEN query
                             ELSE Results(query, value))
           /\ remote' = suggestions'
  BY <1>2, <1>4, <1>6
<1> QED
  BY <1>3, <1>5, <1>6 DEF Goes

\* A flight that ends, or is late, is heard of by the drain of its own text only.
LEMMA HearsFits ==
    ASSUME SearchConstants, SearchInv, NEW f \in flights, NEW value, NEW others,
           Left(others), Hears(f, value, others), UNCHANGED <<query, request>>
    PROVE  Heard
<1>1. /\ suggestions \in Words \cup {Nothing} /\ busy \in BOOLEAN
      /\ remote \in Words \cup {Nothing} /\ drain \in Drain /\ drain.req <= request
      /\ request \in Ids /\ Ids \subseteq Nat /\ f \in Flights
      /\ f.word \in Words /\ f.page \in Pages
  BY DEF SearchInv, TypeOK, Ids, SearchConstants, Numbered, Flights
<1>2. CASE ~Awaited(f)
  <2>1. flights' = others /\ UNCHANGED <<drain, busy, suggestions, remote>>
    BY <1>2 DEF Hears
  <2>2. flights' \subseteq Flights /\ FlightsFit' /\ (Waiting' => Pending)
    BY <2>1 DEF Left, FlightsFit, SearchInv, Waiting, Pending
  <2> QED
    BY <1>1, <2>1, <2>2 DEF Heard
<1>3. CASE Awaited(f) /\ ~Current(drain)
  <2>1. flights' = others /\ drain' = Idle /\ UNCHANGED <<busy, suggestions, remote>>
    BY <1>3 DEF Hears
  <2>2. drain' \in Drain /\ drain'.page = 0 /\ drain'.req = 0
    BY <2>1, IdleDrain
  <2> QED
    BY <1>1, <2>1, <2>2, RestFits DEF Heard
<1>4. CASE Awaited(f) /\ Current(drain)
  <2>1. f.word = query /\ query \in Words
    BY <1>1, <1>4 DEF Awaited, Current, SearchInv, FlightsFit
  <2>2. CASE value \in {"some", "empty"}
    <3>1. Pending
      BY <1>4 DEF Awaited, Current, Pending, Waiting
    <3> QED
      BY <1>1, <1>4, <2>1, <2>2, <3>1, GoesFits DEF Hears
  <2>3. CASE value \notin {"some", "empty"}
    <3>1. PICK shown \in {suggestions, Nothing} : Drained(others, shown)
      BY <1>4, <2>3 DEF Hears
    <3>2. remote' \in {suggestions, remote}
      BY <1>4, <2>3 DEF Hears
    <3>3. drain' \in Drain /\ drain'.page = 0 /\ drain'.req = 0
      BY <3>1, IdleDrain DEF Drained
    <3>4. flights' \subseteq Flights /\ FlightsFit' /\ (Waiting' => Pending)
      BY <3>1, <3>3, RestFits DEF Drained
    <3>5. busy' \in BOOLEAN
      BY <3>1 DEF Drained
    <3>6. suggestions' \in {suggestions, Nothing}
      BY <3>1 DEF Drained
    <3>7. drain'.req <= request
      BY <1>1, <3>3
    <3> QED
      BY <1>1, <3>2, <3>3, <3>4, <3>5, <3>6, <3>7 DEF Heard
  <2> QED
    BY <2>2, <2>3
<1> QED
  BY <1>2, <1>3, <1>4

-----------------------------------------------------------------------------
(* The invariant is inductive                                              *)

LEMMA SearchStarts == SearchConstants /\ SearchInit => SearchInv
<1> SUFFICES ASSUME SearchConstants, SearchInit
             PROVE  SearchInv
  OBVIOUS
<1>1. Idle \in Drain /\ Idle.page = 0 /\ Idle.req = 0 /\ 0 \in Ids
  BY IdleDrain DEF SearchConstants, Ids
<1>2. TypeOK
  <2>1. kept \in [Keys -> {"none", "some", "empty"}]
    BY DEF SearchInit
  <2>2. {busy, submitting} \subseteq BOOLEAN
    BY DEF SearchInit
  <2> QED
    BY <1>1, <2>1, <2>2 DEF SearchInit, TypeOK
<1>3. FlightsFit /\ SuggestionsFit
  BY <1>1 DEF SearchInit, FlightsFit, SuggestionsFit
<1>4. Numbered
  BY <1>1 DEF SearchInit, Numbered, Pending, Waiting, SearchConstants
<1> QED
  BY <1>2, <1>3, <1>4 DEF SearchInv

\* What is heard keeps the invariant, unless something new is asked.
LEMMA HeardKeeps ==
    ASSUME SearchConstants, SearchInv, Heard,
           UNCHANGED <<query, request, submitting, inputs>>,
           timer' \in {timer, Idle}, prompt' \in {prompt, 0},
           kept' \in [Keys -> {"none", "some", "empty"}]
    PROVE  SearchInv'
<1>1. Idle \in Drain /\ Idle.page = 0 /\ Idle.req = 0 /\ request \in Nat /\ 0 \in Ids
  BY IdleDrain DEF SearchConstants, SearchInv, TypeOK, Ids
<1>2. TypeOK'
  <2>1. {busy', submitting'} \subseteq BOOLEAN
    BY DEF Heard, SearchInv, TypeOK
  <2>2. {timer', drain'} \subseteq Drain /\ {request', prompt', inputs'} \subseteq Ids
    BY <1>1 DEF Heard, SearchInv, TypeOK
  <2> QED
    BY <2>1, <2>2 DEF Heard, SearchInv, TypeOK
<1>3. Pending' => Pending
  BY <1>1 DEF Heard, Pending, Waiting
<1>4. Numbered'
  BY <1>1, <1>3 DEF Heard, SearchInv, Numbered
<1>5. FlightsFit' /\ SuggestionsFit'
  BY DEF Heard, SearchInv, SuggestionsFit
<1> QED
  BY <1>2, <1>4, <1>5 DEF SearchInv

\* Flights that are left when one of them ends, or is late.
LEMMA SomeLeft ==
    ASSUME SearchInv, NEW f \in flights
    PROVE  /\ Left(flights \ {f}) /\ Left(flights)
           /\ Left((flights \ {f}) \cup {[f EXCEPT !.cached = FALSE]})
<1>1. flights \subseteq Flights
  BY DEF SearchInv, TypeOK
<1> DEFINE late == [f EXCEPT !.cached = FALSE]
<1>2. late \in Flights /\ late.by = f.by /\ late.word = f.word
  BY <1>1 DEF Flights
<1> HIDE DEF late
<1>3. Left((flights \ {f}) \cup {late})
  BY <1>1, <1>2 DEF Left
<1> QED
  BY <1>1, <1>3 DEF Left, late

\* A flight ends: what it found is kept, and its drain hears of it.
LEMMA EndsFits ==
    ASSUME SearchConstants, SearchInv, NEW f \in flights, NEW value, Ends(f, value),
           UNCHANGED <<query, request>>
    PROVE  Heard /\ kept' \in [Keys -> {"none", "some", "empty"}]
<1>1. Heard
  BY SomeLeft, HearsFits DEF Ends
<1>2. kept \in [Keys -> {"none", "some", "empty"}]
  BY DEF SearchInv, TypeOK
<1>3. kept' \in [Keys -> {"none", "some", "empty"}]
  <2>1. CASE value \in {"some", "empty"} /\ f.cached
    BY <1>2, <2>1 DEF Ends
  <2>2. CASE ~(value \in {"some", "empty"} /\ f.cached)
    BY <1>2, <2>2 DEF Ends
  <2> QED
    BY <2>1, <2>2
<1> QED
  BY <1>1, <1>3

LEMMA AnswersKeep ==
    ASSUME SearchConstants, SearchInv, NEW f \in flights, Answer(f) \/ Missing(f)
    PROVE  SearchInv'
<1>1. CASE Answer(f)
  <2>1. PICK value : Ends(f, value)
    BY <1>1 DEF Answer
  <2>2. UNCHANGED <<query, request, timer, prompt, submitting, inputs>>
    BY <1>1 DEF Answer
  <2> QED
    BY <2>1, <2>2, EndsFits, HeardKeeps
<1>2. CASE Missing(f) /\ f.by = request /\ f.word = query
  <2>1. /\ prompt' = f.by /\ busy' = FALSE
        /\ UNCHANGED <<kept, drain, suggestions, remote, flights, query, request, timer,
                       submitting, inputs>>
    BY <1>2 DEF Missing
  <2>2. Pending
    BY <1>2 DEF Pending, Waiting
  <2>3. TypeOK'
    <3>1. f.by \in Ids
      BY DEF SearchInv, TypeOK, Flights
    <3>2. {busy', submitting'} \subseteq BOOLEAN
      BY <2>1 DEF SearchInv, TypeOK
    <3> QED
      BY <2>1, <3>1, <3>2 DEF SearchInv, TypeOK
  <2> QED
    BY <2>1, <2>2, <2>3 DEF SearchInv, FlightsFit, Numbered, SuggestionsFit
<1>3. CASE Missing(f) /\ ~(f.by = request /\ f.word = query)
  <2>1. Ends(f, "failed") /\ UNCHANGED <<prompt, query, request, timer, submitting, inputs>>
    BY <1>3 DEF Missing
  <2> QED
    BY <2>1, EndsFits, HeardKeeps
<1> QED
  BY <1>1, <1>2, <1>3

LEMMA LateKeeps ==
    ASSUME SearchConstants, SearchInv, NEW f \in flights, TimesOut(f)
    PROVE  SearchInv'
<1>1. Heard
  <2>1. UNCHANGED <<query, request>>
        /\ Hears(f, "late", (flights \ {f}) \cup {[f EXCEPT !.cached = FALSE]})
    BY DEF TimesOut
  <2> QED
    BY <2>1, SomeLeft, HearsFits
<1>2. UNCHANGED <<query, request, timer, kept, prompt, submitting, inputs>>
  BY DEF TimesOut
<1> QED
  BY <1>1, <1>2, HeardKeeps DEF SearchInv, TypeOK

LEMMA PauseKeeps ==
    ASSUME SearchConstants, SearchInv, Pause
    PROVE  SearchInv'
<1>1. timer.page = 1 /\ timer' = Idle /\ UNCHANGED <<query, request, kept, prompt, submitting, inputs>>
  BY DEF Pause
<1>2. Left(flights)
  BY DEF SearchInv, TypeOK, Left
<1>3. /\ suggestions \in Words \cup {Nothing} /\ busy \in BOOLEAN
      /\ remote \in Words \cup {Nothing} /\ drain \in Drain /\ drain.req <= request
      /\ request \in Nat /\ timer \in Drain /\ flights \subseteq Flights /\ FlightsFit
  BY DEF SearchInv, TypeOK, Ids, SearchConstants, Numbered
<1>4. CASE Current(timer)
  <2>1. timer.word = query /\ query \in Words /\ Pending
    BY <1>1, <1>3, <1>4 DEF Current, Pending, Drain
  <2>2. 1 \in Pages
    BY DEF Pages
  <2>3. CASE Drained(flights, timer.word) /\ remote' = timer.word
    <3>1. drain' \in Drain /\ drain'.page = 0 /\ drain'.req = 0 /\ flights' = flights
      BY <2>3, IdleDrain DEF Drained
    <3>2. flights' \subseteq Flights /\ FlightsFit' /\ (Waiting' => Pending)
      BY <1>1, <1>2, <3>1, RestFits
    <3>3. busy' \in BOOLEAN
      BY <2>3 DEF Drained
    <3>4. suggestions' = query /\ remote' = query
      BY <2>1, <2>3 DEF Drained
    <3>5. Heard
      BY <1>3, <2>1, <3>1, <3>2, <3>3, <3>4 DEF Heard
    <3> QED
      BY <1>1, <3>5, HeardKeeps DEF SearchInv, TypeOK
  <2>4. CASE Ask(timer.word, 1, flights) /\ UNCHANGED <<busy, suggestions, remote>>
    <3>1. /\ flights' \subseteq Flights /\ drain' \in Drain
          /\ FlightsFit' /\ drain'.req = request
      BY <1>1, <1>2, <2>1, <2>2, <2>4, AskFits
    <3>2. Heard
      BY <1>3, <2>1, <2>4, <3>1 DEF Heard
    <3> QED
      BY <1>1, <3>2, HeardKeeps DEF SearchInv, TypeOK
  <2>5. CASE Goes(timer.word, 1, kept[<<timer.word, 1>>], flights)
    <3>1. Heard
      BY <1>1, <1>2, <2>1, <2>2, <2>5, GoesFits
    <3> QED
      BY <1>1, <3>1, HeardKeeps DEF SearchInv, TypeOK
  <2> QED
    BY <1>4, <2>3, <2>4, <2>5 DEF Pause
<1>5. CASE ~Current(timer)
  <2>1. UNCHANGED <<busy, suggestions, drain, flights, remote>>
    BY <1>5 DEF Pause
  <2>2. Heard
    BY <1>1, <1>3, <2>1 DEF Heard, FlightsFit, Waiting, Pending
  <2> QED
    BY <1>1, <2>2, HeardKeeps DEF SearchInv, TypeOK
<1> QED
  BY <1>4, <1>5

LEMMA DecideKeeps ==
    ASSUME SearchConstants, SearchInv, Decide
    PROVE  SearchInv'
<1>1. PICK f \in flights :
        /\ f.by = prompt
        /\ \/ /\ request' = request + 1
              /\ kept' = IF f.cached THEN [kept EXCEPT ![<<f.word, f.page>>] = "empty"] ELSE kept
              /\ flights' = flights \ {f} /\ drain' = Idle
              /\ UNCHANGED <<busy, suggestions, remote>>
           \/ UNCHANGED request /\ Ends(f, "failed")
  BY DEF Decide
<1>2. prompt # 0 /\ prompt' = 0 /\ UNCHANGED <<query, timer, submitting, inputs>>
  BY DEF Decide
<1>3. CASE UNCHANGED request /\ Ends(f, "failed")
  BY <1>2, <1>3, EndsFits, HeardKeeps
<1>4. CASE /\ request' = request + 1
           /\ kept' = IF f.cached THEN [kept EXCEPT ![<<f.word, f.page>>] = "empty"] ELSE kept
           /\ flights' = flights \ {f} /\ drain' = Idle
           /\ UNCHANGED <<busy, suggestions, remote>>
  <2>1. /\ request \in Nat /\ inputs \in Nat /\ MaxInputs \in Nat
        /\ request < inputs + inputs /\ inputs <= MaxInputs
    BY <1>2 DEF SearchInv, TypeOK, Ids, SearchConstants, Numbered, Pending
  <2>2. drain' \in Drain /\ drain'.page = 0 /\ drain'.req = 0
    BY <1>4, IdleDrain
  <2>3. kept' \in [Keys -> {"none", "some", "empty"}]
    <3>1. kept \in [Keys -> {"none", "some", "empty"}]
      BY DEF SearchInv, TypeOK
    <3>2. kept' = kept \/ kept' = [kept EXCEPT ![<<f.word, f.page>>] = "empty"]
      BY <1>4
    <3> QED
      BY <3>1, <3>2
  <2>4. request' \in Ids /\ 0 \in Ids
    BY <1>4, <2>1 DEF Ids
  <2>5. TypeOK'
    <3>1. {busy', submitting'} \subseteq BOOLEAN
      BY <1>2, <1>4 DEF SearchInv, TypeOK
    <3> QED
      BY <1>2, <1>4, <2>2, <2>3, <2>4, <3>1 DEF SearchInv, TypeOK
  <2>6. \A g \in flights' : g \in flights /\ g.by \in Nat /\ g.by <= request
    BY <1>4, <2>1 DEF SearchInv, TypeOK, FlightsFit, Flights, Ids
  <2>7. FlightsFit'
    BY <1>2, <1>4, <2>1, <2>2, <2>6 DEF SearchInv, FlightsFit
  <2>8. timer.req \in Nat /\ timer.req <= request
    BY <2>1 DEF SearchInv, TypeOK, Numbered, Drain, Ids
  <2>9. ~Pending'
    BY <1>2, <1>4, <2>1, <2>2, <2>6, <2>8 DEF Pending, Waiting
  <2>10. Numbered'
    BY <1>2, <1>4, <2>1, <2>2, <2>8, <2>9 DEF Numbered
  <2> QED
    BY <1>2, <1>4, <2>5, <2>7, <2>10 DEF SearchInv, SuggestionsFit
<1> QED
  BY <1>1, <1>3, <1>4

LEMMA TypeKeeps ==
    ASSUME SearchConstants, SearchInv, NEW text \in Words \cup {Link, Nothing}, Type(text)
    PROVE  SearchInv'
<1>1. /\ inputs < MaxInputs /\ inputs' = inputs + 1 /\ request' = request + 1
      /\ query' = text /\ suggestions' = Nothing /\ prompt' = 0
      /\ UNCHANGED <<drain, kept, remote, submitting>>
  BY DEF Type, Input, Refuse
<1>2. flights' \subseteq flights
  BY DEF Type, Refuse
<1>3. /\ request \in Nat /\ inputs \in Nat /\ MaxInputs \in Nat
      /\ request <= inputs + inputs /\ drain.req \in Nat /\ drain.req <= request
  BY DEF SearchInv, TypeOK, Ids, SearchConstants, Numbered, Drain
<1>4. request' \in Ids /\ inputs' \in Ids /\ 0 \in Ids
  BY <1>1, <1>3 DEF Ids
<1>5. timer' \in Drain /\ timer'.req <= request'
  <2>1. CASE text \in Words
    <3>1. timer' = [word |-> text, req |-> request', page |-> 1, on |-> 0]
      BY <2>1 DEF Type
    <3> QED
      BY <2>1, <3>1, <1>1, <1>3, <1>4 DEF Drain
  <2>2. CASE text \notin Words
    <3>1. timer' = Idle
      BY <2>2 DEF Type
    <3> QED
      BY <3>1, <1>1, <1>3, IdleDrain
  <2> QED
    BY <2>1, <2>2
<1>6. busy' \in BOOLEAN
  <2>1. busy' = (text \in Words)
    BY DEF Type
  <2> QED
    BY <2>1
<1>7. TypeOK'
  <2>1. {busy', submitting'} \subseteq BOOLEAN
    BY <1>1, <1>6 DEF SearchInv, TypeOK
  <2> QED
    BY <1>1, <1>2, <1>4, <1>5, <2>1 DEF SearchInv, TypeOK
<1>8. \A g \in flights' : g \in flights /\ g.by \in Nat /\ g.by <= request
  BY <1>2, <1>3 DEF SearchInv, TypeOK, FlightsFit, Flights, Ids
<1>9. FlightsFit'
  BY <1>1, <1>3, <1>8 DEF SearchInv, FlightsFit
<1>10. Numbered'
  BY <1>1, <1>3, <1>5 DEF Numbered
<1> QED
  BY <1>1, <1>7, <1>9, <1>10 DEF SearchInv, SuggestionsFit

LEMMA ClearKeeps ==
    ASSUME SearchConstants, SearchInv, Clear
    PROVE  SearchInv'
<1>1. /\ inputs < MaxInputs /\ inputs' = inputs + 1
      /\ query' = Nothing /\ suggestions' = Nothing /\ prompt' = 0 /\ busy' = FALSE
      /\ UNCHANGED <<request, timer, drain, kept, remote, submitting>>
  BY DEF Clear, Input, Refuse
<1>2. flights' \subseteq flights
  BY DEF Clear, Refuse
<1>3. /\ request \in Nat /\ inputs \in Nat /\ MaxInputs \in Nat
      /\ request <= inputs + inputs
  BY DEF SearchInv, TypeOK, Ids, SearchConstants, Numbered
<1>4. inputs' \in Ids /\ 0 \in Ids
  BY <1>1, <1>3 DEF Ids
<1>5. TypeOK'
  <2>1. {busy', submitting'} \subseteq BOOLEAN
    BY <1>1 DEF SearchInv, TypeOK
  <2> QED
    BY <1>1, <1>2, <1>4, <2>1 DEF SearchInv, TypeOK
<1>6. FlightsFit'
  BY <1>1, <1>2 DEF SearchInv, FlightsFit
<1>7. Numbered'
  BY <1>1, <1>3 DEF SearchInv, Numbered
<1> QED
  BY <1>1, <1>5, <1>6, <1>7 DEF SearchInv, SuggestionsFit

LEMMA SubmitKeeps ==
    ASSUME SearchConstants, SearchInv, Submit
    PROVE  SearchInv'
<1>1. /\ inputs < MaxInputs /\ inputs' = inputs + 1 /\ request' = request + 1
      /\ timer' = Idle /\ busy' = FALSE
      /\ UNCHANGED <<suggestions, drain, flights, kept, remote, prompt>>
  BY DEF Submit, Input
<1>2. query' \in {query, Title} /\ (query' = query \/ query' = Title)
  BY DEF Submit
<1>3. /\ request \in Nat /\ inputs \in Nat /\ MaxInputs \in Nat
      /\ request <= inputs + inputs /\ drain.req \in Nat /\ drain.req <= request
  BY DEF SearchInv, TypeOK, Ids, SearchConstants, Numbered, Drain
<1>4. request' \in Ids /\ inputs' \in Ids
  BY <1>1, <1>3 DEF Ids
<1>5. timer' \in Drain /\ timer'.req = 0
  BY <1>1, IdleDrain
<1>6. submitting' \in BOOLEAN
  BY DEF Submit
<1>7. TypeOK'
  <2>1. {busy', submitting'} \subseteq BOOLEAN
    BY <1>1, <1>6
  <2> QED
    BY <1>1, <1>2, <1>4, <1>5, <2>1 DEF SearchInv, TypeOK
<1>8. \A g \in flights : g.by \in Nat /\ g.by <= request
  BY <1>3 DEF SearchInv, TypeOK, FlightsFit, Flights, Ids
<1>9. FlightsFit'
  BY <1>1, <1>3, <1>8 DEF SearchInv, FlightsFit
<1>10. Numbered'
  BY <1>1, <1>3, <1>5 DEF Numbered
<1> QED
  BY <1>1, <1>2, <1>7, <1>9, <1>10 DEF SearchInv, SuggestionsFit

LEMMA SubmittedKeeps ==
    ASSUME SearchConstants, SearchInv, Submitted
    PROVE  SearchInv'
<1>1. /\ submitting' = FALSE
      /\ UNCHANGED <<request, busy, timer, drain, flights, kept, remote, prompt, inputs>>
      /\ \/ query' = Nothing /\ suggestions' = Nothing
         \/ UNCHANGED <<query, suggestions>>
  BY DEF Submitted
<1>2. TypeOK'
  <2>1. {busy', submitting'} \subseteq BOOLEAN
    BY <1>1 DEF SearchInv, TypeOK
  <2> QED
    BY <1>1, <2>1 DEF SearchInv, TypeOK
<1>3. FlightsFit' /\ SuggestionsFit'
  BY <1>1 DEF SearchInv, FlightsFit, SuggestionsFit
<1>4. Numbered'
  BY <1>1 DEF SearchInv, Numbered, Pending, Waiting
<1> QED
  BY <1>2, <1>3, <1>4 DEF SearchInv

LEMMA ForgetKeeps ==
    ASSUME SearchConstants, SearchInv, Forget
    PROVE  SearchInv'
<1>1. UNCHANGED <<query, request, busy, suggestions, timer, drain, flights, prompt,
                  submitting, inputs>>
  BY DEF Forget
<1>2. remote' \in {remote, Nothing}
  BY DEF Forget
<1>3. kept' \in [Keys -> {"none", "some", "empty"}]
  <2>1. kept \in [Keys -> {"none", "some", "empty"}]
    BY DEF SearchInv, TypeOK
  <2> QED
    BY <2>1 DEF Forget
<1>4. TypeOK'
  <2>1. {busy', submitting'} \subseteq BOOLEAN
    BY <1>1 DEF SearchInv, TypeOK
  <2> QED
    BY <1>1, <1>2, <1>3, <2>1 DEF SearchInv, TypeOK
<1> QED
  BY <1>1, <1>4 DEF SearchInv, FlightsFit, SuggestionsFit, Numbered, Pending, Waiting

LEMMA SearchSteps ==
    ASSUME SearchConstants, SearchInv, [SearchNext]_searchVars
    PROVE  SearchInv'
<1>1. CASE Users
  BY <1>1, ClearKeeps, SubmitKeeps, TypeKeeps DEF Users
<1>2. CASE Answers \/ Late
  BY <1>2, AnswersKeep, LateKeeps DEF Answers, Late
<1>3. CASE UNCHANGED searchVars
  BY <1>3 DEF searchVars, SearchInv, TypeOK, FlightsFit, SuggestionsFit, Numbered, Pending, Waiting
<1> QED
  BY <1>1, <1>2, <1>3, PauseKeeps, DecideKeeps, SubmittedKeeps, ForgetKeeps DEF SearchNext

-----------------------------------------------------------------------------
(* Theorems                                                                *)

\* Every variable has its type; the numbers of the requests stay below twice the inputs,
\* though a decision about the component takes one too.
THEOREM SearchTypes ==
    ASSUME SearchConstants
    PROVE  SearchSpec => []TypeOK
<1>1. SearchInit => SearchInv
  BY SearchStarts
<1>2. SearchInv /\ [SearchNext]_searchVars => SearchInv'
  BY SearchSteps
<1>3. SearchInv => TypeOK
  BY DEF SearchInv
<1> QED
  BY <1>1, <1>2, <1>3, PTL DEF SearchSpec

\* What is suggested was found for the text in the box, however late the searches of
\* earlier texts answer and whichever text shared them (search.js: isCurrent).
THEOREM SuggestionsAreCurrent ==
    ASSUME SearchConstants
    PROVE  SearchSpec => []SuggestionsFit
<1>1. SearchInit => SearchInv
  BY SearchStarts
<1>2. SearchInv /\ [SearchNext]_searchVars => SearchInv'
  BY SearchSteps
<1>3. SearchInv => SuggestionsFit
  BY DEF SearchInv
<1> QED
  BY <1>1, <1>2, <1>3, PTL DEF SearchSpec

-----------------------------------------------------------------------------
(* THE CONTROLS OF THE LIST                                                *)

\* There is one listener of the document whatever was put, and a gesture that
\* may still become a drag was not acted on.
OneListener == delegates = 1
NotYetDragged == drag = "candidate" => sent = 0

ControlsInv == ControlTypes /\ ControlsHold /\ OneListener /\ NotYetDragged

\* What a step makes of the selection.
SelectionFits ==
    /\ selectionMode \in BOOLEAN /\ selectedJobIds \subseteq Rows
    /\ selectedJobId \in Rows \cup {0}
    /\ selectedJobIds # {} => selectionMode

\* What it makes of the rows, of their marks and of the layer.
DrawnFits ==
    /\ list \subseteq Rows /\ own \subseteq list
    /\ marks = Marks(list, selectionMode, selectedJobIds, selectedJobId)
    /\ marks \in [Rows -> {"absent", "plain", "focus", "picked"}]
    /\ counted = Counted(selectionMode, selectedJobIds)
    /\ counted \in Nat
    /\ floating \in Rows \cup {0}
    /\ delegates = 1

GesturesFit ==
    /\ rowMenuJobId \in Rows \cup {0}
    /\ dragging \in Nat /\ sent \in Nat /\ clicks \in Nat /\ news \in Nat
    /\ drag \in {"none", "candidate", "asked"}
    /\ sent <= 1
    /\ drag = "candidate" => sent = 0

FlagsFit == echo \in BOOLEAN /\ closing \in BOOLEAN

LEMMA ControlParts ==
    ControlsInv <=> SelectionFits /\ DrawnFits /\ GesturesFit /\ FlagsFit
BY DEF ControlsInv, ControlTypes, ControlsHold, OneListener, NotYetDragged, SelectionFits,
       DrawnFits, GesturesFit, FlagsFit

\* The same of the next state: a renaming, which the provers do not see by themselves.
LEMMA ControlPartsNext ==
    ASSUME SelectionFits', DrawnFits', GesturesFit', FlagsFit' PROVE ControlsInv'
BY DEF ControlsInv, ControlTypes, ControlsHold, OneListener, NotYetDragged, SelectionFits,
       DrawnFits, GesturesFit, FlagsFit

LEMMA MarksAreMarks ==
    ASSUME NEW put, NEW picking, NEW ids, NEW focused
    PROVE  Marks(put, picking, ids, focused) \in [Rows -> {"absent", "plain", "focus", "picked"}]
BY DEF Marks, Mark

LEMMA CountIsNumber ==
    ASSUME ControlConstants, NEW picking, NEW ids, ids \subseteq Rows
    PROVE  Counted(picking, ids) \in Nat
<1>1. IsFiniteSet(ids)
  BY FS_Subset DEF ControlConstants
<1> QED BY <1>1, FS_CardinalityType DEF Counted

LEMMA DrawFits ==
    ASSUME ControlConstants, DrawnFits, SelectionFits', NEW put, put \subseteq Rows,
           rowMenuJobId' \in Rows \cup {0}, Draw(put)
    PROVE  DrawnFits'
<1>1. marks' \in [Rows -> {"absent", "plain", "focus", "picked"}]
  BY MarksAreMarks DEF Draw
<1>2. counted' \in Nat
  BY CountIsNumber DEF Draw, SelectionFits
<1>3. delegates' = 1
  BY DEF Draw, Rebound, DrawnFits
<1> QED BY <1>1, <1>2, <1>3 DEF Draw, DrawnFits

LEMMA PatchFits ==
    ASSUME ControlConstants, DrawnFits, SelectionFits', Patch
    PROVE  DrawnFits'
<1>1. marks' \in [Rows -> {"absent", "plain", "focus", "picked"}]
  BY MarksAreMarks DEF Patch
<1>2. counted' \in Nat
  BY CountIsNumber DEF Patch, SelectionFits
<1> QED BY <1>1, <1>2 DEF Patch, DrawnFits

\* Rows and selection as they were.
LEMMA SameFits ==
    ASSUME DrawnFits, UNCHANGED <<rows, selection, floating, delegates>>
    PROVE  DrawnFits'
BY DEF DrawnFits, rows, selection

LEMMA ControlsStart == ControlConstants /\ ControlInit => ControlsInv
<1> SUFFICES ASSUME ControlConstants, ControlInit PROVE ControlsInv
  OBVIOUS
<1>1. SelectionFits BY DEF ControlInit, SelectionFits
<1>2. DrawnFits
  <2>1. counted = Counted(selectionMode, selectedJobIds) /\ counted \in Nat
    BY DEF ControlInit, Counted
  <2>2. marks = Marks(list, selectionMode, selectedJobIds, selectedJobId)
    BY DEF ControlInit
  <2>3. marks \in [Rows -> {"absent", "plain", "focus", "picked"}]
    BY <2>2, MarksAreMarks
  <2> QED BY <2>1, <2>2, <2>3 DEF ControlInit, DrawnFits
<1>3. GesturesFit BY DEF ControlInit, GesturesFit
<1>4. FlagsFit BY DEF ControlInit, FlagsFit
<1> QED BY <1>1, <1>2, <1>3, <1>4, ControlParts

LEMMA SelectsKeep ==
    ASSUME ControlConstants, ControlsInv,
           \/ \E r \in Rows : ClickRow(r) \/ Check(r)
           \/ SelectAll \/ ToggleMode \/ ClickBlank
    PROVE  ControlsInv'
<1> SelectionFits /\ DrawnFits /\ GesturesFit /\ FlagsFit
  BY ControlParts
<1>1. ASSUME NEW r \in Rows, ClickRow(r) PROVE ControlsInv'
  <2>1. SelectionFits'
    BY <1>1 DEF ClickRow, Flip, SelectionFits
  <2>2. GesturesFit'
    BY <1>1 DEF ClickRow, Gesture, GesturesFit
  <2>3. Patch \/ Draw(list)
    BY <1>1 DEF ClickRow
  <2>4. DrawnFits'
    BY <2>1, <2>2, <2>3, DrawFits, PatchFits DEF GesturesFit, DrawnFits
  <2>5. FlagsFit'
    BY <1>1 DEF ClickRow, FlagsFit
  <2> QED BY <2>1, <2>2, <2>4, <2>5, ControlPartsNext
<1>2. ASSUME NEW r \in Rows, Check(r) PROVE ControlsInv'
  <2>1. SelectionFits'
    BY <1>2 DEF Check, SelectionFits
  <2>2. GesturesFit'
    BY <1>2 DEF Check, Gesture, GesturesFit
  <2>3. DrawnFits'
    BY <1>2, <2>1, PatchFits DEF Check
  <2>5. FlagsFit'
    BY <1>2 DEF Check, FlagsFit
  <2> QED BY <2>1, <2>2, <2>3, <2>5, ControlPartsNext
<1>3. CASE SelectAll
  <2>1. SelectionFits'
    BY <1>3 DEF SelectAll, SelectionFits, DrawnFits
  <2>2. GesturesFit'
    BY <1>3 DEF SelectAll, Gesture, GesturesFit
  <2>3. DrawnFits'
    BY <1>3, <2>1, <2>2, DrawFits DEF SelectAll, GesturesFit, DrawnFits
  <2>5. FlagsFit'
    BY <1>3 DEF SelectAll, FlagsFit
  <2> QED BY <2>1, <2>2, <2>3, <2>5, ControlPartsNext
<1>4. CASE ToggleMode
  <2>1. SelectionFits'
    BY <1>4 DEF ToggleMode, Toggles, SelectionFits
  <2>2. GesturesFit'
    BY <1>4 DEF ToggleMode, Toggles, Close, Gesture, GesturesFit
  <2>3. Draw(list)
    BY <1>4 DEF ToggleMode, Toggles
  <2>4. DrawnFits'
    BY <2>1, <2>2, <2>3, DrawFits DEF GesturesFit, DrawnFits
  <2>5. FlagsFit'
    BY <1>4 DEF ToggleMode, Toggles, Close, FlagsFit
  <2> QED BY <2>1, <2>2, <2>4, <2>5, ControlPartsNext
<1>5. CASE ClickBlank
  <2>1. SelectionFits'
    BY <1>5 DEF ClickBlank, SelectionFits
  <2>2. GesturesFit'
    BY <1>5 DEF ClickBlank, Gesture, GesturesFit
  <2>3. DrawnFits'
    BY <1>5, <2>1, <2>2, DrawFits DEF ClickBlank, GesturesFit, DrawnFits
  <2>5. FlagsFit'
    BY <1>5 DEF ClickBlank, FlagsFit
  <2> QED BY <2>1, <2>2, <2>3, <2>5, ControlPartsNext
<1> QED BY <1>1, <1>2, <1>3, <1>4, <1>5

LEMMA MenusKeep ==
    ASSUME ControlConstants, ControlsInv,
           \/ \E r \in Rows : ContextMenu(r) \/ MenuButton(r) \/ ClickButton(r)
           \/ \E kind \in {"acts", "opens", "asks"} : ClickMenu(kind)
           \/ ClosesMenu \/ Dismiss \/ EchoEnds
    PROVE  ControlsInv'
<1> SelectionFits /\ DrawnFits /\ GesturesFit /\ FlagsFit
  BY ControlParts
<1>1. ASSUME NEW r \in Rows, ContextMenu(r) PROVE ControlsInv'
  <2>1. SelectionFits'
    BY <1>1 DEF ContextMenu, Opened, SelectionFits
  <2>2. GesturesFit'
    BY <1>1 DEF ContextMenu, Opened, Gesture, GesturesFit
  <2>3. DrawnFits'
    BY <1>1, <2>1, <2>2, DrawFits DEF ContextMenu, Opened, GesturesFit, DrawnFits
  <2>5. FlagsFit'
    BY <1>1 DEF ContextMenu, Opened, FlagsFit
  <2> QED BY <2>1, <2>2, <2>3, <2>5, ControlPartsNext
<1>2. ASSUME NEW r \in Rows, MenuButton(r) PROVE ControlsInv'
  <2>1. SelectionFits'
    BY <1>2 DEF MenuButton, Opened, SelectionFits
  <2>2. GesturesFit'
    BY <1>2 DEF MenuButton, Opened, Gesture, GesturesFit
  <2>3. DrawnFits'
    BY <1>2, <2>1, <2>2, DrawFits DEF MenuButton, Opened, GesturesFit, DrawnFits
  <2>5. FlagsFit'
    BY <1>2 DEF MenuButton, Opened, FlagsFit
  <2> QED BY <2>1, <2>2, <2>3, <2>5, ControlPartsNext
<1>3. ASSUME NEW r \in Rows, ClickButton(r) PROVE ControlsInv'
  <2>1. SelectionFits'
    BY <1>3 DEF ClickButton, selection, SelectionFits
  <2>2. GesturesFit'
    BY <1>3 DEF ClickButton, Close, Gesture, GesturesFit, DrawnFits
  <2>3. Draw(list) \/ UNCHANGED <<rows, selection, floating, delegates>>
    BY <1>3 DEF ClickButton
  <2>4. DrawnFits'
    BY <2>1, <2>2, <2>3, DrawFits, SameFits DEF GesturesFit, DrawnFits
  <2>5. FlagsFit'
    BY <1>3 DEF ClickButton, Close, FlagsFit
  <2> QED BY <2>1, <2>2, <2>4, <2>5, ControlPartsNext
<1>4. ASSUME NEW kind \in {"acts", "opens", "asks"}, ClickMenu(kind) PROVE ControlsInv'
  <2>1. SelectionFits'
    BY <1>4 DEF ClickMenu, selection, SelectionFits
  <2>6. sent' \in {0, 1}
    BY <1>4 DEF ClickMenu, DrawnFits
  <2>7. rowMenuJobId' \in Rows \cup {0}
    BY <1>4 DEF ClickMenu, Close, GesturesFit
  <2>8. drag' = "none" /\ clicks' \in Nat /\ UNCHANGED <<dragging, news>>
    BY <1>4 DEF ClickMenu, Gesture, GesturesFit
  <2>2. GesturesFit'
    BY <2>6, <2>7, <2>8 DEF GesturesFit
  <2>3. Draw(list) \/ UNCHANGED <<rows, selection, floating, delegates>>
    BY <1>4 DEF ClickMenu
  <2>4. DrawnFits'
    BY <2>1, <2>2, <2>3, DrawFits, SameFits DEF GesturesFit, DrawnFits
  <2>5. FlagsFit'
    BY <1>4 DEF ClickMenu, Close, FlagsFit
  <2> QED BY <2>1, <2>2, <2>4, <2>5, ControlPartsNext
<1>5. CASE ClosesMenu \/ Dismiss
  <2>1. SelectionFits'
    BY <1>5 DEF ClosesMenu, Dismiss, selection, SelectionFits
  <2>2. GesturesFit'
    BY <1>5 DEF ClosesMenu, Dismiss, Close, Gesture, GesturesFit
  <2>3. Draw(list) \/ UNCHANGED <<rows, selection, floating, delegates>>
    BY <1>5 DEF ClosesMenu, Dismiss
  <2>4. DrawnFits'
    BY <2>1, <2>2, <2>3, DrawFits, SameFits DEF GesturesFit, DrawnFits
  <2>5. FlagsFit'
    BY <1>5 DEF ClosesMenu, Dismiss, Close, FlagsFit
  <2> QED BY <2>1, <2>2, <2>4, <2>5, ControlPartsNext
<1>6. CASE EchoEnds
  <2>1. SelectionFits' /\ GesturesFit'
    BY <1>6 DEF EchoEnds, selection, SelectionFits, GesturesFit
  <2>2. DrawnFits'
    BY <1>6, SameFits DEF EchoEnds
  <2>5. FlagsFit'
    BY <1>6 DEF EchoEnds, FlagsFit
  <2> QED BY <2>1, <2>2, <2>5, ControlPartsNext
<1> QED BY <1>1, <1>2, <1>3, <1>4, <1>5, <1>6

LEMMA DragsKeep ==
    ASSUME ControlsInv, (\E r \in Rows : Press(r)) \/ Drag \/ Release \/ Dragged
    PROVE  ControlsInv'
<1> SelectionFits /\ DrawnFits /\ GesturesFit /\ FlagsFit
  BY ControlParts
<1>1. UNCHANGED <<rows, selection, menu>>
  BY DEF Press, Drag, Release, Dragged
<1>2. SelectionFits'
  BY <1>1 DEF SelectionFits, selection
<1>3. DrawnFits'
  BY <1>1, SameFits DEF menu
<1>4. GesturesFit'
  BY <1>1 DEF Press, Drag, Release, Dragged, Gesture, GesturesFit, menu
<1>5. FlagsFit'
  BY <1>1 DEF FlagsFit, menu
<1> QED BY <1>2, <1>3, <1>4, <1>5, ControlPartsNext

LEMMA NewsKeep ==
    ASSUME ControlConstants, ControlsInv, NEW put \in SUBSET Rows, News(put)
    PROVE  ControlsInv'
<1> SelectionFits /\ DrawnFits /\ GesturesFit /\ FlagsFit
  BY ControlParts
<1>1. SelectionFits'
  BY DEF News, selection, SelectionFits
<1>2. GesturesFit'
  BY DEF News, GesturesFit
<1>5. FlagsFit'
  BY DEF News, FlagsFit
<1>3. CASE Draw(put)
  BY <1>1, <1>2, <1>3, <1>5, DrawFits, ControlPartsNext DEF GesturesFit
<1>4. CASE ~Draw(put)
  <2>1. /\ list' = put /\ own' = own \cap put
        /\ marks' = Marks(put, selectionMode, selectedJobIds, selectedJobId)
        /\ UNCHANGED <<counted, floating, delegates, selection>>
    BY <1>4 DEF News
  <2>2. marks' \in [Rows -> {"absent", "plain", "focus", "picked"}]
    BY <2>1, MarksAreMarks
  <2>3. DrawnFits'
    BY <2>1, <2>2 DEF DrawnFits, selection
  <2> QED BY <1>1, <1>2, <1>5, <2>3, ControlPartsNext
<1> QED BY <1>3, <1>4

LEMMA ControlSteps ==
    ASSUME ControlConstants, ControlsInv, [ControlNext]_controlVars
    PROVE  ControlsInv'
<1>1. CASE UNCHANGED controlVars
  BY <1>1 DEF controlVars, rows, selection, menu, ControlsInv, ControlTypes, ControlsHold,
              OneListener, NotYetDragged
<1>2. CASE ControlNext
  BY <1>2, SelectsKeep, MenusKeep, DragsKeep, NewsKeep DEF ControlNext
<1> QED BY <1>1, <1>2

\* A selection acts on what the list shows as selected, and a click or a drag is
\* acted on once, for any rows, clicks and news of the list.
THEOREM ControlsKeepTheirRows ==
    ASSUME ControlConstants PROVE ControlSpec => []ControlsHold
<1>1. ControlInit => ControlsInv BY ControlsStart
<1>2. ControlsInv /\ [ControlNext]_controlVars => ControlsInv' BY ControlSteps
<1>3. ControlsInv => ControlsHold BY DEF ControlsInv
<1> QED BY <1>1, <1>2, <1>3, PTL DEF ControlSpec

-----------------------------------------------------------------------------
(* THE SEARCH OF VIDEOS                                                    *)

\* Every search has its own number, none beyond the last one given.
SearchesNumbered ==
    \A f \in pages : f.id <= videoSearchRequestId /\ \A g \in pages : f.id = g.id => f = g

\* Who is asked about a component is asked about the search of the words shown.
DecisionIsCurrent ==
    /\ \A f \in Deciding : f.id = videoSearchRequestId /\ f.query = videoSearchQuery
    /\ videoSearchComponentPrompt => Deciding # {}

\* What is shown was found for the words shown, unless they are being searched.
ShownFits ==
    modal = "video-search" /\ ~videoSearchBusy /\ ~videoSearchComponentPrompt
        => videoSearchResults \in {NoQuery, videoSearchQuery}

VideoInv == VideoTypes /\ SearchesNumbered /\ DecisionIsCurrent /\ ShownFits

\* The types in parts, the flags by themselves.
VideoFlags == videoSearchBusy \in BOOLEAN /\ videoSearchComponentPrompt \in BOOLEAN
VideoTexts ==
    /\ modal \in {"none", "video-search"}
    /\ videoSearchQuery \in Queries \cup {NoQuery}
    /\ videoSearchResults \in Queries \cup {NoQuery}
VideoNumbers == videoSearchRequestId \in Nat /\ installs \in Nat /\ queries \in Nat

LEMMA VideoParts == VideoTypes <=> VideoFlags /\ VideoTexts /\ VideoNumbers /\ pages \subseteq Flight
BY DEF VideoTypes, VideoFlags, VideoTexts, VideoNumbers

LEMMA VideoPartsNext ==
    ASSUME VideoFlags', VideoTexts', VideoNumbers', pages' \subseteq Flight PROVE VideoTypes'
BY DEF VideoTypes, VideoFlags, VideoTexts, VideoNumbers

\* One consent asks for one installation.
LEMMA OneDecision ==
    ASSUME VideoTypes, SearchesNumbered, DecisionIsCurrent
    PROVE  IsFiniteSet(Deciding) /\ Cardinality(Deciding) \in Nat /\ Cardinality(Deciding) <= 1
<1>1. CASE Deciding = {}
  BY <1>1, FS_EmptySet
<1>2. CASE Deciding # {}
  <2>1. PICK f \in Deciding : TRUE
    BY <1>2
  <2>2. \A g \in Deciding : g = f
    BY <2>1 DEF DecisionIsCurrent, SearchesNumbered, Deciding
  <2>3. Deciding = {f}
    BY <2>1, <2>2
  <2>4. IsFiniteSet({f}) /\ Cardinality({f}) = 1
    BY FS_Singleton
  <2> QED BY <2>3, <2>4
<1> QED BY <1>1, <1>2

LEMMA VideoStarts == VideoInit => VideoInv
<1> SUFFICES ASSUME VideoInit PROVE VideoInv
  OBVIOUS
<1>1. VideoFlags BY DEF VideoInit, VideoFlags
<1>2. VideoTexts /\ VideoNumbers BY DEF VideoInit, VideoTexts, VideoNumbers
<1>3. pages = {} BY DEF VideoInit
<1>4. SearchesNumbered BY <1>3 DEF SearchesNumbered
<1>5. DecisionIsCurrent BY <1>3 DEF DecisionIsCurrent, Deciding, VideoInit
<1>6. ShownFits BY DEF ShownFits, VideoInit
<1> QED BY <1>1, <1>2, <1>3, <1>4, <1>5, <1>6, VideoParts DEF VideoInv

\* The dialog opens and closes, a decision falls: no search begins.
LEMMA DialogKeeps ==
    ASSUME VideoConstants, VideoInv,
           OpenDialog \/ CloseButton \/ DismissDialog \/ ClearState \/ Accept \/ Decline
    PROVE  VideoInv'
<1> VideoTypes /\ SearchesNumbered /\ DecisionIsCurrent /\ ShownFits
    /\ VideoFlags /\ VideoTexts /\ VideoNumbers /\ pages \subseteq Flight
  BY VideoParts DEF VideoInv
<1>1. pages' \in {pages, pages \ Deciding}
  BY DEF OpenDialog, CloseButton, DismissDialog, ClearState, Accept, Decline
<1>2. Cardinality(Deciding) \in Nat
  BY OneDecision
<1>3. VideoNumbers' /\ videoSearchRequestId <= videoSearchRequestId'
  BY <1>2 DEF OpenDialog, CloseButton, DismissDialog, ClearState, Accept, Decline, Acts, VideoNumbers
<1>4. VideoFlags'
  BY DEF OpenDialog, CloseButton, DismissDialog, ClearState, Accept, Decline, VideoFlags
<1>5. VideoTexts'
  BY DEF OpenDialog, CloseButton, DismissDialog, ClearState, Accept, Decline, VideoTexts
<1>6. SearchesNumbered'
  BY <1>1, <1>3 DEF SearchesNumbered, VideoNumbers, Flight
<1>7. Deciding' = IF pages' = pages THEN Deciding ELSE {}
  BY <1>1 DEF Deciding
<1>8. DecisionIsCurrent'
  <2>1. CASE OpenDialog
    BY <1>7, <2>1 DEF OpenDialog, DecisionIsCurrent
  <2>2. CASE DismissDialog
    BY <1>7, <2>2 DEF DismissDialog, DecisionIsCurrent
  <2>3. CASE CloseButton
    <3>1. Deciding' = {}
      BY <2>3 DEF CloseButton, Deciding
    <3>2. ~videoSearchComponentPrompt'
      BY <2>3 DEF CloseButton, DecisionIsCurrent
    <3> QED BY <3>1, <3>2 DEF DecisionIsCurrent
  <2>4. CASE ClearState \/ Accept \/ Decline
    <3>1. Deciding' = {}
      BY <2>4 DEF ClearState, Accept, Decline, Deciding
    <3>2. ~videoSearchComponentPrompt'
      BY <2>4 DEF ClearState, Accept, Decline
    <3> QED BY <3>1, <3>2 DEF DecisionIsCurrent
  <2> QED BY <2>1, <2>2, <2>3, <2>4
<1>9. ShownFits'
  <2>1. CASE Decline
    <3>1. \E f \in Deciding : IsCurrent(f)
      BY <2>1 DEF Decline, DecisionIsCurrent, IsCurrent
    <3> QED BY <2>1, <3>1 DEF Decline, ShownFits
  <2>2. CASE ~Decline
    BY <2>2 DEF OpenDialog, CloseButton, DismissDialog, ClearState, Accept, ShownFits
  <2> QED BY <2>1, <2>2
<1>10. pages' \subseteq Flight
  BY <1>1
<1> QED BY <1>3, <1>4, <1>5, <1>6, <1>8, <1>9, <1>10, VideoPartsNext DEF VideoInv

LEMMA SearchKeeps ==
    ASSUME VideoConstants, VideoInv, NEW words \in Queries, Search(words)
    PROVE  VideoInv'
<1> VideoTypes /\ SearchesNumbered /\ DecisionIsCurrent /\ ShownFits
    /\ VideoFlags /\ VideoTexts /\ VideoNumbers /\ pages \subseteq Flight
  BY VideoParts DEF VideoInv
<1> DEFINE new == [id |-> videoSearchRequestId + 1, query |-> words, at |-> "first"]
<1>1. pages' = (pages \ Deciding) \cup {new}
  BY DEF Search
<1>2. new \in Flight /\ new.at = "first" /\ new.id = videoSearchRequestId + 1
  BY DEF Flight, VideoNumbers
<1> HIDE DEF new
<1>3. VideoNumbers' /\ videoSearchRequestId' = videoSearchRequestId + 1
  BY DEF Search, Acts, VideoNumbers
<1>4. VideoFlags'
  BY DEF Search, VideoFlags
<1>5. VideoTexts'
  BY DEF Search, VideoTexts
<1>6. \A f \in pages : f.id \in Nat /\ f.id <= videoSearchRequestId
  BY DEF SearchesNumbered, Flight
<1>7. SearchesNumbered'
  BY <1>1, <1>2, <1>3, <1>6 DEF SearchesNumbered, VideoNumbers
<1>8. DecisionIsCurrent'
  <2>1. Deciding' = {}
    BY <1>1, <1>2 DEF Deciding
  <2> QED BY <2>1 DEF Search, DecisionIsCurrent
<1>9. ShownFits'
  BY DEF Search, ShownFits
<1>10. pages' \subseteq Flight
  BY <1>1, <1>2
<1> QED BY <1>3, <1>4, <1>5, <1>7, <1>8, <1>9, <1>10, VideoPartsNext DEF VideoInv

LEMMA PagesKeep ==
    ASSUME VideoConstants, VideoInv, NEW f \in pages,
           FirstPage(f) \/ SecondPage(f) \/ PageFails(f) \/ ComponentMissing(f)
    PROVE  VideoInv'
<1> VideoTypes /\ SearchesNumbered /\ DecisionIsCurrent /\ ShownFits
    /\ VideoFlags /\ VideoTexts /\ VideoNumbers /\ pages \subseteq Flight
  BY VideoParts DEF VideoInv
<1>1. f.at # "prompt" /\ f \in Flight
  BY DEF FirstPage, SecondPage, PageFails, ComponentMissing
<1>2. UNCHANGED <<modal, videoSearchRequestId, videoSearchQuery, installs, queries>>
  BY DEF FirstPage, SecondPage, PageFails, ComponentMissing
<1>3. VideoNumbers'
  BY <1>2 DEF VideoNumbers
<1>4. VideoFlags'
  BY DEF FirstPage, SecondPage, PageFails, ComponentMissing, VideoFlags
<1>5. VideoTexts'
  BY <1>1, <1>2 DEF FirstPage, SecondPage, PageFails, ComponentMissing, VideoTexts, Flight
<1>6. PICK to \in {"second", "prompt"} :
        \/ /\ pages' = pages \ {f}
           /\ videoSearchComponentPrompt' = videoSearchComponentPrompt
        \/ /\ pages' = (pages \ {f}) \cup {[f EXCEPT !.at = to]}
           /\ IsCurrent(f)
           /\ to = "prompt" => videoSearchComponentPrompt'
           /\ to = "second" => videoSearchComponentPrompt' = videoSearchComponentPrompt
  BY DEF FirstPage, SecondPage, PageFails, ComponentMissing
<1> DEFINE new == [f EXCEPT !.at = to]
<1>7. new \in Flight /\ new.id = f.id /\ new.query = f.query /\ new.at = to
  BY <1>1 DEF Flight
<1>8. pages' = pages \ {f} \/ pages' = (pages \ {f}) \cup {new}
  BY <1>6
<1> HIDE DEF new
<1>9. SearchesNumbered'
  BY <1>2, <1>7, <1>8 DEF SearchesNumbered
<1>10. pages' \subseteq Flight
  BY <1>7, <1>8
<1>11. DecisionIsCurrent'
  <2>1. CASE pages' = pages \ {f} /\ videoSearchComponentPrompt' = videoSearchComponentPrompt
    <3>1. Deciding' = Deciding
      BY <1>1, <2>1 DEF Deciding
    <3> QED BY <1>2, <2>1, <3>1 DEF DecisionIsCurrent
  <2>2. CASE pages' = (pages \ {f}) \cup {new} /\ to = "prompt" /\ IsCurrent(f)
    <3>1. Deciding' = Deciding \cup {new}
      BY <1>1, <1>7, <2>2 DEF Deciding
    <3> QED BY <1>2, <1>7, <2>2, <3>1 DEF DecisionIsCurrent, IsCurrent
  <2>3. CASE pages' = (pages \ {f}) \cup {new} /\ to = "second"
             /\ videoSearchComponentPrompt' = videoSearchComponentPrompt
    <3>1. Deciding' = Deciding
      BY <1>1, <1>7, <2>3 DEF Deciding
    <3> QED BY <1>2, <2>3, <3>1 DEF DecisionIsCurrent
  <2> QED BY <1>6, <2>1, <2>2, <2>3 DEF new
<1>12. ShownFits'
  BY <1>2 DEF FirstPage, SecondPage, PageFails, ComponentMissing, IsCurrent, ShownFits
<1> QED BY <1>3, <1>4, <1>5, <1>9, <1>10, <1>11, <1>12, VideoPartsNext DEF VideoInv

LEMMA VideoSteps ==
    ASSUME VideoConstants, VideoInv, [VideoNext]_videoVars
    PROVE  VideoInv'
<1>1. CASE UNCHANGED videoVars
  BY <1>1 DEF videoVars, VideoInv, VideoTypes, SearchesNumbered, DecisionIsCurrent, ShownFits, Deciding
<1>2. CASE VideoNext
  BY <1>2, DialogKeeps, SearchKeeps, PagesKeep DEF VideoNext
<1> QED BY <1>1, <1>2

\* Results are the words', and one consent installs once, for any words and answers.
THEOREM ResultsAreOfTheWords ==
    ASSUME VideoConstants PROVE VideoSpec => []VideoResultsFit
<1>1. VideoInit => VideoInv BY VideoStarts
<1>2. VideoInv /\ [VideoNext]_videoVars => VideoInv' BY VideoSteps
<1>3. VideoInv => VideoResultsFit BY OneDecision DEF VideoInv, VideoResultsFit, ShownFits
<1> QED BY <1>1, <1>2, <1>3, PTL DEF VideoSpec

-----------------------------------------------------------------------------
(* THE THUMBNAILS                                                          *)

(* Numbers and what is counted                                             *)

\* A set of numbers has a least one.
LEMMA HasLeast ==
    ASSUME NEW T \in SUBSET Nat, T # {}
    PROVE  \E n \in T : \A m \in T : n <= m
<1> DEFINE R == OpToRel(<, Nat)
<1>1. IsWellFoundedOn(R, Nat)
  BY NatLessThanWellFounded
<1>2. \A m, n \in Nat : m < n => <<m, n>> \in R
  BY DEF OpToRel
<1> HIDE DEF R
<1>3. \E x \in T : \A y \in T : ~(<<y, x>> \in R)
  BY <1>1, WFMin
<1>4. \A x, y \in T : ~(y < x) => x <= y
  OBVIOUS
<1> QED
  BY <1>2, <1>3, <1>4

\* One that is bounded has a greatest one.
LEMMA HasGreatest ==
    ASSUME NEW b \in Nat, NEW T \in SUBSET (0 .. b), T # {}
    PROVE  \E n \in T : \A m \in T : m <= n
<1> DEFINE Bounds == {c \in Nat : \A m \in T : m <= c}
<1>1. b \in Bounds
  OBVIOUS
<1>2. PICK c \in Bounds : \A d \in Bounds : c <= d
  BY <1>1, HasLeast
<1>3. ASSUME c \notin T PROVE FALSE
  <2>1. \A m \in T : m < c
    BY <1>2, <1>3
  <2>2. c # 0 /\ c - 1 \in Nat
    <3>1. PICK m \in T : m < c
      BY <2>1
    <3> QED
      BY <3>1
  <2>3. \A m \in T : m <= c - 1
    BY <2>1, <2>2
  <2>4. c - 1 \in Bounds
    BY <2>2, <2>3
  <2> QED
    BY <1>2, <2>2, <2>4
<1> QED
  BY <1>2, <1>3

\* The members of a set of numbers before which fewer than n of them stand ...
Foremost(S, n) == {m \in S : Cardinality({l \in S : l < m}) < n}

\* ... are no more than n.
LEMMA ForemostAreFew ==
    ASSUME NEW b \in Nat, NEW S \in SUBSET (0 .. b), NEW n \in Nat
    PROVE  IsFiniteSet(Foremost(S, n)) /\ Cardinality(Foremost(S, n)) <= n
<1> DEFINE Before(m) == {l \in S : l < m}
           F == Foremost(S, n)
<1>1. IsFiniteSet(S)
  <2>1. 0 \in Int /\ b \in Int
    OBVIOUS
  <2>2. IsFiniteSet(0 .. b)
    BY <2>1, FS_Interval
  <2> QED
    BY <2>2, FS_Subset
<1>2. /\ F \subseteq S
      /\ \A m \in S : m \in F <=> Cardinality(Before(m)) < n
  BY DEF Foremost
<1>3. \A m \in S : Before(m) \subseteq S /\ m \in Nat
  OBVIOUS
<1>4. \A m, l \in S : l \in Before(m) <=> l < m
  OBVIOUS
<1> HIDE DEF F, Before
<1>5. /\ IsFiniteSet(F) /\ Cardinality(F) \in Nat
      /\ \A m \in S : IsFiniteSet(Before(m)) /\ Cardinality(Before(m)) \in Nat
  BY <1>1, <1>2, <1>3, FS_Subset, FS_CardinalityType
<1>6. ASSUME F # {} PROVE Cardinality(F) <= n
  <2>1. PICK g \in F : \A m \in F : m <= g
    BY <1>2, <1>6, HasGreatest
  <2>2. F \ {g} \subseteq Before(g)
    <3>1. \A m \in F : m \in Nat
      BY <1>2, <1>3
    <3>2. \A m \in F \ {g} : m < g
      BY <2>1, <3>1
    <3> QED
      BY <1>2, <1>4, <3>2
  <2>3. Cardinality(F \ {g}) <= Cardinality(Before(g))
    BY <1>2, <1>5, <2>2, FS_Subset
  <2>4. Cardinality(F \ {g}) = Cardinality(F) - 1
    BY <1>5, FS_RemoveElement
  <2>5. Cardinality(Before(g)) < n /\ Cardinality(Before(g)) \in Nat
    BY <1>2, <1>5
  <2> QED
    BY <1>5, <2>3, <2>4, <2>5
<1>7. F = {} => Cardinality(F) <= n
  BY FS_EmptySet
<1> QED
  BY <1>5, <1>6, <1>7 DEF F

-----------------------------------------------------------------------------
(* The inductive invariant                                                 *)

\* What is loading is in the cache, still pending, and counted.
LoadsFit(s) ==
    /\ \A k \in Pictures : s.entries[k].loading => Cached(s, k) /\ s.entries[k].state = "pending"
    /\ s.active = Cardinality({k \in Pictures : s.entries[k].loading})
    /\ s.active <= Slots

\* Each place of the cache is one key's.
PlacesFit(at) ==
    /\ at \in [Pictures -> 0 .. Cardinality(Pictures)]
    /\ \A k \in Pictures : at[k] <= Cardinality({j \in Pictures : at[j] # 0})
    /\ \A j, k \in Pictures : at[j] = at[k] /\ at[k] # 0 => j = k

Stated == [places : [Pictures -> 0 .. Cardinality(Pictures)], entries : [Pictures -> Entry],
           queue : Seq(Pictures), active : Nat, images : [Images -> Image]]

ThumbFits(s) == s \in Stated /\ PlacesFit(s.places) /\ LoadsFit(s)

\* What holds of the module's state before and after every call of its functions.
ThumbInv == ThumbFits(State)

-----------------------------------------------------------------------------
(* The cache in order                                                      *)

LEMMA PicturesCounted ==
    ASSUME ThumbConstants
    PROVE  /\ IsFiniteSet(Pictures) /\ Cardinality(Pictures) \in Nat
           /\ \A K \in SUBSET Pictures :
                IsFiniteSet(K) /\ Cardinality(K) \in 0 .. Cardinality(Pictures)
<1>1. IsFiniteSet(Pictures)
  BY DEF ThumbConstants
<1>2. \A K \in SUBSET Pictures : IsFiniteSet(K) /\ Cardinality(K) <= Cardinality(Pictures)
  BY <1>1, FS_Subset
<1> QED
  BY <1>1, <1>2, FS_CardinalityType

\* Closing up keeps the order and makes places of it.
LEMMA ClosedUp ==
    ASSUME ThumbConstants, NEW at \in [Pictures -> Nat],
           \A j, k \in Pictures : at[j] = at[k] /\ at[k] # 0 => j = k
    PROVE  /\ PlacesFit(CloseUp(at))
           /\ \A k \in Pictures : CloseUp(at)[k] = 0 <=> at[k] = 0
<1> DEFINE UpTo(k) == {j \in Pictures : at[j] # 0 /\ at[j] <= at[k]}
<1>1. \A k \in Pictures : IsFiniteSet(UpTo(k)) /\ Cardinality(UpTo(k)) \in 0 .. Cardinality(Pictures)
  BY PicturesCounted
<1>2. ASSUME NEW k \in Pictures, at[k] # 0 PROVE Cardinality(UpTo(k)) # 0
  BY <1>1, <1>2, FS_EmptySet
<1>3. ASSUME NEW j \in Pictures, NEW k \in Pictures, at[j] # 0, at[j] < at[k]
      PROVE  Cardinality(UpTo(j)) # Cardinality(UpTo(k))
  <2>1. UpTo(j) \subseteq UpTo(k) /\ k \in UpTo(k) /\ k \notin UpTo(j)
    BY <1>3
  <2> QED
    BY <1>1, <2>1, FS_Subset
<1>4. \A k \in Pictures : CloseUp(at)[k] = IF at[k] = 0 THEN 0 ELSE Cardinality(UpTo(k))
  BY DEF CloseUp
<1>5. CloseUp(at) \in [Pictures -> 0 .. Cardinality(Pictures)]
  BY <1>1, PicturesCounted DEF CloseUp
<1> HIDE DEF UpTo
<1>6. \A k \in Pictures : CloseUp(at)[k] = 0 <=> at[k] = 0
  BY <1>2, <1>4
<1>7. ASSUME NEW j \in Pictures, NEW k \in Pictures,
             CloseUp(at)[j] = CloseUp(at)[k], CloseUp(at)[k] # 0
      PROVE  j = k
  <2>1. at[j] # 0 /\ at[k] # 0 /\ Cardinality(UpTo(j)) = Cardinality(UpTo(k))
    BY <1>4, <1>6, <1>7
  <2>2. at[j] \in Nat /\ at[k] \in Nat
    OBVIOUS
  <2>3. at[j] = at[k]
    BY <1>3, <2>1, <2>2
  <2> QED
    BY <2>1, <2>3
<1>8. ASSUME NEW k \in Pictures
      PROVE  CloseUp(at)[k] <= Cardinality({j \in Pictures : CloseUp(at)[j] # 0})
  <2>1. {j \in Pictures : CloseUp(at)[j] # 0} = {j \in Pictures : at[j] # 0}
    BY <1>6
  <2>2. /\ IsFiniteSet({j \in Pictures : at[j] # 0})
        /\ Cardinality({j \in Pictures : at[j] # 0}) \in Nat
    BY PicturesCounted
  <2>3. UpTo(k) \subseteq {j \in Pictures : at[j] # 0}
    BY DEF UpTo
  <2>4. Cardinality(UpTo(k)) <= Cardinality({j \in Pictures : at[j] # 0})
    BY <2>2, <2>3, FS_Subset
  <2> QED
    BY <1>4, <2>1, <2>2, <2>4
<1> QED
  BY <1>5, <1>6, <1>7, <1>8 DEF PlacesFit

-----------------------------------------------------------------------------
(* The functions of the module                                             *)

\* A key that is used again is the last one of the cache, and no other changes its state.
LEMMA TouchFits ==
    ASSUME ThumbConstants, NEW s \in Stated, PlacesFit(s.places), NEW k \in Pictures
    PROVE  /\ Touch(s, k) \in Stated /\ PlacesFit(Touch(s, k).places)
           /\ Touch(s, k) = [s EXCEPT !.places = Touch(s, k).places]
           /\ \A j \in Pictures : Cached(Touch(s, k), j) <=> Cached(s, j) \/ j = k
<1> DEFINE at == [s.places EXCEPT ![k] = Last(s)]
<1>1. Last(s) \in Nat \ {0} /\ \A j \in Pictures : s.places[j] < Last(s)
  <2>1. Cardinality({j \in Pictures : s.places[j] # 0}) \in Nat
    BY PicturesCounted
  <2>2. \A j \in Pictures : s.places[j] <= Cardinality({i \in Pictures : s.places[i] # 0})
    BY DEF PlacesFit
  <2>3. \A j \in Pictures : s.places[j] \in Nat
    BY PicturesCounted DEF Stated
  <2> QED
    BY <2>1, <2>2, <2>3 DEF Last, Cached
<1>2. s.places \in [Pictures -> Nat]
  BY PicturesCounted DEF Stated
<1>3. at \in [Pictures -> Nat] /\ \A j \in Pictures : at[j] = IF j = k THEN Last(s) ELSE s.places[j]
  BY <1>1, <1>2
<1>4. \A i, j \in Pictures : s.places[i] = s.places[j] /\ s.places[j] # 0 => i = j
  BY DEF PlacesFit
<1>5. \A i, j \in Pictures : at[i] = at[j] /\ at[j] # 0 => i = j
  BY <1>1, <1>2, <1>3, <1>4
<1>6. Touch(s, k) = [s EXCEPT !.places = CloseUp(at)]
  BY DEF Touch
<1> HIDE DEF at
<1>7. PlacesFit(CloseUp(at)) /\ \A j \in Pictures : CloseUp(at)[j] = 0 <=> at[j] = 0
  BY <1>3, <1>5, ClosedUp
<1>8. Touch(s, k).places = CloseUp(at) /\ Touch(s, k) \in Stated
  BY <1>6, <1>7 DEF Stated, PlacesFit
<1>9. \A j \in Pictures : Cached(Touch(s, k), j) <=> Cached(s, j) \/ j = k
  BY <1>1, <1>3, <1>7, <1>8 DEF Cached
<1> QED
  BY <1>6, <1>7, <1>8, <1>9

\* What loads is counted by its flags.
LEMMA LoadsStay ==
    ASSUME NEW s, NEW t, LoadsFit(s), t.active = s.active,
           \A k \in Pictures : t.entries[k].loading <=> s.entries[k].loading,
           \A k \in Pictures : s.entries[k].loading =>
                                 Cached(t, k) /\ t.entries[k].state = "pending"
    PROVE  LoadsFit(t)
<1>1. {k \in Pictures : t.entries[k].loading} = {k \in Pictures : s.entries[k].loading}
  OBVIOUS
<1> QED
  BY <1>1 DEF LoadsFit

LEMMA TouchKeeps ==
    ASSUME ThumbConstants, NEW s, ThumbFits(s), NEW k \in Pictures
    PROVE  /\ ThumbFits(Touch(s, k)) /\ Cached(Touch(s, k), k)
           /\ Touch(s, k).entries = s.entries /\ Touch(s, k).images = s.images
<1> DEFINE t == Touch(s, k)
<1>1. s \in Stated /\ PlacesFit(s.places) /\ LoadsFit(s)
  BY DEF ThumbFits
<1>2. /\ t \in Stated /\ PlacesFit(t.places) /\ t = [s EXCEPT !.places = t.places]
      /\ \A j \in Pictures : Cached(t, j) <=> Cached(s, j) \/ j = k
  BY <1>1, TouchFits
<1> HIDE DEF t
<1>3. t.entries = s.entries /\ t.active = s.active /\ t.images = s.images
  BY <1>1, <1>2 DEF Stated
<1>4. LoadsFit(t)
  BY <1>1, <1>2, <1>3, LoadsStay DEF LoadsFit
<1>5. ThumbFits(t) /\ Cached(t, k) /\ t.entries = s.entries /\ t.images = s.images
  BY <1>2, <1>3, <1>4 DEF ThumbFits
<1> QED
  BY <1>5 DEF t

LEMMA FreshIsEntry ==
    ASSUME NEW fallback \in {0} \cup Pictures
    PROVE  Fresh(fallback) \in Entry /\ Fresh(fallback).loading = FALSE
  BY DEF Fresh, Entry

\* An entry is made anew only when it is not loading.
LEMMA LookedKeeps ==
    ASSUME ThumbConstants, NEW s, ThumbFits(s), NEW k \in Pictures,
           NEW fallback \in {0} \cup Pictures
    PROVE  /\ ThumbFits(Looked(s, k, fallback)) /\ Cached(Looked(s, k, fallback), k)
           /\ Looked(s, k, fallback).images = s.images
<1> DEFINE old == s.entries[k]
           e == IF ~Cached(s, k) \/ old.state = "expired" THEN Fresh(fallback)
                ELSE IF old.fallbackUrl = 0 THEN [old EXCEPT !.fallbackUrl = fallback] ELSE old
           t == [s EXCEPT !.entries[k] = e]
<1>1. s \in Stated /\ PlacesFit(s.places) /\ LoadsFit(s)
  BY DEF ThumbFits
<1>2. old \in Entry
  BY <1>1 DEF Stated
<1>3. e \in Entry /\ (e.loading <=> old.loading) /\ (old.loading => e.state = "pending")
  <2>1. CASE ~Cached(s, k) \/ old.state = "expired"
    <3>1. e = Fresh(fallback) /\ ~old.loading
      BY <1>1, <2>1 DEF LoadsFit
    <3> QED
      BY <3>1, FreshIsEntry
  <2>2. CASE ~(~Cached(s, k) \/ old.state = "expired")
    <3>1. e = IF old.fallbackUrl = 0 THEN [old EXCEPT !.fallbackUrl = fallback] ELSE old
      BY <2>2
    <3>2. e \in Entry /\ e.loading = old.loading /\ e.state = old.state
      BY <1>2, <3>1 DEF Entry
    <3> QED
      BY <1>1, <3>2 DEF LoadsFit
  <2> QED
    BY <2>1, <2>2
<1>4. Looked(s, k, fallback) = Touch(t, k)
  BY DEF Looked
<1> HIDE DEF old, e
<1>5. /\ t \in Stated /\ t.places = s.places /\ t.active = s.active /\ t.images = s.images
      /\ \A j \in Pictures : t.entries[j] = IF j = k THEN e ELSE s.entries[j]
  BY <1>1, <1>3 DEF Stated
<1> HIDE DEF t
<1>6. \A j \in Pictures : t.entries[j].loading <=> s.entries[j].loading
  BY <1>3, <1>5 DEF old
<1>7. \A j \in Pictures : s.entries[j].loading => Cached(t, j) /\ t.entries[j].state = "pending"
  BY <1>1, <1>3, <1>5 DEF LoadsFit, Cached, old
<1>8. ThumbFits(t)
  BY <1>1, <1>5, <1>6, <1>7, LoadsStay DEF ThumbFits
<1> QED
  BY <1>4, <1>5, <1>8, TouchKeeps

\* Steps that change the images only.
LEMMA ImagesKeep ==
    ASSUME NEW s, ThumbFits(s), NEW shown \in [Images -> Image]
    PROVE  ThumbFits([s EXCEPT !.images = shown])
<1> DEFINE t == [s EXCEPT !.images = shown]
<1>1. s \in Stated /\ PlacesFit(s.places) /\ LoadsFit(s)
  BY DEF ThumbFits
<1>2. t \in Stated /\ t.places = s.places /\ t.entries = s.entries /\ t.active = s.active
  BY <1>1 DEF Stated
<1> HIDE DEF t
<1>3. LoadsFit(t)
  BY <1>1, <1>2, LoadsStay DEF LoadsFit, Cached
<1>4. ThumbFits(t)
  BY <1>1, <1>2, <1>3 DEF ThumbFits
<1> QED
  BY <1>4 DEF t

LEMMA ShowKeeps ==
    ASSUME NEW s, ThumbFits(s), NEW told, NEW k,
           NEW shown \in {"new", "observed", "pending", "loaded", "failed"}
    PROVE  ThumbFits(Show(s, told, k, shown))
<1>1. s.images \in [Images -> Image]
  BY DEF ThumbFits, Stated
<1>2. \A i \in Images : [s.images[i] EXCEPT !.shown = shown] \in Image
  BY <1>1 DEF Image
<1>3. [i \in Images |-> IF i \in Here(s, told) /\ (shown = "loaded" => s.images[i].key = k)
                        THEN [s.images[i] EXCEPT !.shown = shown] ELSE s.images[i]]
        \in [Images -> Image]
  BY <1>1, <1>2
<1> QED
  BY <1>3, ImagesKeep DEF Show

LEMMA AskedKeeps ==
    ASSUME ThumbConstants, NEW s, ThumbFits(s), NEW told, NEW k \in Pictures,
           NEW fallback \in {0} \cup Pictures
    PROVE  /\ ThumbFits(Asked(s, told, k, fallback))
           /\ k \notin Local => Cached(Asked(s, told, k, fallback), k)
<1> DEFINE shown == [i \in Images |->
                       IF i \in told THEN [s.images[i] EXCEPT !.key = k, !.shown = "pending"]
                       ELSE s.images[i]]
           t == [s EXCEPT !.images = shown]
<1>1. s.images \in [Images -> Image]
  BY DEF ThumbFits, Stated
<1>2. \A i \in Images : [s.images[i] EXCEPT !.key = k, !.shown = "pending"] \in Image
  BY <1>1 DEF Image
<1>3. shown \in [Images -> Image]
  BY <1>1, <1>2
<1>4. Asked(s, told, k, fallback) = IF k \in Local THEN t ELSE Looked(t, k, fallback)
  BY DEF Asked
<1> HIDE DEF shown
<1>5. ThumbFits(t)
  BY <1>3, ImagesKeep
<1> HIDE DEF t
<1> QED
  BY <1>4, <1>5, LookedKeeps

LEMMA JoinedKeeps ==
    ASSUME NEW s, ThumbFits(s), NEW told \in SUBSET Images, NEW k \in Pictures
    PROVE  ThumbFits(Joined(s, told, k))
<1> DEFINE old == s.entries[k]
           e == [old EXCEPT !.subscribers = old.subscribers \cup told,
                            !.queued = old.queued \/ ~old.loading]
           queue == IF old.queued \/ old.loading THEN s.queue ELSE Append(s.queue, k)
           t == [s EXCEPT !.entries = [s.entries EXCEPT ![k] = e], !.queue = queue]
<1>1. s \in Stated /\ PlacesFit(s.places) /\ LoadsFit(s)
  BY DEF ThumbFits
<1>2. old \in Entry
  BY <1>1 DEF Stated
<1>3. e \in Entry /\ e.loading = old.loading /\ e.state = old.state
  <2>1. (old.queued \/ ~old.loading) \in BOOLEAN
    OBVIOUS
  <2> QED
    BY <1>2, <2>1 DEF Entry
<1>4. queue \in Seq(Pictures)
  BY <1>1 DEF Stated
<1>5. Joined(s, told, k) = t
  BY <1>1, <1>2 DEF Joined, Stated, Entry
<1> HIDE DEF old, e, queue
<1>6. /\ t \in Stated /\ t.places = s.places /\ t.active = s.active
      /\ \A j \in Pictures : t.entries[j] = IF j = k THEN e ELSE s.entries[j]
  BY <1>1, <1>3, <1>4 DEF Stated
<1> HIDE DEF t
<1>7. \A j \in Pictures : t.entries[j].loading <=> s.entries[j].loading
  BY <1>3, <1>6 DEF old
<1>8. \A j \in Pictures : s.entries[j].loading => Cached(t, j) /\ t.entries[j].state = "pending"
  BY <1>1, <1>3, <1>6 DEF LoadsFit, Cached, old
<1> QED
  BY <1>1, <1>5, <1>6, <1>7, <1>8, LoadsStay DEF ThumbFits

\* The keys that are taken from the queue are no more than the free slots.
LEMMA StartsFit ==
    ASSUME ThumbConstants, NEW s, ThumbFits(s),
           NEW K, K = {s.queue[n] : n \in Starts(s) \cap Taken(s)}
    PROVE  /\ IsFiniteSet(K) /\ Cardinality(K) \in Nat /\ s.active + Cardinality(K) <= Slots
           /\ \A k \in K : k \in Pictures /\ Waits(s, k)
<1> DEFINE chosen == Starts(s) \cap Taken(s)
           free == Slots - s.active
<1>1. /\ s.queue \in Seq(Pictures) /\ Len(s.queue) \in Nat /\ s.active \in Nat
      /\ s.active <= Slots /\ free \in Nat
  BY DEF ThumbFits, Stated, LoadsFit, ThumbConstants
<1>2. Starts(s) \subseteq 1 .. Len(s.queue) /\ \A n \in Starts(s) : Waits(s, s.queue[n])
  BY DEF Starts, Turns
<1>3. Starts(s) \subseteq 0 .. Len(s.queue)
  BY <1>1, <1>2
<1>4. chosen = Foremost(Starts(s), free)
  <2>1. ASSUME NEW n \in Starts(s)
        PROVE  Cardinality({m \in Starts(s) : m < n}) \in Nat
    <3>1. 0 \in Int /\ Len(s.queue) \in Int
      BY <1>1
    <3>2. IsFiniteSet(0 .. Len(s.queue))
      BY <3>1, FS_Interval
    <3>3. {m \in Starts(s) : m < n} \subseteq 0 .. Len(s.queue)
      BY <1>3
    <3> QED
      BY <3>2, <3>3, FS_Subset, FS_CardinalityType
  <2>2. \A n \in Starts(s) : n \in Taken(s)
                               <=> Cardinality({m \in Starts(s) : m < n}) + s.active < Slots
    BY <1>2 DEF Taken
  <2>3. Slots \in Nat
    BY DEF ThumbConstants
  <2>4. \A n \in Starts(s) : n \in Taken(s) <=> Cardinality({m \in Starts(s) : m < n}) < free
    BY <1>1, <2>1, <2>2, <2>3
  <2> QED
    BY <2>4 DEF Foremost
<1>5. IsFiniteSet(chosen) /\ Cardinality(chosen) <= free /\ Cardinality(chosen) \in Nat
  BY <1>1, <1>3, <1>4, ForemostAreFew, FS_CardinalityType
<1>6. IsFiniteSet(K) /\ Cardinality(K) <= Cardinality(chosen)
  <2> DEFINE f == [n \in chosen |-> s.queue[n]]
  <2>1. f \in Surjection(chosen, K)
    BY DEF Surjection
  <2> HIDE DEF f
  <2> QED
    BY <1>5, <2>1, FS_Surjection
<1>7. \A k \in K : k \in Pictures /\ Waits(s, k)
  BY <1>1, <1>2
<1>8. Cardinality(K) \in Nat
  BY <1>6, FS_CardinalityType
<1> HIDE DEF chosen
<1>9. Slots \in Nat
  BY DEF ThumbConstants
<1> QED
  BY <1>1, <1>5, <1>6, <1>7, <1>8, <1>9

\* The one result of a step.
LEMMA OnceIs == ASSUME NEW result PROVE Once({result}) = result
  BY DEF Once

\* The queue is pumped until the slots are full.
LEMMA PumpKeeps ==
    ASSUME ThumbConstants, NEW s, ThumbFits(s)
    PROVE  ThumbFits(Pump(s))
<1> DEFINE turns  == {s.queue[n] : n \in Turns(s) \cap Taken(s)}
           starts == {s.queue[n] : n \in Starts(s) \cap Taken(s)}
           turned(k) == [s.entries[k] EXCEPT !.queued = FALSE, !.loading = k \in starts,
                              !.subscribers = Here(s, s.entries[k].subscribers)]
           entriesNow == [k \in Pictures |-> IF k \in turns THEN turned(k) ELSE s.entries[k]]
           queueNow == SubSeq(s.queue, Cardinality(Taken(s)) + 1, Len(s.queue))
           t == [s EXCEPT !.queue = queueNow, !.active = s.active + Cardinality(starts),
                          !.entries = entriesNow]
           Loading(e) == {k \in Pictures : e[k].loading}
<1>1. s \in Stated /\ PlacesFit(s.places) /\ LoadsFit(s)
  BY DEF ThumbFits
<1>2. s.entries \in [Pictures -> Entry] /\ s.queue \in Seq(Pictures) /\ s.active \in Nat
  BY <1>1 DEF Stated
<1>3. Pump(s) = t
  <2>1. {Pumped(u) : u \in {s}} = {Pumped(s)}
    OBVIOUS
  <2>2. Pumped(s) = t
    BY DEF Pumped
  <2> QED
    BY <2>1, <2>2, OnceIs DEF Pump
<1>4. /\ IsFiniteSet(starts) /\ Cardinality(starts) \in Nat
      /\ s.active + Cardinality(starts) <= Slots
      /\ \A k \in starts : k \in Pictures /\ Waits(s, k)
  BY StartsFit
<1>5. starts \subseteq turns /\ \A k \in turns : Waits(s, k)
  BY DEF Starts, Turns
<1>6. queueNow \in Seq(Pictures)
  <2>1. Taken(s) \subseteq 1 .. Len(s.queue) /\ Len(s.queue) \in Nat
    BY <1>2 DEF Taken
  <2>2. IsFiniteSet(1 .. Len(s.queue))
    <3>1. 1 \in Int /\ Len(s.queue) \in Int
      BY <2>1
    <3> QED
      BY <3>1, FS_Interval
  <2>3. Cardinality(Taken(s)) \in Nat
    BY <2>1, <2>2, FS_Subset, FS_CardinalityType
  <2> DEFINE first == Cardinality(Taken(s)) + 1
  <2>4. first \in 1 .. Len(s.queue) + 1
    <3>1. Cardinality(Taken(s)) <= Cardinality(1 .. Len(s.queue))
      BY <2>1, <2>2, FS_Subset
    <3>2. Cardinality(1 .. Len(s.queue)) = Len(s.queue)
      <4>1. 1 \in Int /\ Len(s.queue) \in Int
        BY <2>1
      <4>2. Cardinality(1 .. Len(s.queue)) =
              IF 1 > Len(s.queue) THEN 0 ELSE Len(s.queue) - 1 + 1
        BY <4>1, FS_Interval
      <4> QED
        BY <2>1, <4>2
    <3> QED
      BY <2>1, <2>3, <3>1, <3>2
  <2> HIDE DEF first
  <2>5. SubSeq(s.queue, first, Len(s.queue)) \in Seq(Pictures)
    BY <1>2, <2>1, <2>4
  <2> QED
    BY <2>5 DEF first
<1> HIDE DEF starts, turns, queueNow
<1>7. ASSUME NEW k \in turns, k \in Pictures
      PROVE  /\ turned(k) \in Entry /\ turned(k).state = s.entries[k].state
             /\ turned(k).loading = (k \in starts)
  <2>1. s.entries[k] \in Entry
    BY <1>2, <1>7
  <2>2. Here(s, s.entries[k].subscribers) \in SUBSET Images
    BY <2>1 DEF Here, Entry
  <2>3. (k \in starts) \in BOOLEAN
    OBVIOUS
  <2>4. turned(k) \in Entry
    BY <2>1, <2>2, <2>3 DEF Entry
  <2> QED
    BY <2>1, <2>4 DEF Entry
<1> HIDE DEF turned
<1>8. entriesNow \in [Pictures -> Entry]
  BY <1>2, <1>7
<1>9. \A k \in Pictures : entriesNow[k] = IF k \in turns THEN turned(k) ELSE s.entries[k]
  OBVIOUS
<1> HIDE DEF entriesNow
<1>10. /\ t.places = s.places /\ t.entries = entriesNow /\ t.queue = queueNow
       /\ t.active = s.active + Cardinality(starts) /\ t.images = s.images /\ t \in Stated
  <2>1. s.active + Cardinality(starts) \in Nat
    BY <1>2, <1>4
  <2> QED
    BY <1>1, <1>6, <1>8, <2>1 DEF Stated
<1> HIDE DEF t
<1>11. ASSUME NEW k \in Pictures
       PROVE  /\ k \in starts => ~s.entries[k].loading /\ entriesNow[k].loading
              /\ k \notin starts => (entriesNow[k].loading <=> s.entries[k].loading)
              /\ entriesNow[k].state = s.entries[k].state
              /\ k \in starts => Cached(s, k) /\ s.entries[k].state = "pending"
  <2>1. CASE k \in turns
    <3>1. entriesNow[k] = turned(k) /\ ~s.entries[k].loading /\ Waits(s, k)
      BY <1>5, <1>9, <2>1 DEF Waits
    <3> QED
      BY <1>7, <2>1, <3>1 DEF Waits
  <2>2. CASE k \notin turns
    BY <1>5, <1>9, <2>2
  <2> QED
    BY <2>1, <2>2
<1>12. Loading(entriesNow) = Loading(s.entries) \cup starts /\ Loading(s.entries) \cap starts = {}
  BY <1>4, <1>11
<1>13. IsFiniteSet(Loading(s.entries)) /\ s.active = Cardinality(Loading(s.entries))
  BY <1>1, PicturesCounted DEF LoadsFit
<1> HIDE DEF Loading
<1>14. t.active = Cardinality(Loading(entriesNow))
  <2>1. Cardinality(Loading(s.entries) \cup starts) =
          Cardinality(Loading(s.entries)) + Cardinality(starts)
            - Cardinality(Loading(s.entries) \cap starts)
    BY <1>4, <1>13, FS_Union
  <2>2. Cardinality(Loading(s.entries) \cap starts) = 0
    BY <1>12, FS_EmptySet
  <2> QED
    BY <1>2, <1>4, <1>10, <1>12, <1>13, <2>1, <2>2
<1>15. LoadsFit(t)
  BY <1>1, <1>4, <1>10, <1>11, <1>14 DEF LoadsFit, Loading, Cached
<1> QED
  BY <1>1, <1>3, <1>10, <1>15 DEF ThumbFits

LEMMA ServedKeeps ==
    ASSUME ThumbConstants, NEW s, ThumbFits(s), NEW told \in SUBSET Images, NEW k \in Pictures
    PROVE  ThumbFits(Served(s, told, k))
<1>1. ThumbFits(Show(s, told, k, "loaded"))
  BY ShowKeeps
<1>2. s.entries[k].state \in {"loaded", "failed"}
        => ThumbFits(Show(s, told, k, s.entries[k].state))
  BY ShowKeeps
<1>3. ThumbFits(Pump(Joined(s, told, k)))
  BY JoinedKeeps, PumpKeeps
<1> QED
  BY <1>1, <1>2, <1>3 DEF Served

LEMMA SubscribeLastKeeps ==
    ASSUME ThumbConstants, NEW s, ThumbFits(s), NEW told \in SUBSET Images, NEW k \in Pictures
    PROVE  ThumbFits(SubscribeLast(s, told, k))
<1>1. Here(s, told) \in SUBSET Images
  BY DEF Here
<1>2. ThumbFits(Asked(s, Here(s, told), k, 0))
  BY AskedKeeps
<1>3. {Served(asked, Here(s, told), k) : asked \in {Asked(s, Here(s, told), k, 0)}} =
        {Served(Asked(s, Here(s, told), k, 0), Here(s, told), k)}
  OBVIOUS
<1>4. ThumbFits(Served(Asked(s, Here(s, told), k, 0), Here(s, told), k))
  BY <1>1, <1>2, ServedKeeps
<1> QED
  BY <1>3, <1>4, OnceIs DEF SubscribeLast

LEMMA SubscribeKeeps ==
    ASSUME ThumbConstants, NEW s, ThumbFits(s), NEW i \in Images, NEW k \in Pictures,
           NEW fallback \in {0} \cup Pictures
    PROVE  ThumbFits(Subscribe(s, i, k, fallback))
<1> DEFINE asked == Asked(s, {i}, k, IF fallback # k THEN fallback ELSE 0)
           e == asked.entries[k]
<1>1. (IF fallback # k THEN fallback ELSE 0) \in {0} \cup Pictures
  OBVIOUS
<1>2. ThumbFits(asked)
  BY <1>1, AskedKeeps
<1>3. Subscribe(s, i, k, fallback) =
        IF ~s.images[i].connected THEN s ELSE SubscribeFirst(asked, i, k)
  <2>1. {SubscribeFirst(t, i, k) : t \in {asked}} = {SubscribeFirst(asked, i, k)}
    OBVIOUS
  <2> QED
    BY <2>1, OnceIs DEF Subscribe
<1> HIDE DEF asked
<1>4. e.fallbackUrl \in {0} \cup Pictures
  BY <1>2 DEF ThumbFits, Stated, Entry
<1>5. e.fallbackUrl # 0 => ThumbFits(SubscribeLast(asked, {i}, e.fallbackUrl))
  BY <1>2, <1>4, SubscribeLastKeeps
<1>6. ThumbFits(Served(asked, {i}, k))
  BY <1>2, ServedKeeps
<1>7. ThumbFits(SubscribeFirst(asked, i, k))
  BY <1>5, <1>6 DEF SubscribeFirst
<1> QED
  BY <1>3, <1>7

\* What is pending stays, so what loads stays.
LEMMA EvictKeeps ==
    ASSUME ThumbConstants, NEW s, ThumbFits(s)
    PROVE  ThumbFits(Evict(s))
<1> DEFINE old == {k \in Pictures : Cached(s, k) /\ s.entries[k].state # "pending"}
           earlier(k) == Cardinality({j \in old : s.places[j] < s.places[k]})
           gone == {k \in old : earlier(k) + CacheSize + 1 < Last(s)}
           at == [k \in Pictures |-> IF k \in gone THEN 0 ELSE s.places[k]]
           t == [s EXCEPT !.places = CloseUp(at)]
<1>1. s \in Stated /\ PlacesFit(s.places) /\ LoadsFit(s)
  BY DEF ThumbFits
<1>2. Evict(s) = t
  <2>1. {Evicted(u) : u \in {s}} = {Evicted(s)}
    OBVIOUS
  <2>2. Evicted(s) = t
    BY DEF Evicted
  <2> QED
    BY <2>1, <2>2, OnceIs DEF Evict
<1>3. \A k \in gone : s.entries[k].state # "pending"
  OBVIOUS
<1> HIDE DEF gone
<1>4. s.places \in [Pictures -> Nat]
  BY <1>1, PicturesCounted DEF Stated
<1>5. at \in [Pictures -> Nat] /\ \A k \in Pictures : at[k] = IF k \in gone THEN 0 ELSE s.places[k]
  BY <1>4
<1> HIDE DEF at
<1>6. \A j, k \in Pictures : at[j] = at[k] /\ at[k] # 0 => j = k
  BY <1>1, <1>5 DEF PlacesFit
<1>7. PlacesFit(CloseUp(at)) /\ \A k \in Pictures : CloseUp(at)[k] = 0 <=> at[k] = 0
  BY <1>5, <1>6, ClosedUp
<1>8. /\ t \in Stated /\ t.places = CloseUp(at) /\ t.entries = s.entries
      /\ t.active = s.active
  BY <1>1, <1>7 DEF Stated, PlacesFit
<1> HIDE DEF t
<1>9. \A k \in Pictures : s.entries[k].loading => Cached(t, k) /\ t.entries[k].state = "pending"
  BY <1>1, <1>3, <1>5, <1>7, <1>8 DEF LoadsFit, Cached
<1> QED
  BY <1>1, <1>2, <1>7, <1>8, <1>9, LoadsStay DEF ThumbFits

\* What has been loading gives its slot back.
LEMMA EndedKeeps ==
    ASSUME ThumbConstants, NEW s, ThumbFits(s), NEW k \in Pictures,
           s.entries[k].loading, NEW state \in {"loaded", "failed"}
    PROVE  /\ ThumbFits(Ended(s, k, state)) /\ Ended(s, k, state).entries[k] \in Entry
<1> DEFINE fresh == Fresh(s.entries[k].fallbackUrl)
           e == [fresh EXCEPT !.state = state]
           less == IF s.active > 0 THEN s.active - 1 ELSE 0
           t == [s EXCEPT !.entries[k] = e, !.active = less]
           Loading(es) == {j \in Pictures : es[j].loading}
<1>1. s \in Stated /\ PlacesFit(s.places) /\ LoadsFit(s)
  BY DEF ThumbFits
<1>2. s.entries[k] \in Entry /\ s.active \in Nat
  BY <1>1 DEF Stated
<1>3. fresh \in Entry /\ fresh.loading = FALSE
  BY <1>2, FreshIsEntry DEF Entry
<1> HIDE DEF fresh
<1>4. e \in Entry /\ e.loading = FALSE
  BY <1>3 DEF Entry
<1>5. Ended(s, k, state) = Touch(t, k)
  BY DEF Ended, fresh
<1> HIDE DEF e
<1>6. Loading(s.entries) \subseteq Pictures /\ k \in Loading(s.entries)
  BY <1>1 DEF Stated
<1>7. /\ IsFiniteSet(Loading(s.entries)) /\ s.active = Cardinality(Loading(s.entries))
      /\ s.active <= Slots
  BY <1>1, <1>6, PicturesCounted DEF LoadsFit
<1>8. s.active # 0 /\ less = s.active - 1 /\ less \in Nat
  BY <1>2, <1>6, <1>7, FS_EmptySet
<1>9. /\ t \in Stated /\ t.places = s.places /\ t.active = less
      /\ \A j \in Pictures : t.entries[j] = IF j = k THEN e ELSE s.entries[j]
  BY <1>1, <1>4, <1>8 DEF Stated
<1> HIDE DEF t
<1>10. Loading(t.entries) = Loading(s.entries) \ {k}
  BY <1>4, <1>9
<1> HIDE DEF Loading, less
<1>11. t.active = Cardinality(Loading(t.entries)) /\ t.active <= Slots
  <2>1. Cardinality(Loading(s.entries) \ {k}) = Cardinality(Loading(s.entries)) - 1
    BY <1>6, <1>7, FS_RemoveElement
  <2>2. Slots \in Nat
    BY DEF ThumbConstants
  <2> QED
    BY <1>2, <1>7, <1>8, <1>9, <1>10, <2>1, <2>2
<1>12. \A j \in Pictures : t.entries[j].loading => Cached(t, j) /\ t.entries[j].state = "pending"
  BY <1>1, <1>4, <1>9 DEF LoadsFit, Cached
<1>13. ThumbFits(t)
  BY <1>1, <1>9, <1>11, <1>12 DEF ThumbFits, LoadsFit, Loading
<1> QED
  BY <1>4, <1>5, <1>9, <1>13, TouchKeeps

LEMMA ToldKeeps ==
    ASSUME ThumbConstants, NEW s, ThumbFits(s), NEW told \in SUBSET Images, NEW k \in Pictures,
           NEW state \in {"loaded", "failed"}
    PROVE  ThumbFits(Told(s, told, k, state))
<1>1. s.entries[k].fallbackUrl \in {0} \cup Pictures
  BY DEF ThumbFits, Stated, Entry
<1>2. s.entries[k].fallbackUrl # 0 => ThumbFits(SubscribeLast(s, told, s.entries[k].fallbackUrl))
  BY <1>1, SubscribeLastKeeps
<1>3. ThumbFits(Show(s, told, k, state))
  BY ShowKeeps
<1> QED
  BY <1>2, <1>3 DEF Told

LEMMA SettleKeeps ==
    ASSUME ThumbConstants, NEW s, ThumbFits(s), NEW k \in Pictures, s.entries[k].loading,
           NEW state \in {"loaded", "failed"}
    PROVE  ThumbFits(Settle(s, k, state))
<1>1. s.entries[k].subscribers \in SUBSET Images
  BY DEF ThumbFits, Stated, Entry
<1>2. ThumbFits(Ended(s, k, state))
  BY EndedKeeps
<1>3. ThumbFits(Told(Ended(s, k, state), s.entries[k].subscribers, k, state))
  BY <1>1, <1>2, ToldKeeps
<1>4. {Told(ended, s.entries[k].subscribers, k, state) : ended \in {Ended(s, k, state)}} =
        {Told(Ended(s, k, state), s.entries[k].subscribers, k, state)}
  OBVIOUS
<1> QED
  BY <1>3, <1>4, OnceIs, EvictKeeps, PumpKeeps DEF Settle

-----------------------------------------------------------------------------
(* Every step                                                              *)

LEMMA BecomesKeeps ==
    ASSUME NEW s, ThumbFits(s), Becomes(s)
    PROVE  ThumbInv'
<1>1. s \in Stated
  BY DEF ThumbFits
<1>2. /\ places' = s.places /\ entries' = s.entries /\ loadQueue' = s.queue
      /\ activeLoads' = s.active /\ images' = s.images
  BY DEF Becomes
<1>3. State' = s
  BY <1>1, <1>2 DEF State, Stated
<1> QED
  BY <1>3 DEF ThumbInv

LEMMA ThumbStarts ==
    ASSUME ThumbConstants, ThumbInit
    PROVE  ThumbInv
<1>1. State \in Stated
  <2>1. Fresh(0) \in Entry
    BY FreshIsEntry
  <2>2. <<>> \in Seq(Pictures)
    BY EmptySeq
  <2>3. 0 \in 0 .. Cardinality(Pictures)
    BY PicturesCounted
  <2> QED
    BY <2>1, <2>2, <2>3 DEF ThumbInit, State, Stated, Image
<1>2. /\ State.places = [k \in Pictures |-> 0]
      /\ State.entries = [k \in Pictures |-> Fresh(0)] /\ State.active = 0
  BY DEF ThumbInit, State
<1>3. PlacesFit(State.places)
  <2>1. Cardinality({j \in Pictures : State.places[j] # 0}) \in Nat
    BY PicturesCounted
  <2>2. 0 \in 0 .. Cardinality(Pictures)
    BY PicturesCounted
  <2> QED
    BY <1>2, <2>1, <2>2 DEF PlacesFit
<1>4. LoadsFit(State)
  <2>1. {k \in Pictures : State.entries[k].loading} = {}
    BY <1>2, FreshIsEntry
  <2> QED
    BY <1>2, <2>1, FS_EmptySet, FreshIsEntry DEF LoadsFit, ThumbConstants
<1> QED
  BY <1>1, <1>3, <1>4 DEF ThumbInv, ThumbFits

LEMMA ThumbStep ==
    ASSUME ThumbConstants, ThumbInv, [ThumbNext]_thumbVars
    PROVE  ThumbInv'
<1>1. ThumbFits(State)
  BY DEF ThumbInv
<1>2. State \in Stated
  BY <1>1 DEF ThumbFits
<1>3. /\ State.entries = entries /\ State.images = images /\ State.places = places
      /\ entries \in [Pictures -> Entry] /\ images \in [Images -> Image]
  BY <1>2 DEF State, Stated
<1>4. ASSUME NEW s, ThumbFits(s), NEW i \in Images, s.images[i].connected
      PROVE  ThumbFits(Enqueue(s, i))
  <2>1. s.images[i].source \in Pictures /\ s.images[i].fallback \in {0} \cup Pictures
    BY <1>4 DEF ThumbFits, Stated, Image
  <2> QED
    BY <1>4, <2>1, SubscribeKeeps DEF Enqueue
<1>5. ASSUME NEW i \in Images, Appear(i) PROVE ThumbInv'
  <2>1. PICK source \in Pictures, fallback \in {0} \cup Pictures, eager \in BOOLEAN :
          LET put == [State EXCEPT !.images[i] =
                            [connected |-> TRUE, source |-> source, fallback |-> fallback,
                             key |-> 0, shown |-> "observed"]]
          IN Becomes(Evict(IF eager THEN Enqueue(put, i) ELSE put))
    BY <1>5 DEF Appear
  <2> DEFINE image == [connected |-> TRUE, source |-> source, fallback |-> fallback,
                       key |-> 0, shown |-> "observed"]
             shown == [images EXCEPT ![i] = image]
             put == [State EXCEPT !.images = shown]
  <2>2. Becomes(Evict(IF eager THEN Enqueue(put, i) ELSE put))
    BY <1>3, <2>1
  <2>3. image \in Image /\ image.connected
    BY DEF Image, ThumbConstants
  <2> HIDE DEF image
  <2>4. shown \in [Images -> Image] /\ shown[i] = image
    BY <1>3, <2>3
  <2> HIDE DEF shown
  <2>5. ThumbFits(put) /\ put.images = shown
    BY <1>1, <1>2, <2>4, ImagesKeep DEF Stated
  <2> HIDE DEF put
  <2>6. ThumbFits(IF eager THEN Enqueue(put, i) ELSE put)
    BY <1>4, <2>3, <2>4, <2>5
  <2> QED
    BY <2>2, <2>6, EvictKeeps, BecomesKeeps
<1>6. ASSUME NEW i \in Images, Intersect(i) PROVE ThumbInv'
  BY <1>1, <1>3, <1>4, <1>6, BecomesKeeps DEF Intersect
<1>7. ASSUME NEW i \in Images, Disconnect(i) PROVE ThumbInv'
  <2> DEFINE away == [images[i] EXCEPT !.connected = FALSE]
             shown == [images EXCEPT ![i] = away]
  <2>1. shown \in [Images -> Image]
    <3>1. images[i] \in Image
      BY <1>3
    <3>2. away \in Image
      BY <3>1 DEF Image
    <3> HIDE DEF away
    <3> QED
      BY <1>3, <3>2
  <2>2. /\ places' = places /\ entries' = entries /\ loadQueue' = loadQueue
        /\ activeLoads' = activeLoads /\ images' = shown
    BY <1>7 DEF Disconnect
  <2> HIDE DEF shown
  <2>3. State' = [State EXCEPT !.images = shown]
    BY <2>2 DEF State
  <2>4. ThumbFits([State EXCEPT !.images = shown])
    BY <1>1, <2>1, ImagesKeep
  <2> QED
    BY <2>3, <2>4 DEF ThumbInv
<1>8. ASSUME NEW i \in Images, LocalFails(i) PROVE ThumbInv'
  <2>1. images[i].fallback # 0 => images[i].fallback \in Pictures
    BY <1>3 DEF Image
  <2>2. images[i].fallback # 0 => ThumbFits(SubscribeLast(State, {i}, images[i].fallback))
    BY <1>1, <2>1, SubscribeLastKeeps
  <2>3. ThumbFits(Show(State, {i}, images[i].key, "failed"))
    BY <1>1, ShowKeeps
  <2> QED
    BY <1>8, <2>2, <2>3, BecomesKeeps DEF LocalFails
<1>9. ASSUME NEW k \in Pictures, Expire(k) PROVE ThumbInv'
  <2> DEFINE t == State'
             e == [entries[k] EXCEPT !.state = "expired"]
  <2>1. LoadsFit(State) /\ PlacesFit(State.places)
    BY <1>1 DEF ThumbFits
  <2>2. e \in Entry /\ e.loading = entries[k].loading /\ ~entries[k].loading
    BY <1>3, <1>9, <2>1 DEF Expire, Entry, LoadsFit
  <2> HIDE DEF e
  <2>3. entries' = [entries EXCEPT ![k] = e]
    BY <1>9 DEF Expire, e
  <2>4. /\ t.places = places /\ t.active = activeLoads /\ t.entries = entries' /\ t \in Stated
        /\ State.active = activeLoads
    BY <1>2, <1>3, <1>9, <2>2, <2>3 DEF Expire, State, Stated
  <2> HIDE DEF t
  <2>5. \A j \in Pictures : t.entries[j] = IF j = k THEN e ELSE entries[j]
    BY <1>3, <2>3, <2>4
  <2>6. LoadsFit(t)
    <3>1. t.active = State.active
      BY <2>4
    <3>2. \A j \in Pictures : t.entries[j].loading <=> State.entries[j].loading
      BY <1>3, <2>2, <2>5
    <3>3. \A j \in Pictures : State.entries[j].loading =>
                                 Cached(t, j) /\ t.entries[j].state = "pending"
      BY <1>3, <2>1, <2>2, <2>4, <2>5 DEF LoadsFit, Cached
    <3> QED
      BY <2>1, <3>1, <3>2, <3>3, LoadsStay
  <2>7. ThumbFits(t)
    BY <1>3, <2>1, <2>4, <2>6 DEF ThumbFits
  <2> QED
    BY <2>7 DEF ThumbInv, t
<1>10. ASSUME NEW k \in Pictures, Finish(k) PROVE ThumbInv'
  <2>1. PICK state \in {"loaded", "failed"} : Becomes(Settle(State, k, state))
    BY <1>10 DEF Finish
  <2>2. State.entries[k].loading
    BY <1>3, <1>10 DEF Finish
  <2> QED
    BY <1>1, <2>1, <2>2, SettleKeeps, BecomesKeeps
<1>11. UNCHANGED thumbVars => ThumbInv'
  <2>1. UNCHANGED thumbVars => State' = State
    BY DEF thumbVars, State
  <2> QED
    BY <1>1, <2>1 DEF ThumbInv
<1> QED
  BY <1>5, <1>6, <1>7, <1>8, <1>9, <1>10, <1>11 DEF ThumbNext, Page, Clock, Loads

LEMMA ThumbGives ==
    ASSUME ThumbInv
    PROVE  ThumbTypes /\ SlotsAreCounted
<1>1. State \in Stated /\ PlacesFit(State.places) /\ LoadsFit(State)
  BY DEF ThumbInv, ThumbFits
<1>2. /\ State.entries = entries /\ State.images = images /\ State.places = places
      /\ State.queue = loadQueue /\ State.active = activeLoads
  BY DEF State
<1> HIDE DEF State
<1>3. ThumbTypes
  BY <1>1, <1>2 DEF ThumbTypes, Stated, PlacesFit
<1>4. {k \in Pictures : places[k] # 0 /\ entries[k].loading} =
        {k \in Pictures : entries[k].loading}
  BY <1>1, <1>2 DEF LoadsFit, Cached
<1>5. SlotsAreCounted
  BY <1>1, <1>2, <1>4 DEF SlotsAreCounted, LoadsFit
<1> QED
  BY <1>3, <1>5

\* Every variable has its type, and each place of the cache is one key's.
THEOREM ThumbsKeepTypes == ASSUME ThumbConstants PROVE ThumbSpec => []ThumbTypes
<1>1. ThumbInit => ThumbInv
  BY ThumbStarts
<1>2. ThumbInv /\ [ThumbNext]_thumbVars => ThumbInv'
  BY ThumbStep
<1>3. ThumbInv => ThumbTypes
  BY ThumbGives
<1> QED
  BY <1>1, <1>2, <1>3, PTL DEF ThumbSpec

\* The slots in use are the entries being loaded, and no more than there are.
THEOREM SlotsStayCounted == ASSUME ThumbConstants PROVE ThumbSpec => []SlotsAreCounted
<1>1. ThumbInit => ThumbInv
  BY ThumbStarts
<1>2. ThumbInv /\ [ThumbNext]_thumbVars => ThumbInv'
  BY ThumbStep
<1>3. ThumbInv => SlotsAreCounted
  BY ThumbGives
<1> QED
  BY <1>1, <1>2, <1>3, PTL DEF ThumbSpec

-----------------------------------------------------------------------------
(* THE SNAPSHOT OF THE LIST                                                *)

\* What is read, kept and drawn are rows, and so is what the deltas under way bring.
SnapshotInv ==
    /\ listRows \in List!RowMap /\ view \in List!RowMap /\ drawn \in List!RowMap
    /\ seen \in List!RowMap
    /\ before \in List!RowMap /\ buffer \in List!RowMap
    /\ load \in [{"tick", "user"} -> List!Loads]
    /\ deltas \in Seq([job : Jobs, row : List!Row])

LEMMA RowMaps ==
           /\ List!Absent \in List!Row /\ List!NoRows \in List!RowMap
           /\ List!Idle \in List!Loads
           /\ \A base, live \in List!RowMap : buffer \in List!RowMap =>
                List!Projected(base, live) \in List!RowMap
                  /\ List!Buffered(base, live) \in List!RowMap
           /\ \A new \in List!RowMap : \A changed :
                drawn \in List!RowMap => List!Patched(new, changed) \in List!RowMap
           /\ \A partial \in List!RowMap :
                view \in List!RowMap => List!Merged(partial) \in List!RowMap
<1>1. List!Absent \in List!Row
  BY DEF List!Absent, List!Row
<1>2. List!NoRows \in List!RowMap
  BY <1>1 DEF List!NoRows, List!RowMap
<1>3. List!Idle \in List!Loads
  BY <1>2 DEF List!Idle, List!Loads
<1>4. ASSUME NEW base \in List!RowMap, NEW live \in List!RowMap, buffer \in List!RowMap
      PROVE  List!Projected(base, live) \in List!RowMap
               /\ List!Buffered(base, live) \in List!RowMap
  <2>1. \A j \in Jobs : base[j] \in List!Row /\ live[j] \in List!Row /\ buffer[j] \in List!Row
    BY <1>4 DEF List!RowMap
  <2> QED
    BY <1>1, <2>1 DEF List!Projected, List!Buffered, List!RowMap
<1>5. ASSUME NEW new \in List!RowMap, NEW changed, drawn \in List!RowMap
      PROVE  List!Patched(new, changed) \in List!RowMap
  <2>1. \A j \in Jobs : new[j] \in List!Row /\ drawn[j] \in List!Row
    BY <1>5 DEF List!RowMap
  <2> QED
    BY <1>5, <2>1 DEF List!Patched, List!RowMap
<1>6. ASSUME NEW partial \in List!RowMap, view \in List!RowMap
      PROVE List!Merged(partial) \in List!RowMap
  <2>1. \A j \in Jobs : partial[j] \in List!Row /\ view[j] \in List!Row
    BY <1>6 DEF List!RowMap
  <2> QED
    BY <2>1 DEF List!Merged, List!RowMap
<1> QED
  BY <1>1, <1>2, <1>3, <1>4, <1>5, <1>6

LEMMA SnapshotStart == List!SnapshotInit => SnapshotInv
<1> SUFFICES ASSUME List!SnapshotInit PROVE SnapshotInv
  OBVIOUS
<1>1. List!NoRows \in List!RowMap /\ List!Idle \in List!Loads
  BY RowMaps
<1>2. <<>> \in Seq([job : Jobs, row : List!Row])
  BY EmptySeq
<1> QED
  BY <1>1, <1>2 DEF List!SnapshotInit, SnapshotInv

LEMMA FinishKeeps ==
    ASSUME SnapshotInv, NEW s \in {"tick", "user"}, NEW new \in List!RowMap, List!Finish(s, new)
    PROVE  /\ view' \in List!RowMap /\ drawn' \in List!RowMap /\ seen' \in List!RowMap
           /\ before' \in List!RowMap
           /\ load' \in [{"tick", "user"} -> List!Loads] /\ UNCHANGED <<listRows, deltas>>
<1>1. List!Idle \in List!Loads /\ List!NoRows \in List!RowMap
        /\ \A changed : List!Patched(new, changed) \in List!RowMap
  BY RowMaps DEF SnapshotInv
<1>2. view' = new /\ load' = [load EXCEPT ![s] = List!Idle] /\ UNCHANGED <<listRows, deltas>>
  BY DEF List!Finish, List!outside
<1>3. drawn' \in List!RowMap /\ seen' \in {seen, new} /\ before' \in {before, List!NoRows}
  <2>1. CASE s = "tick"
    BY <1>1, <2>1 DEF List!Finish, SnapshotInv
  <2>2. CASE s # "tick"
    BY <1>1, <2>2 DEF List!Finish
  <2> QED
    BY <2>1, <2>2
<1> QED
  BY <1>1, <1>2, <1>3 DEF SnapshotInv

LEMMA SnapshotStep ==
    ASSUME SnapshotInv, [List!SnapshotNext]_(List!snapshotVars)
    PROVE  SnapshotInv'
<1>0. SnapshotInv
  OBVIOUS
<1>1. \A s \in {"tick", "user"} : load[s] \in List!Loads /\ load[s].got \in List!RowMap
  BY DEF SnapshotInv, List!Loads
<1>2. /\ List!Idle \in List!Loads /\ List!NoRows \in List!RowMap /\ List!Absent \in List!Row
      /\ \A new \in List!RowMap : \A changed : List!Patched(new, changed) \in List!RowMap
  BY RowMaps DEF SnapshotInv
<1> USE DEF List!outside, List!window, List!picture, List!loop, List!user
<1>3. ASSUME NEW j \in Jobs, List!Change(j) PROVE SnapshotInv'
  <2>1. PICK row \in List!Row :
          /\ listRows' = [listRows EXCEPT ![j] = row]
          /\ deltas' = IF mode = "v2" THEN Append(deltas, [job |-> j, row |-> row]) ELSE deltas
    BY <1>3 DEF List!Change
  <2>2. listRows' \in List!RowMap
    BY <1>0, <2>1 DEF SnapshotInv, List!RowMap
  <2>3. deltas' \in Seq([job : Jobs, row : List!Row])
    <3>1. [job |-> j, row |-> row] \in [job : Jobs, row : List!Row]
      OBVIOUS
    <3>2. Append(deltas, [job |-> j, row |-> row]) \in Seq([job : Jobs, row : List!Row])
      BY <1>0, <3>1, AppendProperties DEF SnapshotInv
    <3> QED
      BY <1>0, <2>1, <3>2 DEF SnapshotInv
  <2>4. UNCHANGED <<view, drawn, seen, before, buffer, load>>
    BY <1>3 DEF List!Change
  <2> QED
    BY <1>0, <2>2, <2>3, <2>4 DEF SnapshotInv
<1>4. ASSUME NEW j \in Jobs, List!Command(j) PROVE SnapshotInv'
  <2>1. [List!Idle EXCEPT !.phase = "asked", !.full = TRUE] \in List!Loads
    BY <1>2 DEF List!Idle, List!Loads
  <2>2. load' \in [{"tick", "user"} -> List!Loads]
    BY <1>0, <1>4, <2>1 DEF List!Command, SnapshotInv
  <2> QED
    BY <1>0, <1>4, <2>2 DEF List!Command, SnapshotInv
<1>5. ASSUME NEW s \in {"tick", "user"}, List!Reads(s) PROVE SnapshotInv'
  <2>1. \E got \in List!RowMap, phase \in {"read", "read_v2"} :
           load' = [load EXCEPT ![s].phase = phase, ![s].got = got]
    <3>1. ASSUME NEW got \in List!SnapshotOf(load[s].full) PROVE got \in List!RowMap
      <4>1. listRows \in List!RowMap
        BY <1>0 DEF SnapshotInv
      <4>2. CASE load[s].full
        BY <3>1, <4>1, <4>2 DEF List!SnapshotOf
      <4>3. CASE ~load[s].full
        BY <1>2, <3>1, <4>1, <4>3 DEF List!SnapshotOf, List!RowMap
      <4> QED
        BY <4>2, <4>3
    <3> QED
      BY <1>0, <1>5, <3>1 DEF List!Reads, SnapshotInv
  <2>2. load' \in [{"tick", "user"} -> List!Loads]
    <3>1. PICK got \in List!RowMap, phase \in {"read", "read_v2"} :
             load' = [load EXCEPT ![s].phase = phase, ![s].got = got]
      BY <2>1
    <3>2. load[s] \in List!Loads
      BY <1>1
    <3>3. [[load[s] EXCEPT !.phase = phase] EXCEPT !.got = got] \in List!Loads
      BY <3>2 DEF List!Loads
    <3>4. load' = [load EXCEPT ![s] = [[load[s] EXCEPT !.phase = phase] EXCEPT !.got = got]]
      BY <1>0, <3>1 DEF SnapshotInv
    <3> QED
      BY <1>0, <3>3, <3>4 DEF SnapshotInv
  <2> QED
    BY <1>0, <1>5, <2>2 DEF List!Reads, SnapshotInv
<1>6. ASSUME NEW s \in {"tick", "user"}, List!Applies(s) PROVE SnapshotInv'
  <2> DEFINE new == IF load[s].full THEN load[s].got ELSE List!Merged(load[s].got)
  <2>1. new \in List!RowMap
    BY <1>0, <1>1, RowMaps DEF SnapshotInv
  <2>2. CASE mode = "v2"
    <3>1. [load[s] EXCEPT !.phase = "asked_v2"] \in List!Loads
      BY <1>1 DEF List!Loads
    <3>2. load' = [load EXCEPT ![s].phase = "asked_v2"] /\ view' = new
          /\ UNCHANGED <<listRows, deltas, buffer, seen, drawn, before>>
      BY <1>6, <2>2 DEF List!Applies
    <3> HIDE DEF new
    <3> QED
      BY <1>0, <2>1, <3>1, <3>2 DEF SnapshotInv
  <2>3. CASE mode # "v2"
    <3>1. List!Finish(s, new) /\ UNCHANGED buffer
      BY <1>6, <2>3 DEF List!Applies
    <3> HIDE DEF new
    <3> QED
      BY <1>0, <2>1, <3>1, FinishKeeps DEF SnapshotInv
  <2> QED
    BY <2>2, <2>3
<1>7. ASSUME NEW s \in {"tick", "user"}, List!AppliesV2(s) PROVE SnapshotInv'
  <2>1. List!Projected(view, load[s].got) \in List!RowMap
          /\ List!Buffered(view, load[s].got) \in List!RowMap
    BY <1>0, <1>1, RowMaps DEF SnapshotInv
  <2> QED
    BY <1>0, <1>7, <2>1, FinishKeeps DEF List!AppliesV2, SnapshotInv
<1>8. ASSUME NEW s \in {"tick", "user"}, List!Fails(s) PROVE SnapshotInv'
  <2>1. CASE load[s].phase = "asked" /\ ~load[s].full
    <3>1. [load[s] EXCEPT !.full = TRUE] \in List!Loads
      BY <1>1 DEF List!Loads
    <3> QED
      BY <1>0, <1>8, <2>1, <3>1 DEF List!Fails, SnapshotInv
  <2>2. CASE ~(load[s].phase = "asked" /\ ~load[s].full)
    <3>1. List!Finish(s, view) /\ UNCHANGED buffer
      BY <1>8, <2>2 DEF List!Fails
    <3> QED
      BY <1>0, <3>1, FinishKeeps DEF SnapshotInv
  <2> QED
    BY <2>1, <2>2
<1>9. CASE List!Tick
  <2>1. view' = view /\ buffer' = buffer /\ UNCHANGED <<listRows, deltas>>
    BY <1>9 DEF List!Tick
  <2>2. drawn' \in List!RowMap /\ seen' \in {seen, view} /\ before' \in {before, view}
    BY <1>0, <1>2, <1>9 DEF List!Tick, SnapshotInv
  <2>3. load' \in [{"tick", "user"} -> List!Loads]
    <3>1. CASE UNCHANGED load
      BY <1>0, <3>1 DEF SnapshotInv
    <3>2. ASSUME NEW full \in BOOLEAN,
                 load' = [load EXCEPT !["tick"] =
                            [List!Idle EXCEPT !.phase = "asked", !.full = full]]
          PROVE  load' \in [{"tick", "user"} -> List!Loads]
      <4>1. [List!Idle EXCEPT !.phase = "asked", !.full = full] \in List!Loads
        BY <1>2 DEF List!Idle, List!Loads
      <4> QED
        BY <1>0, <3>2, <4>1 DEF SnapshotInv
    <3>3. (~manager \/ List!NeedsFull) \in BOOLEAN
      OBVIOUS
    <3> QED
      BY <1>9, <3>1, <3>2, <3>3 DEF List!Tick
  <2> QED
    BY <1>0, <2>1, <2>2, <2>3 DEF SnapshotInv
<1>10. CASE List!HearDelta
  <2> DEFINE delta == Head(deltas)
             live == [List!NoRows EXCEPT ![delta.job] = delta.row]
             new == IF delta.row = List!Absent THEN [view EXCEPT ![delta.job] = List!Absent]
                    ELSE List!Projected(view, live)
  <2>1. delta.job \in Jobs /\ delta.row \in List!Row
          /\ Tail(deltas) \in Seq([job : Jobs, row : List!Row])
    <3>1. deltas # <<>> /\ deltas \in Seq([job : Jobs, row : List!Row])
      BY <1>0, <1>10 DEF List!HearDelta, SnapshotInv
    <3>2. Head(deltas) \in [job : Jobs, row : List!Row]
            /\ Tail(deltas) \in Seq([job : Jobs, row : List!Row])
      BY <3>1, HeadTailProperties
    <3> QED
      BY <3>2
  <2>2. deltas' = Tail(deltas) /\ listRows' = listRows /\ seen' = seen /\ before' = before
          /\ load' = load
    <3>1. deltas' = Tail(deltas)
      BY <1>10, Zenon DEF List!HearDelta
    <3>2. UNCHANGED <<listRows, event, changes, List!window, seen, List!loop, load, List!user,
                      failures>>
      BY <1>10, Zenon DEF List!HearDelta
    <3> QED
      BY <3>1, <3>2
  <2>6. view' = new
    BY <1>10, Zenon DEF List!HearDelta
  <2>7. buffer' = IF delta.row = List!Absent THEN buffer ELSE List!Buffered(view, live)
    BY <1>10, Zenon DEF List!HearDelta
  <2>8. drawn' = IF delta.row # List!Absent /\ new[delta.job] = List!Absent THEN drawn
                 ELSE List!Patched(new, {delta.job})
    BY <1>10, Zenon DEF List!HearDelta
  <2> HIDE DEF delta
  <2>3. live \in List!RowMap
    BY <1>2, <2>1 DEF List!RowMap
  <2> HIDE DEF live
  <2>4. List!Projected(view, live) \in List!RowMap /\ List!Buffered(view, live) \in List!RowMap
    BY <1>0, <2>3, RowMaps DEF SnapshotInv
  <2>5. new \in List!RowMap
    BY <1>0, <1>2, <2>1, <2>4 DEF SnapshotInv, List!RowMap
  <2> HIDE DEF new
  <2> QED
    BY <1>0, <1>2, <2>1, <2>2, <2>4, <2>5, <2>6, <2>7, <2>8 DEF SnapshotInv
<1>11. CASE List!Rerender
  BY <1>0, <1>11 DEF List!Rerender, SnapshotInv
<1>12. CASE List!TickHidden \/ List!PeriodEnds \/ List!HearEvent \/ List!HideOrShow
  BY <1>0, <1>12
     DEF List!TickHidden, List!PeriodEnds, List!HearEvent, List!HideOrShow, SnapshotInv
<1>13. CASE UNCHANGED List!snapshotVars
  BY <1>0, <1>13 DEF List!snapshotVars, SnapshotInv
<1> QED
  BY <1>3, <1>4, <1>5, <1>6, <1>7, <1>8, <1>9, <1>10, <1>11, <1>12, <1>13
     DEF List!SnapshotNext, List!Loading, List!Interface

LEMMA SnapshotImplies == SnapshotInv => List!TypeOK
  BY DEF SnapshotInv, List!TypeOK

-----------------------------------------------------------------------------
(* THE DIALOGS                                                             *)

\* A dialog that deletes a row has one.
DialogInv == Dialog!TypeOK /\ (dialogModal = "delete" => modalJobId \in Removable)

LEMMA DialogStart == Dialog!DialogConstants /\ Dialog!DialogInit => DialogInv
  BY DEF Dialog!DialogConstants, Dialog!DialogInit, DialogInv, Dialog!TypeOK, Dialog!Statuses,
         Dialog!Asked, Dialog!Modals

LEMMA DialogStep ==
    ASSUME DialogInv, [Dialog!DialogNext]_(Dialog!dialogVars)
    PROVE  DialogInv'
<1>1. /\ jobs \in [Removable -> Dialog!Statuses] /\ copy \in [Removable -> Dialog!Statuses]
      /\ optimisticJobStatuses \in [Removable -> Dialog!Asked \cup {"none"}]
      /\ dialogSelectedJobIds \subseteq Removable /\ unshown \subseteq Removable
      /\ dialogModal \in Dialog!Modals /\ modalJobId \in {0} \cup Removable
      /\ deletePreview \in {0} \cup Removable
      /\ deletePreviewBusy \in BOOLEAN /\ deleteBusy \in BOOLEAN /\ bulkDeleteBusy \in BOOLEAN
      /\ invoked \subseteq Dialog!Call /\ (dialogModal = "delete" => modalJobId \in Removable)
  BY DEF DialogInv, Dialog!TypeOK
<1>2. ASSUME NEW c \in invoked
      PROVE  /\ c.rows \subseteq Removable /\ c.status \in Dialog!Statuses
             /\ [c EXCEPT !.kind = "refresh"] \in Dialog!Call
  <2>1. c \in Dialog!Call
    BY <1>1
  <2> QED
    BY <2>1 DEF Dialog!Call
<1>3. ASSUME NEW sort \in {"set", "preview", "cancel", "rename", "delete", "bulk", "refresh"},
             NEW those \in SUBSET Removable, NEW status \in Dialog!Statuses,
             Dialog!Invoke(sort, those, status)
      PROVE  invoked' \subseteq Dialog!Call
  <2>1. [kind |-> sort, rows |-> those, status |-> status] \in Dialog!Call
    BY DEF Dialog!Call
  <2> QED
    BY <1>1, <1>3, <2>1 DEF Dialog!Invoke
<1>4. ASSUME NEW c \in invoked, Dialog!Becomes(c, "refresh") \/ invoked' = invoked \ {c}
      PROVE  invoked' \subseteq Dialog!Call
  BY <1>1, <1>2, <1>4 DEF Dialog!Becomes
<1>5. Dialog!Asked \subseteq Dialog!Statuses /\ Dialog!Visible \subseteq Removable
        /\ "gone" \in Dialog!Statuses /\ "completed" \in Dialog!Statuses
      /\ "running" \in Dialog!Statuses
  BY DEF Dialog!Asked, Dialog!Statuses, Dialog!Visible
<1>6. {"none", "delete", "bulk-delete", "cancel", "rename"} = Dialog!Modals
  BY DEF Dialog!Modals
<1> USE DEF Dialog!dialog, Dialog!shown
<1>7. ASSUME NEW c \in invoked, Dialog!SetAnswered(c) PROVE DialogInv'
  <2>1. jobs' \in [Removable -> Dialog!Statuses]
          /\ optimisticJobStatuses' \in [Removable -> Dialog!Asked \cup {"none"}]
    BY <1>1, <1>2, <1>7 DEF Dialog!SetAnswered
  <2>2. invoked' \subseteq Dialog!Call
    BY <1>4, <1>7 DEF Dialog!SetAnswered
  <2>3. UNCHANGED <<copy, dialogSelectedJobIds, Dialog!dialog, unshown>>
    BY <1>7 DEF Dialog!SetAnswered
  <2> QED
    BY <1>1, <2>1, <2>2, <2>3 DEF DialogInv, Dialog!TypeOK
<1>8. ASSUME Dialog!Tick \/ \E c \in invoked : Dialog!Refreshed(c) PROVE DialogInv'
  <2>1. Dialog!Reads /\ invoked' \subseteq invoked
          /\ UNCHANGED <<jobs, dialogSelectedJobIds, Dialog!dialog, unshown>>
    BY <1>8 DEF Dialog!Tick, Dialog!Refreshed
  <2>2. copy' = jobs /\ optimisticJobStatuses' \in [Removable -> Dialog!Asked \cup {"none"}]
    BY <1>1, <2>1 DEF Dialog!Reads
  <2> QED
    BY <1>1, <2>1, <2>2 DEF DialogInv, Dialog!TypeOK
<1>9. ASSUME NEW c \in invoked, Dialog!PreviewAnswered(c) PROVE DialogInv'
  <2>1. deletePreview' \in {0} \cup Removable
    BY <1>2, <1>9 DEF Dialog!PreviewAnswered
  <2>2. invoked' \subseteq Dialog!Call
    BY <1>4, <1>9 DEF Dialog!PreviewAnswered
  <2>3. /\ deletePreviewBusy' = FALSE
        /\ UNCHANGED <<jobs, Dialog!shown, dialogSelectedJobIds, dialogModal, modalJobId,
                       deleteBusy, bulkDeleteBusy, unshown>>
    BY <1>9 DEF Dialog!PreviewAnswered
  <2> QED
    BY <1>1, <2>1, <2>2, <2>3 DEF DialogInv, Dialog!TypeOK
<1>10. ASSUME NEW c \in invoked, Dialog!DeleteAnswered(c) PROVE DialogInv'
  <2>1. jobs' \in [Removable -> Dialog!Statuses]
    BY <1>1, <1>5, <1>10 DEF Dialog!DeleteAnswered
  <2>2. invoked' \subseteq Dialog!Call
    BY <1>4, <1>10 DEF Dialog!DeleteAnswered
  <2>3. \/ dialogModal' = "none" /\ modalJobId' = 0 /\ deletePreview' = 0
        \/ UNCHANGED <<dialogModal, modalJobId, deletePreview>>
    BY <1>10 DEF Dialog!DeleteAnswered
  <2>4. /\ deleteBusy' = FALSE
        /\ UNCHANGED <<Dialog!shown, dialogSelectedJobIds, deletePreviewBusy, bulkDeleteBusy,
                       unshown>>
    BY <1>10 DEF Dialog!DeleteAnswered
  <2> QED
    BY <1>1, <1>6, <2>1, <2>2, <2>3, <2>4 DEF DialogInv, Dialog!TypeOK
<1>11. ASSUME NEW c \in invoked, Dialog!ConfirmAnswered(c) PROVE DialogInv'
  <2>1. jobs' \in [Removable -> Dialog!Statuses]
    BY <1>1, <1>5, <1>11 DEF Dialog!ConfirmAnswered
  <2>2. invoked' \subseteq Dialog!Call
    BY <1>4, <1>11 DEF Dialog!ConfirmAnswered
  <2>3. (dialogModal' = "none" /\ modalJobId' = 0) \/ UNCHANGED <<dialogModal, modalJobId>>
    BY <1>11 DEF Dialog!ConfirmAnswered
  <2>4. UNCHANGED <<Dialog!shown, dialogSelectedJobIds, deletePreview, deletePreviewBusy,
                    deleteBusy, bulkDeleteBusy, unshown>>
    BY <1>11 DEF Dialog!ConfirmAnswered
  <2> QED
    BY <1>1, <1>6, <2>1, <2>2, <2>3, <2>4 DEF DialogInv, Dialog!TypeOK
<1>12. ASSUME NEW c \in invoked, Dialog!BulkAnswered(c) PROVE DialogInv'
  <2>1. jobs' \in [Removable -> Dialog!Statuses] /\ dialogSelectedJobIds' \subseteq Removable
    BY <1>1, <1>5, <1>12 DEF Dialog!BulkAnswered
  <2>2. invoked' \subseteq Dialog!Call
    BY <1>4, <1>12 DEF Dialog!BulkAnswered
  <2>3. /\ bulkDeleteBusy' = FALSE /\ dialogModal' = "none"
        /\ UNCHANGED <<Dialog!shown, modalJobId, deletePreview, deletePreviewBusy, deleteBusy,
                       unshown>>
    BY <1>12 DEF Dialog!BulkAnswered
  <2> QED
    BY <1>1, <1>6, <2>1, <2>2, <2>3 DEF DialogInv, Dialog!TypeOK
<1>13. ASSUME NEW r \in Removable, Dialog!Expire(r) PROVE DialogInv'
  <2>1. optimisticJobStatuses' \in [Removable -> Dialog!Asked \cup {"none"}]
    BY <1>1, <1>13 DEF Dialog!Expire
  <2> QED
    BY <1>1, <1>13, <2>1 DEF Dialog!Expire, DialogInv, Dialog!TypeOK
<1>14. ASSUME Dialog!Moves PROVE DialogInv'
  <2>1. jobs' \in [Removable -> Dialog!Statuses]
    BY <1>1, <1>5, <1>14 DEF Dialog!Moves
  <2> QED
    BY <1>1, <1>14, <2>1 DEF Dialog!Moves, DialogInv, Dialog!TypeOK
<1>15. ASSUME NEW those \in SUBSET Removable, NEW status \in Dialog!Asked, Dialog!Set(those, status)
      PROVE DialogInv'
  <2>1. optimisticJobStatuses' \in [Removable -> Dialog!Asked \cup {"none"}]
    BY <1>1, <1>15 DEF Dialog!Set
  <2>2. invoked' \subseteq Dialog!Call
    BY <1>3, <1>5, <1>15 DEF Dialog!Set
  <2>3. UNCHANGED <<jobs, copy, dialogSelectedJobIds, Dialog!dialog, unshown>>
    BY <1>15 DEF Dialog!Set
  <2> QED
    BY <1>1, <2>1, <2>2, <2>3 DEF DialogInv, Dialog!TypeOK
<1>16. ASSUME NEW those \in SUBSET Removable, Dialog!Select(those) PROVE DialogInv'
  BY <1>1, <1>16 DEF Dialog!Select, DialogInv, Dialog!TypeOK
<1>17. ASSUME NEW r \in Removable, Dialog!OpenDelete(r) PROVE DialogInv'
  <2>1. invoked' \subseteq Dialog!Call
    BY <1>3, <1>5, <1>17 DEF Dialog!OpenDelete
  <2>2. /\ dialogModal' = "delete" /\ modalJobId' = r /\ deletePreview' = 0
        /\ deletePreviewBusy' = TRUE
        /\ UNCHANGED <<jobs, Dialog!shown, dialogSelectedJobIds, deleteBusy, bulkDeleteBusy,
                       unshown>>
    BY <1>17 DEF Dialog!OpenDelete
  <2> QED
    BY <1>1, <1>6, <2>1, <2>2 DEF DialogInv, Dialog!TypeOK
<1>18. ASSUME NEW r \in Removable, NEW sort \in Dialog!Modals, Dialog!OpenOther(sort, r)
      PROVE DialogInv'
  <2>1. /\ dialogModal' = sort /\ modalJobId' \in {modalJobId, r}
        /\ sort # "delete"
        /\ UNCHANGED <<jobs, Dialog!shown, dialogSelectedJobIds, deletePreview,
                       deletePreviewBusy, deleteBusy, bulkDeleteBusy, invoked, unshown>>
    BY <1>18 DEF Dialog!OpenOther
  <2> QED
    BY <1>1, <2>1 DEF DialogInv, Dialog!TypeOK
<1>19. ASSUME Dialog!CloseModal PROVE DialogInv'
  BY <1>1, <1>6, <1>19 DEF Dialog!CloseModal, DialogInv, Dialog!TypeOK
<1>20. ASSUME NEW storage \in BOOLEAN, Dialog!ConfirmDelete(storage) PROVE DialogInv'
  <2>1. modalJobId \in Removable
    BY <1>1, <1>20 DEF Dialog!ConfirmDelete
  <2>2. invoked' \subseteq Dialog!Call
    BY <1>3, <1>5, <1>20, <2>1 DEF Dialog!ConfirmDelete
  <2>3. unshown' \subseteq Removable
    BY <1>1, <1>20, <2>1 DEF Dialog!ConfirmDelete
  <2>4. /\ deleteBusy' = TRUE
        /\ UNCHANGED <<jobs, Dialog!shown, dialogSelectedJobIds, dialogModal, modalJobId,
                       deletePreview, deletePreviewBusy, bulkDeleteBusy>>
    BY <1>20 DEF Dialog!ConfirmDelete
  <2> QED
    BY <1>1, <2>2, <2>3, <2>4 DEF DialogInv, Dialog!TypeOK
<1>21. ASSUME NEW sort \in {"cancel", "rename"}, Dialog!Confirm(sort) PROVE DialogInv'
  <2>1. modalJobId \in Removable
    BY <1>1, <1>21 DEF Dialog!Confirm
  <2>2. invoked' \subseteq Dialog!Call
    BY <1>3, <1>5, <1>21, <2>1 DEF Dialog!Confirm
  <2> QED
    BY <1>1, <1>21, <2>2 DEF Dialog!Confirm, DialogInv, Dialog!TypeOK
<1>22. ASSUME Dialog!ConfirmBulk PROVE DialogInv'
  <2>1. invoked' \subseteq Dialog!Call
    BY <1>1, <1>3, <1>5, <1>22 DEF Dialog!ConfirmBulk
  <2> QED
    BY <1>1, <1>22, <2>1 DEF Dialog!ConfirmBulk, DialogInv, Dialog!TypeOK
<1>23. CASE UNCHANGED Dialog!dialogVars
  BY <1>23 DEF Dialog!dialogVars, DialogInv, Dialog!TypeOK
<1>24. CASE Dialog!Users
  <2>1. ASSUME NEW r \in Removable, NEW status \in Dialog!Asked, Dialog!Set({r}, status)
        PROVE DialogInv'
    BY <1>15, <2>1
  <2>2. ASSUME NEW status \in Dialog!Asked, Dialog!Set(dialogSelectedJobIds, status)
        PROVE DialogInv'
    BY <1>1, <1>15, <2>2
  <2> QED
    BY <1>16, <1>17, <1>18, <1>19, <1>20, <1>21, <1>22, <1>24, <2>1, <2>2 DEF Dialog!Users
<1> QED
  BY <1>7, <1>8, <1>9, <1>10, <1>11, <1>12, <1>13, <1>14, <1>23, <1>24
     DEF Dialog!DialogNext, Dialog!Answers, Dialog!Expires

-----------------------------------------------------------------------------
(* THE SETTINGS OF ROWS                                                    *)

\* The settings of the rows keep their types.
LEMMA SettingsStart == Settings!SettingConstants /\ Settings!SettingInit => Settings!TypeOK
  BY DEF Settings!SettingConstants, Settings!SettingInit, Settings!TypeOK,
         Settings!Priorities, Settings!Limits

LEMMA SettingsStep ==
    ASSUME Settings!SettingConstants, Settings!TypeOK,
           [Settings!SettingNext]_(Settings!settingVars)
    PROVE  Settings!TypeOK'
<1>1. /\ priority \in [Listings -> Settings!Priorities]
      /\ seenPriority \in [Listings -> Settings!Priorities]
      /\ limit \in [Listings -> Settings!Limits] /\ rate \in [Listings -> Settings!Limits]
      /\ running \in [Listings -> BOOLEAN] /\ seenRunning \in [Listings -> BOOLEAN]
      /\ optimisticJobPriorities \in [Listings -> Settings!Priorities \cup {"none"}]
      /\ requests \subseteq Settings!Call /\ settings \in Nat /\ shifts \in Nat
  BY DEF Settings!TypeOK
<1>2. ASSUME NEW c \in requests
      PROVE  /\ c.kind \in {"priority", "limit", "stop", "start", "refresh"}
             /\ c.rows \subseteq Listings /\ c.priority \in Settings!Priorities
             /\ c.limit \in Settings!Limits
             /\ \A sort \in {"stop", "start", "refresh"} :
                  [c EXCEPT !.kind = sort] \in Settings!Call
  <2>1. c \in Settings!Call
    BY <1>1
  <2> QED
    BY <2>1 DEF Settings!Call
<1>3. ASSUME NEW those \in SUBSET Listings, NEW wanted \in Settings!Priorities,
             Settings!SetPriority(those, wanted)
      PROVE  Settings!TypeOK'
  <2>1. [kind |-> "priority", rows |-> those, priority |-> wanted, limit |-> "unlimited"]
          \in Settings!Call
    BY DEF Settings!Call, Settings!Limits
  <2>2. /\ optimisticJobPriorities' \in [Listings -> Settings!Priorities \cup {"none"}]
        /\ requests' \subseteq Settings!Call /\ settings' \in Nat
        /\ UNCHANGED <<priority, limit, running, rate, seenPriority, seenRunning, shifts>>
    BY <1>1, <1>3, <2>1 DEF Settings!SetPriority, Settings!Input, Settings!downloads
  <2> QED
    BY <1>1, <2>2 DEF Settings!TypeOK
<1>4. ASSUME NEW r \in Listings, NEW wanted \in Settings!Limits, Settings!SetLimit(r, wanted)
      PROVE  Settings!TypeOK'
  <2>1. [kind |-> "limit", rows |-> {r}, priority |-> "normal", limit |-> wanted]
          \in Settings!Call
    BY DEF Settings!Call, Settings!Priorities
  <2>2. /\ requests' \subseteq Settings!Call /\ settings' \in Nat
        /\ UNCHANGED <<priority, limit, running, rate, seenPriority, seenRunning,
                       optimisticJobPriorities, shifts>>
    BY <1>1, <1>4, <2>1 DEF Settings!SetLimit, Settings!Input, Settings!downloads
  <2> QED
    BY <1>1, <2>2 DEF Settings!TypeOK
<1>5. ASSUME NEW c \in requests, Settings!PriorityAnswered(c) PROVE Settings!TypeOK'
  <2>1. /\ priority' \in [Listings -> Settings!Priorities] /\ requests' \subseteq Settings!Call
        /\ optimisticJobPriorities' \in [Listings -> Settings!Priorities \cup {"none"}]
    <3>1. CASE Settings!Taken(c)
      BY <1>1, <1>2, <3>1 DEF Settings!Taken, Settings!Becomes
    <3>2. CASE Settings!Refused(c)
      BY <1>1, <3>2 DEF Settings!Refused
    <3> QED
      BY <1>5, <3>1, <3>2 DEF Settings!PriorityAnswered
  <2>2. UNCHANGED <<limit, running, rate, seenPriority, seenRunning, settings, shifts>>
    BY <1>5 DEF Settings!PriorityAnswered, Settings!downloads
  <2> QED
    BY <1>1, <2>1, <2>2 DEF Settings!TypeOK
<1>6. ASSUME Settings!Tick \/ \E c \in requests : Settings!Refreshed(c) PROVE Settings!TypeOK'
  <2>1. Settings!Reads /\ requests' \subseteq requests
    BY <1>6 DEF Settings!Tick, Settings!Refreshed
  <2>2. /\ seenPriority' = priority /\ seenRunning' = running
        /\ optimisticJobPriorities' \in [Listings -> Settings!Priorities \cup {"none"}]
        /\ UNCHANGED <<priority, limit, running, rate, settings, shifts>>
    BY <1>1, <2>1 DEF Settings!Reads, Settings!downloads
  <2> QED
    BY <1>1, <2>1, <2>2 DEF Settings!TypeOK
<1>7. ASSUME NEW c \in requests, Settings!LimitAnswered(c) PROVE Settings!TypeOK'
  <2>1. /\ limit' \in [Listings -> Settings!Limits] /\ rate' \in [Listings -> Settings!Limits]
        /\ running' \in [Listings -> BOOLEAN] /\ requests' \subseteq Settings!Call
    <3>1. CASE Settings!Limited(c)
      BY <1>1, <1>2, <3>1 DEF Settings!Limited, Settings!Becomes
    <3>2. CASE Settings!Stopped(c)
      BY <1>1, <1>2, <3>2 DEF Settings!Stopped, Settings!Becomes
    <3>3. CASE Settings!Started(c)
      BY <1>1, <1>2, <3>3 DEF Settings!Started, Settings!Becomes
    <3>4. CASE requests' = requests \ {c} /\ UNCHANGED Settings!downloads
      BY <1>1, <3>4 DEF Settings!downloads
    <3> QED
      BY <1>7, <3>1, <3>2, <3>3, <3>4 DEF Settings!LimitAnswered
  <2>2. UNCHANGED <<priority, seenPriority, seenRunning, optimisticJobPriorities, settings,
                    shifts>>
    BY <1>7 DEF Settings!LimitAnswered
  <2> QED
    BY <1>1, <2>1, <2>2 DEF Settings!TypeOK
<1>8. ASSUME NEW r \in Listings, Settings!Expires(r) PROVE Settings!TypeOK'
  <2>1. /\ optimisticJobPriorities' \in [Listings -> Settings!Priorities \cup {"none"}]
        /\ UNCHANGED <<priority, limit, running, rate, seenPriority, seenRunning, requests,
                       settings, shifts>>
    BY <1>1, <1>8 DEF Settings!Expires, Settings!downloads
  <2> QED
    BY <1>1, <2>1 DEF Settings!TypeOK
<1>9. ASSUME NEW r \in Listings, Settings!Moves(r) PROVE Settings!TypeOK'
  <2>1. running' \in [Listings -> BOOLEAN]
    BY <1>1, <1>9 DEF Settings!Moves
  <2>2. rate' \in [Listings -> Settings!Limits] /\ shifts' \in Nat
    BY <1>1, <1>9 DEF Settings!Moves
  <2>3. UNCHANGED <<priority, limit, seenPriority, seenRunning, optimisticJobPriorities,
                    requests, settings>>
    BY <1>9 DEF Settings!Moves
  <2> QED
    BY <1>1, <2>1, <2>2, <2>3 DEF Settings!TypeOK
<1>10. CASE UNCHANGED Settings!settingVars
  BY <1>10 DEF Settings!settingVars, Settings!TypeOK
<1> QED
  BY <1>3, <1>4, <1>5, <1>6, <1>7, <1>8, <1>9, <1>10 DEF Settings!SettingNext, Settings!Answers

-----------------------------------------------------------------------------
(* THE PARTS TOGETHER                                                      *)

\* Whichever part moves, each of them takes a step of its own or rests.
LEMMA PartsStep ==
    ASSUME [MCNext]_partVars
    PROVE  /\ [SearchNext]_searchVars /\ [ThumbNext]_thumbVars
           /\ [ControlNext]_controlVars /\ [VideoNext]_videoVars
           /\ [List!SnapshotNext]_(List!snapshotVars)
           /\ [Dialog!DialogNext]_(Dialog!dialogVars)
           /\ [Settings!SettingNext]_(Settings!settingVars)
<1>0. /\ UNCHANGED listVars => UNCHANGED List!snapshotVars
      /\ UNCHANGED dialogVars => UNCHANGED Dialog!dialogVars
      /\ UNCHANGED setVars => UNCHANGED Settings!settingVars
  BY DEF listVars, List!snapshotVars, List!outside, List!window, List!picture, List!loop,
         List!user, dialogVars, Dialog!dialogVars, setVars, Settings!settingVars
<1>1. CASE UNCHANGED partVars
  BY <1>0, <1>1 DEF partVars
<1>2. ASSUME NEW part \in Parts, \A other \in Parts \ {part} : Still(other)
      PROVE  /\ part # "search" => UNCHANGED searchVars
             /\ part # "thumb" => UNCHANGED thumbVars
             /\ part # "ctrl" => UNCHANGED controlVars
             /\ part # "video" => UNCHANGED videoVars
             /\ part # "list" => UNCHANGED List!snapshotVars
             /\ part # "dialog" => UNCHANGED Dialog!dialogVars
             /\ part # "set" => UNCHANGED Settings!settingVars
  <2>2. \A other \in Parts : other # part => Still(other)
    BY <1>2
  <2>3. /\ Still("search") => UNCHANGED searchVars
        /\ Still("thumb") => UNCHANGED thumbVars
        /\ Still("ctrl") => UNCHANGED controlVars
        /\ Still("video") => UNCHANGED videoVars
        /\ Still("list") => UNCHANGED listVars
        /\ Still("dialog") => UNCHANGED dialogVars
        /\ Still("set") => UNCHANGED setVars
    BY DEF Still
  <2> QED
    BY <1>0, <2>2, <2>3 DEF Parts
<1>3. CASE Alone("search", SearchNext)
  BY <1>2, <1>3 DEF Alone, In, Parts
<1>4. CASE Alone("thumb", ThumbNext)
  BY <1>2, <1>4 DEF Alone, In, Parts
<1>5. CASE Alone("ctrl", ControlNext)
  BY <1>2, <1>5 DEF Alone, In, Parts
<1>6. CASE Alone("video", VideoNext)
  BY <1>2, <1>6 DEF Alone, In, Parts
<1>7. CASE Alone("list", List!SnapshotNext)
  BY <1>2, <1>7 DEF Alone, In, Parts
<1>8. CASE Alone("dialog", Dialog!DialogNext)
  BY <1>2, <1>8 DEF Alone, In, Parts
<1>9. CASE Alone("set", Settings!SettingNext)
  BY <1>2, <1>9 DEF Alone, In, Parts
<1> QED
  BY <1>1, <1>3, <1>4, <1>5, <1>6, <1>7, <1>8, <1>9 DEF MCNext

\* Images are loaded in the slots there are, each counted once, and the results of videos
\* are of the words that are shown, for every behaviour of the page's parts together.
THEOREM SlotsAndResults == MCSpec => []PartsHold
<1>1. ThumbConstants /\ VideoConstants
  BY PartAssumption
<1>2. MCInit => ThumbInv /\ VideoInv
  BY <1>1, ThumbStarts, VideoStarts DEF MCInit
<1>3. ThumbInv /\ VideoInv /\ [MCNext]_partVars => ThumbInv' /\ VideoInv'
  BY <1>1, PartsStep, ThumbStep, VideoSteps
<1>4. ThumbInv /\ VideoInv => PartsHold
  BY ThumbGives, OneDecision DEF PartsHold, VideoInv, VideoResultsFit, ShownFits
<1> QED
  BY <1>2, <1>3, <1>4, PTL DEF MCSpec

\* What holds of each part, whichever of them moves.
PageInv ==
    /\ SearchInv /\ ThumbInv /\ ControlsInv /\ VideoInv
    /\ SnapshotInv /\ DialogInv /\ Settings!TypeOK

LEMMA PageStarts == MCInit => PageInv
<1>1. /\ SearchConstants /\ ThumbConstants /\ ControlConstants /\ VideoConstants
      /\ Dialog!DialogConstants /\ Settings!SettingConstants
  BY PartAssumption
<1> QED
  BY <1>1, SearchStarts, ThumbStarts, ControlsStart, VideoStarts, SnapshotStart, DialogStart,
     SettingsStart DEF MCInit, PageInv

LEMMA PageSteps == PageInv /\ [MCNext]_partVars => PageInv'
<1> SUFFICES ASSUME PageInv, [MCNext]_partVars PROVE PageInv'
  OBVIOUS
<1>1. /\ SearchConstants /\ ThumbConstants /\ ControlConstants /\ VideoConstants
      /\ Dialog!DialogConstants /\ Settings!SettingConstants
  BY PartAssumption
<1>2. SearchInv' /\ ThumbInv' /\ ControlsInv' /\ VideoInv'
  BY <1>1, PartsStep, SearchSteps, ThumbStep, ControlSteps, VideoSteps DEF PageInv
<1>3. SnapshotInv' /\ DialogInv' /\ Settings!TypeOK'
  BY <1>1, PartsStep, SnapshotStep, DialogStep, SettingsStep DEF PageInv
<1> QED
  BY <1>2, <1>3 DEF PageInv

\* Each part of the page keeps the types of its variables, whichever of them moves: the
\* snapshot of the list, the dialogs, the search box, the pictures, the controls, the
\* search of videos and the settings of rows.
THEOREM PartsKeepTypes == MCSpec => []PartTypes
<1>1. PageInv => PartTypes
  BY ThumbGives, SnapshotImplies
     DEF PageInv, PartTypes, SearchInv, ControlsInv, VideoInv, DialogInv
<1> QED
  BY <1>1, PageStarts, PageSteps, PTL DEF MCSpec

\* What is suggested is of the text in the box, and a selection acts on what the list shows
\* as selected, for every behaviour of the page's parts together (search.js, events.js).
THEOREM PageAgrees == MCSpec => [](SuggestionsFit /\ ControlsHold)
<1>1. PageInv => SuggestionsFit /\ ControlsHold
  BY DEF PageInv, SearchInv, ControlsInv
<1> QED
  BY <1>1, PageStarts, PageSteps, PTL DEF MCSpec
=============================================================================
