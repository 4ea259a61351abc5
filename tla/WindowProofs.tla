-------------------------------- MODULE WindowProofs --------------------------------
(***************************************************************************)
(* Proofs about the windows, for any number of requests: what plays in the *)
(* player is what was asked for last, although nothing is ever taken back  *)
(* from the application and late answers come in any order; the drawing of *)
(* the main window, its long lists and the preparation of a download keep  *)
(* their types, whichever of them moves.                                   *)
(***************************************************************************)
EXTENDS MCWindows, FiniteSetTheorems, SequenceTheorems, WellFoundedInduction, TLAPS

-----------------------------------------------------------------------------
(* THE PLAYER                                                              *)

(* The inductive invariant                                                 *)

CallSet  == [for : 1 .. MaxRequests, gen : 1 .. MaxLoads, chain : Chains]
Medias   == {"none", "file", "single", "dual", "embed"}
MediaSet == [for : 0 .. MaxRequests, gen : 0 .. MaxLoads, media : Medias,
             video : BOOLEAN, audio : BOOLEAN, started : BOOLEAN]
TimerSet == [gen : 1 .. MaxLoads, stage : Stages]

\* No call and no media are of a generation that is yet to come.
NoneAhead ==
    /\ \A c \in calls : c.gen <= generation
    /\ bound.gen <= generation

\* What is of the last generation is of the last request, until a playlist, which
\* takes no generation, is asked for.
CurrentIsAsked ==
    source # "playlist" =>
       /\ \A c \in calls : c.gen = generation => c.for = request
       /\ bound.gen = generation => bound.for = request

\* The frame that is waited for is the one the window shows.
FramesAreBound ==
    \A c \in calls : c.chain \in Frames /\ c.gen = generation => bound.gen = generation

\* Before the first request nothing is under way; a preview has a generation.
Unasked ==
    /\ request = 0 =>
          /\ ~listing /\ queue = {} /\ refresh = "none" /\ source = "local"
          /\ calls = {} /\ bound.media = "none" /\ stageTimer = NoTimer
    /\ source = "preview" => generation # 0

PlayerInv ==
    /\ TypeOK
    /\ NoneAhead
    /\ CurrentIsAsked
    /\ FramesAreBound
    /\ Unasked
    /\ ReadyIsAsked

-----------------------------------------------------------------------------
(* What the elements hold                                                  *)

LEMMA Binding ==
    ASSUME PlayerConstants, NEW c \in CallSet, NEW media \in Medias, Binds(c, media)
    PROVE  bound' \in MediaSet /\ bound'.for = c.for /\ bound'.gen = c.gen
<1>1. bound' = [for |-> c.for, gen |-> c.gen, media |-> media, video |-> FALSE,
                audio |-> FALSE, started |-> FALSE]
  BY DEF Binds, Nothing
<1>2. c.for \in 0 .. MaxRequests /\ c.gen \in 0 .. MaxLoads
  BY DEF CallSet, PlayerConstants
<1> QED
  BY <1>1, <1>2 DEF MediaSet

LEMMA Preparing ==
    ASSUME PlayerConstants, NEW c \in CallSet, NEW media \in {"single", "dual"},
           NEW next \in {"progressive", "adaptive", "low"}, Prepares(c, media, next)
    PROVE  /\ bound' \in MediaSet /\ bound'.for = c.for /\ bound'.gen = c.gen
           /\ stage' = next /\ state' = "loading" /\ stageTimer' \in TimerSet
<1>1. PICK sound \in BOOLEAN :
        bound' = [Nothing EXCEPT !.for = c.for, !.gen = c.gen, !.media = media,
                                 !.audio = sound /\ media = "dual"]
  BY DEF Prepares, BindsStream
<1>2. (sound /\ media = "dual") \in BOOLEAN
  OBVIOUS
<1>3. bound' \in MediaSet /\ bound'.for = c.for /\ bound'.gen = c.gen
  <2> DEFINE heard == sound /\ media = "dual"
  <2> HIDE DEF heard
  <2>1. bound' = [for |-> c.for, gen |-> c.gen, media |-> media, video |-> FALSE,
                  audio |-> heard, started |-> FALSE]
    BY <1>1 DEF Nothing, heard
  <2>2. heard \in BOOLEAN
    BY <1>2 DEF heard
  <2>3. c.for \in 0 .. MaxRequests /\ c.gen \in 0 .. MaxLoads
    BY DEF CallSet, PlayerConstants
  <2> QED
    BY <2>1, <2>2, <2>3 DEF MediaSet, Medias
<1>4. stageTimer' = [gen |-> c.gen, stage |-> next] /\ stage' = next /\ state' = "loading"
  BY DEF Prepares
<1> QED
  BY <1>3, <1>4 DEF CallSet, TimerSet, Stages

-----------------------------------------------------------------------------
(* The three ways of a step: within a generation, into the next, and the   *)
(* request of a playlist, which has none                                   *)

\* Within a generation: new calls are of the last request, or go on with an older
\* call; new media are of the last generation, and so is what begins to play.
LEMMA Within ==
    ASSUME PlayerConstants, PlayerInv, request # 0,
           UNCHANGED <<request, kind, generation, source>>,
           calls' \subseteq CallSet,
           \A c \in calls' :
              \/ c \in calls
              \/ \E b \in calls : c.for = b.for /\ c.gen = b.gen /\ c.chain \notin Frames
              \/ /\ c.for = request /\ c.gen = generation
                 /\ c.chain \in Frames => bound'.gen = generation,
           bound' \in MediaSet,
           \/ bound'.gen = bound.gen /\ bound'.for = bound.for
           \/ bound'.gen = generation /\ (source # "playlist" => bound'.for = request),
           state' = "ready" =>
              \/ state = "ready" /\ bound'.for = bound.for
              \/ bound'.gen = generation,
           state' \in {"loading", "waiting", "ready", "error"}, stage' \in Stages,
           stageTimer' \in {NoTimer} \cup TimerSet, refresh' \in {"none", "poll", "skip"},
           queue' \subseteq Items, at' \in Items \cup {0}, advancing' \in 0 .. MaxLoads,
           listing' \in BOOLEAN
    PROVE  PlayerInv'
<1> USE DEF PlayerInv
<1>1. TypeOK'
  BY DEF TypeOK, CallSet, MediaSet, Medias, TimerSet
<1>2. NoneAhead'
  <2>1. generation \in 0 .. MaxLoads /\ bound.gen <= generation
    BY DEF TypeOK, NoneAhead
  <2>2. bound'.gen <= generation
    BY <2>1 DEF PlayerConstants
  <2>3. \A c \in calls' : c.gen <= generation
    BY <2>1 DEF NoneAhead, PlayerConstants
  <2> QED
    BY <2>2, <2>3 DEF NoneAhead
<1>3. CurrentIsAsked'
  BY DEF CurrentIsAsked
<1>4. FramesAreBound'
  BY DEF FramesAreBound
<1>5. Unasked'
  BY DEF Unasked
<1>6. ReadyIsAsked'
  BY <1>3 DEF ReadyIsAsked, CurrentIsAsked
<1> QED
  BY <1>1, <1>2, <1>3, <1>4, <1>5, <1>6

\* Into the next generation: what there was is older, and what is new is of the
\* request.
LEMMA IntoNext ==
    ASSUME PlayerConstants, PlayerInv, generation < MaxLoads, generation' = generation + 1,
           request' \in 1 .. MaxRequests, kind' \in Kinds,
           source' \in {"local", "preview", "playlist"},
           NEW chain \in Chains \ Frames,
           calls' \subseteq calls \cup {[for |-> request', gen |-> generation', chain |-> chain]},
           \/ bound' = bound
           \/ bound' \in MediaSet /\ bound'.gen = generation' /\ bound'.for = request',
           state' = "loading", stage' \in Stages,
           stageTimer' \in {NoTimer} \cup TimerSet, refresh' \in {"none", "poll", "skip"},
           queue' \subseteq Items, at' \in Items \cup {0}, advancing' \in 0 .. MaxLoads,
           listing' \in BOOLEAN
    PROVE  PlayerInv'
<1> USE DEF PlayerInv
<1> DEFINE call == [for |-> request', gen |-> generation', chain |-> chain]
<1>1. generation \in Nat /\ generation' \in 1 .. MaxLoads
  BY DEF TypeOK, PlayerConstants
<1>2. call \in CallSet /\ call.for = request' /\ call.gen = generation' /\ call.chain \notin Frames
  BY <1>1 DEF CallSet
<1> HIDE DEF call
<1>3. /\ calls' \subseteq CallSet
      /\ \A c \in calls' : c \in calls \/ c = call
  BY <1>2 DEF TypeOK, CallSet, call
<1>4. bound' \in MediaSet /\ (bound' = bound \/ (bound'.gen = generation' /\ bound'.for = request'))
  BY DEF TypeOK, MediaSet, Medias
<1>5. TypeOK'
  BY <1>1, <1>3, <1>4 DEF TypeOK, CallSet, MediaSet, Medias, TimerSet
<1>6. \A c \in calls : c.gen \in Nat /\ c.gen <= generation /\ c.gen < generation'
  BY <1>1 DEF NoneAhead, TypeOK, PlayerConstants
<1>7. bound.gen \in Nat /\ bound.gen < generation'
  BY <1>1 DEF NoneAhead, TypeOK, PlayerConstants
<1>8. NoneAhead'
  BY <1>1, <1>2, <1>3, <1>4, <1>6, <1>7 DEF NoneAhead
<1>9. CurrentIsAsked' /\ FramesAreBound'
  BY <1>2, <1>3, <1>4, <1>6, <1>7 DEF CurrentIsAsked, FramesAreBound
<1>10. Unasked' /\ ReadyIsAsked'
  BY <1>1 DEF Unasked, ReadyIsAsked
<1> QED
  BY <1>5, <1>8, <1>9, <1>10

\* A playlist: an older call may still play, under its name.
LEMMA PlaylistAsked ==
    ASSUME PlayerConstants, PlayerInv, AskPlaylist
    PROVE  PlayerInv'
<1> USE DEF PlayerInv
<1>1. /\ request' = request + 1 /\ request < MaxRequests /\ kind' = "playlist"
      /\ source' = "playlist" /\ queue' = {} /\ at' = 0 /\ listing' = TRUE
      /\ refresh' = "none" /\ state' = "loading"
      /\ UNCHANGED <<generation, stage, bound, calls, stageTimer, advancing>>
  BY DEF AskPlaylist, Asks, loading
<1>2. request' \in 1 .. MaxRequests
  BY <1>1 DEF TypeOK, PlayerConstants
<1>3. TypeOK'
  BY <1>1, <1>2 DEF TypeOK, Kinds
<1>4. NoneAhead' /\ CurrentIsAsked' /\ FramesAreBound' /\ ReadyIsAsked'
  BY <1>1 DEF NoneAhead, CurrentIsAsked, FramesAreBound, ReadyIsAsked
<1>5. Unasked'
  BY <1>1, <1>2 DEF Unasked
<1> QED
  BY <1>3, <1>4, <1>5

-----------------------------------------------------------------------------
(* Calls                                                                   *)

\* A call was made for a request.
LEMMA CallKnown ==
    ASSUME PlayerInv, NEW c \in calls
    PROVE  c \in CallSet /\ request # 0
  BY DEF PlayerInv, TypeOK, CallSet, Unasked

\* A new call within a generation is of the last request.
LEMMA NewCall ==
    ASSUME PlayerConstants, TypeOK, request # 0, generation # 0,
           UNCHANGED <<request, generation>>, NEW chain \in Chains
    PROVE  /\ Call(chain) \in CallSet
           /\ Call(chain).for = request /\ Call(chain).gen = generation
           /\ Call(chain).chain = chain
  BY DEF TypeOK, PlayerConstants, Call, CallSet

\* Within, for what leaves the request and the playlist alone.
LEMMA WithinRests ==
    ASSUME PlayerConstants, PlayerInv, request # 0, Rests, UNCHANGED generation,
           calls' \subseteq CallSet,
           \A c \in calls' :
              \/ c \in calls
              \/ \E b \in calls : c.for = b.for /\ c.gen = b.gen /\ c.chain \notin Frames
              \/ /\ c.for = request /\ c.gen = generation
                 /\ c.chain \in Frames => bound'.gen = generation,
           bound' \in MediaSet,
           \/ bound'.gen = bound.gen /\ bound'.for = bound.for
           \/ bound'.gen = generation /\ (source # "playlist" => bound'.for = request),
           state' = "ready" =>
              \/ state = "ready" /\ bound'.for = bound.for
              \/ bound'.gen = generation,
           state' \in {"loading", "waiting", "ready", "error"}, stage' \in Stages,
           stageTimer' \in {NoTimer} \cup TimerSet
    PROVE  PlayerInv'
<1>1. /\ UNCHANGED <<request, kind, generation, source>>
      /\ refresh' \in {"none", "poll", "skip"}
      /\ queue' \subseteq Items /\ at' \in Items \cup {0} /\ advancing' \in 0 .. MaxLoads
      /\ listing' \in BOOLEAN
  BY DEF Rests, playlist, PlayerInv, TypeOK
<1> QED
  BY <1>1, Within

\* A fallback asks for the next kind of stream, for the last request.
LEMMA Falling ==
    ASSUME PlayerConstants, PlayerInv, request # 0, generation # 0,
           UNCHANGED <<request, generation>>,
           NEW c, FallsToAdaptive(calls \ {c}) \/ FallsToLow(calls \ {c})
    PROVE  /\ calls' \subseteq CallSet
           /\ \A b \in calls' :
                 b \in calls \/ (b.for = request /\ b.gen = generation /\ b.chain \notin Frames)
           /\ stage' \in Stages /\ state' \in {state, "loading"}
<1>1. /\ Call("adaptive") \in CallSet /\ Call("low") \in CallSet
      /\ Call("adaptive").for = request /\ Call("adaptive").gen = generation
      /\ Call("adaptive").chain = "adaptive"
      /\ Call("low").for = request /\ Call("low").gen = generation
      /\ Call("low").chain = "low"
  BY NewCall DEF PlayerInv, Chains
<1>2. calls \subseteq CallSet
  BY CallKnown
<1>3. /\ calls' \subseteq calls \cup {Call("adaptive"), Call("low")}
      /\ stage' \in Stages /\ state' \in {state, "loading"}
  BY DEF FallsToAdaptive, FallsToLow, PlayerInv, TypeOK, Stages
<1> QED
  BY <1>1, <1>2, <1>3 DEF Frames

-----------------------------------------------------------------------------
(* Requests                                                                *)

\* What the user asks for, and what follows in a playlist, take the next generation.
LEMMA LoadsKeep ==
    ASSUME PlayerConstants, PlayerInv,
           \/ AskJob \/ Poll
           \/ \E item \in queue, waits \in BOOLEAN : Plays(item, waits)
    PROVE  PlayerInv'
<1> DEFINE call == [for |-> request', gen |-> generation', chain |-> "job"]
<1>1. /\ generation < MaxLoads /\ generation' = generation + 1
      /\ calls' \subseteq calls \cup {call}
      /\ refresh' = "none" /\ state' = "loading"
      /\ UNCHANGED <<stage, bound, stageTimer>>
  BY DEF AskJob, Poll, Plays, LoadsJob, Call
<1>2. /\ request' \in 1 .. MaxRequests /\ kind' \in Kinds
      /\ source' \in {"local", "playlist"} /\ queue' \subseteq Items /\ at' \in Items \cup {0}
      /\ listing' \in BOOLEAN /\ advancing' \in 0 .. MaxLoads
  <2>1. generation' \in 0 .. MaxLoads /\ request \in 0 .. MaxRequests
    BY <1>1 DEF PlayerInv, TypeOK, PlayerConstants
  <2>2. CASE AskJob
    BY <2>1, <2>2 DEF AskJob, Asks, PlayerInv, TypeOK, PlayerConstants, Kinds
  <2>3. CASE Poll
    BY <2>1, <2>3 DEF Poll, PlayerInv, TypeOK, Unasked
  <2>4. CASE \E item \in queue, waits \in BOOLEAN : Plays(item, waits)
    <3>1. PICK item \in queue, waits \in BOOLEAN : Plays(item, waits)
      BY <2>4
    <3>2. request \in 1 .. MaxRequests
      BY <2>1, <3>1 DEF Unasked, PlayerInv
    <3>3. advancing' \in 0 .. MaxLoads
      BY <2>1, <3>1 DEF Plays, PlayerInv, TypeOK
    <3> QED
      BY <3>1, <3>2, <3>3 DEF Plays, PlayerInv, TypeOK
  <2> QED
    BY <2>2, <2>3, <2>4
<1>3. /\ stage' \in Stages /\ stageTimer' \in {NoTimer} \cup TimerSet
      /\ "job" \in Chains \ Frames
  BY <1>1 DEF PlayerInv, TypeOK, TimerSet, Chains, Frames
<1> QED
  BY <1>1, <1>2, <1>3, IntoNext

LEMMA PreviewKeeps ==
    ASSUME PlayerConstants, PlayerInv, NEW what \in {"youtube", "platform"}, AskPreview(what)
    PROVE  PlayerInv'
<1>1. /\ generation < MaxLoads /\ generation' = generation + 1
      /\ request' \in 1 .. MaxRequests /\ kind' \in Kinds /\ source' = "preview"
      /\ queue' = {} /\ at' = 0 /\ refresh' = "none" /\ state' = "loading"
      /\ stage' \in Stages
      /\ UNCHANGED <<bound, stageTimer, advancing, listing>>
  BY DEF AskPreview, Asks, PlayerInv, TypeOK, PlayerConstants, Kinds, Stages
<1>2. PICK chain \in {"native", "embed"} :
        calls' = calls \cup {[for |-> request', gen |-> generation', chain |-> chain]}
  BY DEF AskPreview, Call
<1>3. /\ chain \in Chains \ Frames /\ stageTimer' \in {NoTimer} \cup TimerSet
      /\ advancing' \in 0 .. MaxLoads /\ listing' \in BOOLEAN
  BY <1>1, <1>2 DEF Chains, Frames, PlayerInv, TypeOK, TimerSet
<1> QED
  BY <1>1, <1>2, <1>3, IntoNext

\* Another quality of the same preview.
LEMMA QualityKeeps ==
    ASSUME PlayerConstants, PlayerInv, ChooseQuality
    PROVE  PlayerInv'
<1> DEFINE call == [for |-> request', gen |-> generation', chain |-> "direct"]
<1>1. /\ generation < MaxLoads /\ generation' = generation + 1 /\ source = "preview"
      /\ UNCHANGED <<request, kind, source, refresh, queue, at, advancing, listing, calls>>
      /\ \/ Prepares(call, "single", "progressive")
         \/ Prepares(call, "dual", "adaptive")
  BY DEF ChooseQuality, Call, Rests, playlist
<1>2. request' \in 1 .. MaxRequests /\ generation' \in 1 .. MaxLoads
  BY <1>1 DEF PlayerInv, TypeOK, Unasked, PlayerConstants
<1>3. call \in CallSet /\ call.for = request' /\ call.gen = generation'
  BY <1>2 DEF CallSet, Chains
<1> HIDE DEF call
<1>4. /\ bound' \in MediaSet /\ bound'.for = request' /\ bound'.gen = generation'
      /\ stage' \in Stages /\ state' = "loading" /\ stageTimer' \in TimerSet
  <2>1. CASE Prepares(call, "single", "progressive")
    BY <1>3, <2>1, Preparing DEF Stages
  <2>2. CASE Prepares(call, "dual", "adaptive")
    BY <1>3, <2>2, Preparing DEF Stages
  <2> QED
    BY <1>1, <2>1, <2>2
<1>5. /\ kind' \in Kinds /\ refresh' \in {"none", "poll", "skip"}
      /\ queue' \subseteq Items /\ at' \in Items \cup {0} /\ advancing' \in 0 .. MaxLoads
      /\ listing' \in BOOLEAN /\ source' = "preview"
      /\ "direct" \in Chains \ Frames
  BY <1>1 DEF PlayerInv, TypeOK, Chains, Frames
<1> QED
  BY <1>1, <1>2, <1>4, <1>5, IntoNext

-----------------------------------------------------------------------------
(* Answers, media and timers                                               *)

\* The queue of a playlist has come.
LEMMA ListedKeeps ==
    ASSUME PlayerConstants, PlayerInv, Listed
    PROVE  PlayerInv'
<1>1. /\ listing' = FALSE
      /\ UNCHANGED <<request, kind, source, refresh, generation, stage, calls, advancing>>
  BY DEF Listed
<1>2. request # 0
  BY DEF Listed, PlayerInv, Unasked
<1>3. /\ queue' \subseteq Items /\ at' \in Items \cup {0}
      /\ state' \in {"loading", "waiting", "ready", "error"}
      /\ state' = "ready" => state = "ready" /\ bound' = bound
      /\ \/ UNCHANGED <<bound, stageTimer>>
         \/ /\ bound' = [Nothing EXCEPT !.for = request, !.gen = generation]
            /\ stageTimer' = NoTimer /\ source = "playlist"
  BY DEF Listed, PlayerInv, TypeOK
<1>4. CASE UNCHANGED <<bound, stageTimer>>
  BY <1>1, <1>2, <1>3, <1>4, Within
     DEF PlayerInv, TypeOK, CallSet, MediaSet, Medias, TimerSet
<1>5. CASE /\ bound' = [Nothing EXCEPT !.for = request, !.gen = generation]
           /\ stageTimer' = NoTimer /\ source = "playlist"
  <2>1. bound' = [for |-> request, gen |-> generation, media |-> "none", video |-> FALSE,
                  audio |-> FALSE, started |-> FALSE]
    BY <1>5 DEF Nothing
  <2>2. bound' \in MediaSet /\ bound'.gen = generation
    BY <2>1 DEF PlayerInv, TypeOK, MediaSet, Medias
  <2> QED
    BY <1>1, <1>2, <1>3, <1>5, <2>2, Within DEF PlayerInv, TypeOK, CallSet
<1> QED
  BY <1>3, <1>4, <1>5

\* A file, at once, later or not at all; an answer to an older request is dropped.
LEMMA JobKeeps ==
    ASSUME PlayerConstants, PlayerInv, NEW c \in calls, AnsweredJob(c)
    PROVE  PlayerInv'
<1>1. /\ calls' = calls \ {c}
      /\ UNCHANGED <<request, kind, source, generation, stage, queue, at, listing>>
      /\ advancing' \in {0, advancing}
  BY DEF AnsweredJob
<1>2. /\ c \in CallSet /\ request # 0
      /\ calls' \subseteq CallSet /\ \A b \in calls' : b \in calls
      /\ advancing' \in 0 .. MaxLoads
      /\ listing' \in BOOLEAN /\ queue' \subseteq Items /\ at' \in Items \cup {0}
      /\ stage' \in Stages
  BY <1>1, CallKnown DEF PlayerInv, TypeOK, PlayerConstants
<1>3. CASE UNCHANGED bound /\ state' \in {state, "error"} /\ UNCHANGED <<stageTimer, refresh>>
  BY <1>1, <1>2, <1>3, Within DEF PlayerInv, TypeOK, MediaSet, Medias, TimerSet
<1>4. CASE /\ c.gen = generation /\ (Binds(c, "file") \/ Binds(c, "none"))
           /\ state' \in {"ready", "waiting"} /\ stageTimer' = NoTimer
           /\ refresh' \in {"none", "poll", "skip"}
  <2>1. bound' \in MediaSet /\ bound'.for = c.for /\ bound'.gen = generation
    BY <1>2, <1>4, Binding DEF Medias
  <2>2. source # "playlist" => bound'.for = request
    BY <1>4, <2>1 DEF PlayerInv, CurrentIsAsked
  <2> QED
    BY <1>1, <1>2, <1>4, <2>1, <2>2, Within
<1> QED
  BY <1>3, <1>4 DEF AnsweredJob, Current, PlayerInv, TypeOK

\* A stream: its call is of the last request, or the answer is dropped.
LEMMA DirectKeeps ==
    ASSUME PlayerConstants, PlayerInv, NEW c \in calls, AnsweredDirect(c)
    PROVE  PlayerInv'
<1>1. /\ calls' = calls \ {c} /\ UNCHANGED generation /\ Rests
  BY DEF AnsweredDirect
<1>2. /\ c \in CallSet /\ request # 0
      /\ calls' \subseteq CallSet /\ \A b \in calls' : b \in calls
  BY <1>1, CallKnown
<1>3. CASE UNCHANGED <<bound, stage, state, stageTimer>>
  BY <1>1, <1>2, <1>3, WithinRests DEF PlayerInv, TypeOK, MediaSet, Medias, TimerSet
<1>4. CASE /\ c.gen = generation
           /\ \E media \in {"single", "dual"}, next \in {"progressive", "adaptive", "low"} :
                 Prepares(c, media, next)
  <2>1. /\ bound' \in MediaSet /\ bound'.for = c.for /\ bound'.gen = generation
        /\ stage' \in Stages /\ state' = "loading" /\ stageTimer' \in TimerSet
    BY <1>2, <1>4, Preparing DEF Stages
  <2>2. source # "playlist" => bound'.for = request
    BY <1>4, <2>1 DEF PlayerInv, CurrentIsAsked
  <2> QED
    BY <1>1, <1>2, <2>1, <2>2, WithinRests
<1> QED
  BY <1>3, <1>4 DEF AnsweredDirect, Current

\* A refusal asks for the next kind of stream, or ends the preview.
LEMMA RefusalKeeps ==
    ASSUME PlayerConstants, PlayerInv, NEW c \in calls, RefusedDirect(c)
    PROVE  PlayerInv'
<1>1. UNCHANGED <<generation, request>> /\ Rests
  BY DEF RefusedDirect, Same, Rests
<1>2. c \in CallSet /\ request # 0 /\ calls \subseteq CallSet
  BY CallKnown
<1>3. /\ stage \in Stages /\ state \in {"loading", "waiting", "ready", "error"}
      /\ stageTimer \in {NoTimer} \cup TimerSet /\ bound \in MediaSet
  BY DEF PlayerInv, TypeOK, TimerSet, MediaSet, Medias
<1>4. CASE calls' = calls \ {c} /\ UNCHANGED <<stage, state, bound, stageTimer>>
  BY <1>1, <1>2, <1>3, <1>4, WithinRests
<1>5. ASSUME c.gen = generation
      PROVE  generation # 0
  BY <1>2, <1>5 DEF CallSet
\* A call for another address of the stream.
<1>6. ASSUME c.gen = generation, NEW chain \in {"after_native", "last_embed"},
             calls' = (calls \ {c}) \cup {Call(chain)},
             state' \in {state, "loading"}, UNCHANGED <<stage, bound, stageTimer>>
      PROVE  PlayerInv'
  <2>1. /\ Call(chain) \in CallSet /\ Call(chain).for = request /\ Call(chain).gen = generation
        /\ Call(chain).chain = chain
    BY <1>1, <1>2, <1>5, <1>6, NewCall DEF PlayerInv, Chains
  <2>2. /\ calls' \subseteq CallSet
        /\ \A b \in calls' :
              b \in calls \/ (b.for = request /\ b.gen = generation /\ b.chain \notin Frames)
    BY <1>2, <1>6, <2>1 DEF Frames
  <2> QED
    BY <1>1, <1>2, <1>3, <1>6, <2>2, WithinRests
<1>7. CASE /\ c.gen = generation
           /\ FallsToAdaptive(calls \ {c}) \/ FallsToLow(calls \ {c})
           /\ UNCHANGED <<bound, stageTimer>>
  <2>1. /\ calls' \subseteq CallSet
        /\ \A b \in calls' :
              b \in calls \/ (b.for = request /\ b.gen = generation /\ b.chain \notin Frames)
        /\ stage' \in Stages /\ state' \in {state, "loading"}
    BY <1>1, <1>2, <1>5, <1>7, Falling
  <2> QED
    BY <1>1, <1>2, <1>3, <1>7, <2>1, WithinRests
<1>8. CASE /\ c.gen = generation /\ Failed /\ calls' = calls \ {c}
           /\ \/ Binds(c, "none") /\ stageTimer' = NoTimer
              \/ UNCHANGED <<bound, stageTimer>>
  <2>1. stage' \in Stages /\ state' = "error"
    BY <1>8 DEF Failed, Stages
  <2>2. CASE UNCHANGED <<bound, stageTimer>>
    BY <1>1, <1>2, <1>3, <1>8, <2>1, <2>2, WithinRests
  <2>3. CASE Binds(c, "none") /\ stageTimer' = NoTimer
    <3>1. bound' \in MediaSet /\ bound'.for = c.for /\ bound'.gen = generation
      BY <1>2, <1>8, <2>3, Binding DEF Medias
    <3>2. source # "playlist" => bound'.for = request
      BY <1>8, <3>1 DEF PlayerInv, CurrentIsAsked
    <3> QED
      BY <1>1, <1>2, <1>8, <2>1, <2>3, <3>1, <3>2, WithinRests
  <2> QED
    BY <1>8, <2>2, <2>3
<1>9. c.chain \in {"native", "after_native", "adaptive", "low", "direct"}
  BY DEF RefusedDirect
<1>10. CASE c.gen # generation
  BY <1>4, <1>10 DEF RefusedDirect, Current
<1>11. CASE c.gen = generation /\ c.chain = "native"
  BY <1>6, <1>11 DEF RefusedDirect, Current
<1>12. CASE c.gen = generation /\ c.chain = "after_native"
  BY <1>7, <1>12 DEF RefusedDirect, Current
<1>13. CASE c.gen = generation /\ c.chain = "adaptive"
  BY <1>7, <1>13 DEF RefusedDirect, Current
<1>14. CASE c.gen = generation /\ c.chain = "direct"
  BY <1>6, <1>14 DEF RefusedDirect, Current
<1>15. CASE c.gen = generation /\ c.chain = "low"
  BY <1>8, <1>15 DEF RefusedDirect, Current
<1> QED
  BY <1>9, <1>10, <1>11, <1>12, <1>13, <1>14, <1>15

\* The platform's own player: its address, then its frame, or a stream instead.
LEMMA EmbedKeeps ==
    ASSUME PlayerConstants, PlayerInv, NEW c \in calls,
           AnsweredEmbed(c) \/ LoadedFrame(c) \/ RefusedEmbed(c)
    PROVE  PlayerInv'
<1>1. UNCHANGED <<generation, request, stage>> /\ Rests
  BY DEF AnsweredEmbed, LoadedFrame, RefusedEmbed, Same, Rests
<1>2. c \in CallSet /\ request # 0 /\ calls \subseteq CallSet
  BY CallKnown
<1>3. /\ stage \in Stages /\ state \in {"loading", "waiting", "ready", "error"}
      /\ stageTimer \in {NoTimer} \cup TimerSet /\ bound \in MediaSet
  BY DEF PlayerInv, TypeOK, TimerSet, MediaSet, Medias
<1>4. CASE calls' = calls \ {c} /\ state' \in {state, "error"} /\ UNCHANGED <<bound, stageTimer>>
  BY <1>1, <1>2, <1>3, <1>4, WithinRests
<1>5. CASE AnsweredEmbed(c) /\ c.gen = generation
  <2>1. /\ Binds(c, "embed") /\ stageTimer' = NoTimer /\ state' = "loading"
        /\ \E chain \in Frames : calls' = (calls \ {c}) \cup {Call(chain)}
    BY <1>5 DEF AnsweredEmbed, Current, Frames
  <2>2. PICK chain \in Frames : calls' = (calls \ {c}) \cup {Call(chain)}
    BY <2>1
  <2>3. bound' \in MediaSet /\ bound'.for = c.for /\ bound'.gen = generation
    BY <1>2, <1>5, <2>1, Binding DEF Medias
  <2>4. source # "playlist" => bound'.for = request
    BY <1>5, <2>3 DEF PlayerInv, CurrentIsAsked
  <2>5. generation # 0
    BY <1>2, <1>5 DEF CallSet
  <2>6. Call(chain) \in CallSet /\ Call(chain).for = request /\ Call(chain).gen = generation
    BY <1>1, <1>2, <2>5, NewCall DEF PlayerInv, Frames, Chains
  <2> QED
    BY <1>1, <1>2, <1>3, <2>1, <2>2, <2>3, <2>4, <2>6, WithinRests
<1>6. CASE LoadedFrame(c) /\ c.gen = generation
  <2>1. /\ calls' = calls \ {c} /\ state' = "ready" /\ UNCHANGED <<bound, stageTimer>>
        /\ c.chain \in Frames
    BY <1>6 DEF LoadedFrame, Current
  <2>2. bound'.gen = generation
    BY <1>6, <2>1 DEF PlayerInv, FramesAreBound
  <2> QED
    BY <1>1, <1>2, <1>3, <2>1, <2>2, WithinRests
<1>7. CASE RefusedEmbed(c) /\ c.chain \in {"embed", "frame"}
  <2> DEFINE direct == [c EXCEPT !.chain = "direct"]
  <2>1. calls' = (calls \ {c}) \cup {direct} /\ UNCHANGED <<state, bound, stageTimer>>
    BY <1>7 DEF RefusedEmbed
  <2>2. /\ direct \in CallSet /\ direct.for = c.for /\ direct.gen = c.gen
        /\ direct.chain \notin Frames
    BY <1>2 DEF CallSet, Chains, Frames
  <2> HIDE DEF direct
  <2>3. /\ calls' \subseteq CallSet
        /\ \A b \in calls' :
              \/ b \in calls
              \/ \E a \in calls : b.for = a.for /\ b.gen = a.gen /\ b.chain \notin Frames
    BY <1>2, <2>1, <2>2
  <2> QED
    BY <1>1, <1>2, <1>3, <2>1, <2>3, WithinRests
<1> QED
  BY <1>4, <1>5, <1>6, <1>7 DEF AnsweredEmbed, LoadedFrame, RefusedEmbed, Current

\* The elements play only what is of the last generation.
LEMMA CanPlayKeeps ==
    ASSUME PlayerConstants, PlayerInv, CanPlay
    PROVE  PlayerInv'
<1>1. UNCHANGED <<generation, request, stage, calls>> /\ Rests /\ bound.gen = generation
  BY DEF CanPlay, Rests, Current
<1>2. /\ calls \subseteq CallSet /\ bound \in MediaSet /\ stage \in Stages
      /\ state \in {"loading", "waiting", "ready", "error"}
      /\ stageTimer \in {NoTimer} \cup TimerSet
  BY DEF PlayerInv, TypeOK, CallSet, TimerSet, MediaSet, Medias
<1>3. request # 0
  BY DEF CanPlay, PlayerInv, Unasked
<1>4. \/ bound' = [bound EXCEPT !.video = TRUE]
      \/ bound' = [bound EXCEPT !.audio = TRUE]
      \/ bound' = [[bound EXCEPT !.video = TRUE] EXCEPT !.started = TRUE]
      \/ bound' = [[bound EXCEPT !.audio = TRUE] EXCEPT !.started = TRUE]
  BY DEF CanPlay, Starts
<1>5. state' \in {state, "ready"} /\ stageTimer' \in {stageTimer, NoTimer}
  BY DEF CanPlay, Starts
<1>6. bound' \in MediaSet /\ bound'.for = bound.for /\ bound'.gen = bound.gen
  BY <1>2, <1>4 DEF MediaSet
<1> QED
  BY <1>1, <1>2, <1>3, <1>5, <1>6, WithinRests

\* Media that fail, and stages that do not begin, fall back within the generation.
LEMMA FailureKeeps ==
    ASSUME PlayerConstants, PlayerInv, MediaError \/ StageDue
    PROVE  PlayerInv'
<1>1. UNCHANGED <<generation, request, kind, source, queue, at, advancing, listing>>
  BY DEF MediaError, StageDue, Same, Rests, playlist
<1>2. /\ calls \subseteq CallSet /\ bound \in MediaSet /\ stage \in Stages
      /\ state \in {"loading", "waiting", "ready", "error"}
      /\ stageTimer \in {NoTimer} \cup TimerSet
      /\ generation \in Nat
  BY DEF PlayerInv, TypeOK, CallSet, TimerSet, MediaSet, Medias
<1>3. request # 0
  BY DEF MediaError, StageDue, PlayerInv, Unasked
<1>4. /\ refresh' \in {"none", "poll", "skip"} /\ stageTimer' \in {NoTimer, stageTimer}
      /\ bound' \in {bound, [bound EXCEPT !.media = "none"]}
  BY DEF MediaError, StageDue, Rests, PlayerInv, TypeOK
<1>5. bound' \in MediaSet /\ bound'.for = bound.for /\ bound'.gen = bound.gen
  BY <1>2, <1>4 DEF MediaSet, Medias
<1>6. \/ UNCHANGED <<stage, state, calls>>
      \/ state' = "error" /\ UNCHANGED <<stage, calls>>
      \/ Failed /\ UNCHANGED calls
      \/ FallsToAdaptive(calls) /\ generation # 0
      \/ FallsToLow(calls) /\ generation # 0
  <2>1. CASE MediaError
    BY <2>1 DEF MediaError, PlayerInv, Unasked
  <2>2. CASE StageDue
    <3>1. CASE stageTimer.gen # generation \/ stage # stageTimer.stage
      BY <2>2, <3>1 DEF StageDue, Current
    <3>2. CASE stageTimer.gen = generation /\ stage = stageTimer.stage
      <4>1. stageTimer \in TimerSet
        BY <1>2, <2>2 DEF StageDue
      <4>2. generation # 0
        BY <3>2, <4>1 DEF TimerSet
      <4> QED
        BY <2>2, <3>2, <4>2 DEF StageDue, Current
    <3> QED
      BY <3>1, <3>2
  <2> QED
    BY <2>1, <2>2
<1>7. /\ calls' \subseteq CallSet
      /\ \A b \in calls' :
            b \in calls \/ (b.for = request /\ b.gen = generation /\ b.chain \notin Frames)
      /\ stage' \in Stages /\ state' \in {state, "loading", "error"}
  <2>1. CASE FallsToAdaptive(calls) /\ generation # 0
    <3>1. calls \ {Nothing} = calls
      BY <1>2 DEF CallSet, Nothing
    <3> QED
      BY <1>1, <1>3, <2>1, <3>1, Falling
  <2>2. CASE FallsToLow(calls) /\ generation # 0
    <3>1. calls \ {Nothing} = calls
      BY <1>2 DEF CallSet, Nothing
    <3> QED
      BY <1>1, <1>3, <2>2, <3>1, Falling
  <2>3. CASE \/ UNCHANGED <<stage, state, calls>>
             \/ state' = "error" /\ UNCHANGED <<stage, calls>>
             \/ Failed /\ UNCHANGED calls
    BY <1>2, <2>3 DEF Failed, Stages
  <2> QED
    BY <1>6, <2>1, <2>2, <2>3
<1>8. /\ queue' \subseteq Items /\ at' \in Items \cup {0} /\ advancing' \in 0 .. MaxLoads
      /\ listing' \in BOOLEAN
  BY <1>1 DEF PlayerInv, TypeOK
<1> QED
  BY <1>1, <1>2, <1>3, <1>4, <1>5, <1>7, <1>8, Within

-----------------------------------------------------------------------------
(* Theorems                                                                *)

LEMMA PlayerStarts ==
    ASSUME PlayerConstants
    PROVE  PlayerInit => PlayerInv
<1> SUFFICES ASSUME PlayerInit
             PROVE  PlayerInv
  OBVIOUS
<1> USE DEF PlayerInit
<1>1. bound = [for |-> 0, gen |-> 0, media |-> "none", video |-> FALSE, audio |-> FALSE,
               started |-> FALSE]
  BY DEF Nothing
<1>2. bound \in MediaSet /\ bound.for = 0 /\ bound.gen = 0 /\ bound.media = "none"
  BY <1>1 DEF MediaSet, Medias, PlayerConstants
<1>3. TypeOK
  BY <1>2 DEF TypeOK, MediaSet, Medias, Kinds, Stages, PlayerConstants
<1>4. NoneAhead /\ CurrentIsAsked /\ FramesAreBound /\ Unasked /\ ReadyIsAsked
  BY <1>2 DEF NoneAhead, CurrentIsAsked, FramesAreBound, Unasked, ReadyIsAsked
<1> QED
  BY <1>3, <1>4 DEF PlayerInv

LEMMA PlayerSteps ==
    ASSUME PlayerConstants, PlayerInv, [PlayerNext]_playerVars
    PROVE  PlayerInv'
<1>1. CASE AskJob \/ Poll \/ \E item \in Items : AskItem(item)
  <2>1. \/ AskJob \/ Poll
        \/ \E item \in queue, waits \in BOOLEAN : Plays(item, waits)
    BY <1>1 DEF AskItem, Plays
  <2> QED
    BY <2>1, LoadsKeep
<1>2. ASSUME NEW direction \in {-1, 1}, Plays(NextItem(direction), TRUE)
      PROVE  PlayerInv'
  BY <1>2, LoadsKeep DEF Plays
<1>3. CASE Ended \/ \E direction \in {-1, 1} : Advance(direction)
  BY <1>2, <1>3 DEF Ended, Advance
<1>4. CASE Skip
  <2>1. CASE CanAdvance(1)
    BY <1>2, <1>4, <2>1 DEF Skip
  <2>2. CASE ~CanAdvance(1)
    <3>1. /\ refresh' = "none"
          /\ UNCHANGED <<request, kind, source, state, generation, stage, bound, calls,
                         stageTimer, queue, at, advancing, listing>>
          /\ request # 0
      BY <1>4, <2>2 DEF Skip, loading, playlist, PlayerInv, Unasked
    <3> QED
      BY <3>1, Within DEF PlayerInv, TypeOK, CallSet, MediaSet, Medias, TimerSet
  <2> QED
    BY <2>1, <2>2
<1>5. CASE Answers
  BY <1>5, JobKeeps, DirectKeeps, RefusalKeeps, EmbedKeeps DEF Answers, Answer
<1>6. CASE UNCHANGED playerVars
  BY <1>6 DEF playerVars, loading, playlist, PlayerInv, TypeOK, NoneAhead, CurrentIsAsked,
              FramesAreBound, Unasked, ReadyIsAsked
<1> QED
  BY <1>1, <1>3, <1>4, <1>5, <1>6, PlaylistAsked, PreviewKeeps, QualityKeeps, ListedKeeps,
     CanPlayKeeps, FailureKeeps
     DEF PlayerNext, User, Media

\* Requests, calls, media and timers keep their types.
THEOREM PlayerTypes ==
    ASSUME PlayerConstants
    PROVE  PlayerSpec => []TypeOK
<1>1. PlayerInv /\ [PlayerNext]_playerVars => PlayerInv'
  BY PlayerSteps
<1>2. PlayerInv => TypeOK
  BY DEF PlayerInv
<1> QED
  BY <1>1, <1>2, PlayerStarts, PTL DEF PlayerSpec

\* A window that says it plays holds what was asked for last, whatever fallbacks,
\* polls and late answers of earlier requests are still to come (player.js).
THEOREM OnlyAskedPlays ==
    ASSUME PlayerConstants
    PROVE  PlayerSpec => []ReadyIsAsked
<1>1. PlayerInv /\ [PlayerNext]_playerVars => PlayerInv'
  BY PlayerSteps
<1>2. PlayerInv => ReadyIsAsked
  BY DEF PlayerInv
<1> QED
  BY <1>1, <1>2, PlayerStarts, PTL DEF PlayerSpec

-----------------------------------------------------------------------------
(* THE DRAWING OF THE WINDOW                                               *)

\* A theme that is captured was asked for.
RenderInv == Draw!TypeOK /\ (transition = "captured" => goal \in Themes)

LEMMA RenderStart == Draw!RenderConstants /\ Draw!RenderInit => RenderInv
<1> SUFFICES ASSUME Draw!RenderConstants, Draw!RenderInit PROVE RenderInv
  OBVIOUS
<1>1. /\ undrawn \in BOOLEAN /\ interacting \in BOOLEAN /\ deferred \in BOOLEAN
      /\ flush \in BOOLEAN /\ running \in BOOLEAN /\ renderHeld \in BOOLEAN
  BY DEF Draw!RenderInit
<1>2. /\ active \in Sections /\ lastSection \in Sections /\ callbacks \in Nat
      /\ chosen \in Themes /\ theme \in Themes /\ transition = "none"
      /\ goal = NoTheme /\ pending = NoTheme
  BY DEF Draw!RenderConstants, Draw!RenderInit
<1> QED
  BY <1>1, <1>2 DEF RenderInv, Draw!TypeOK

LEMMA RenderStep ==
    ASSUME Draw!RenderConstants, RenderInv, [Draw!RenderNext]_(Draw!renderVars)
    PROVE  RenderInv'
<1>1. /\ undrawn \in BOOLEAN /\ interacting \in BOOLEAN /\ deferred \in BOOLEAN
      /\ flush \in BOOLEAN /\ running \in BOOLEAN /\ renderHeld \in BOOLEAN
      /\ active \in Sections /\ lastSection \in Sections /\ callbacks \in Nat
      /\ chosen \in Themes /\ theme \in Themes
      /\ goal \in Themes \cup {NoTheme} /\ pending \in Themes \cup {NoTheme}
      /\ transition \in {"none", "captured", "shown"}
      /\ (transition = "captured" => goal \in Themes)
  BY DEF RenderInv, Draw!TypeOK
<1>2. ASSUME NEW place, Draw!Render(place, transition)
      PROVE  /\ undrawn' \in BOOLEAN /\ renderHeld' \in BOOLEAN
             /\ lastSection' = lastSection /\ callbacks' \in Nat
  <2>1. renderHeld' \in BOOLEAN
    BY <1>1, <1>2, Zenon DEF Draw!Render
  <2>2. undrawn' \in BOOLEAN /\ lastSection' = lastSection
    BY <1>1, <1>2, Zenon DEF Draw!Render
  <2>3. callbacks' \in Nat
    BY <1>1, <1>2 DEF Draw!Render
  <2> QED
    BY <2>1, <2>2, <2>3
<1>3. CASE Draw!Refresh
  <2>1. /\ undrawn' \in BOOLEAN /\ deferred' \in BOOLEAN /\ flush' \in BOOLEAN
        /\ renderHeld' \in BOOLEAN /\ lastSection' = lastSection /\ callbacks' \in Nat
    BY <1>1, <1>2, <1>3 DEF Draw!Refresh
  <2> QED
    BY <1>1, <1>3, <2>1 DEF Draw!Refresh, Draw!themeVars, RenderInv, Draw!TypeOK
<1>4. CASE Draw!Flush
  <2>1. /\ undrawn' \in BOOLEAN /\ deferred' \in BOOLEAN /\ flush' \in BOOLEAN
        /\ renderHeld' \in BOOLEAN /\ lastSection' = lastSection /\ callbacks' \in Nat
    BY <1>1, <1>2, <1>4 DEF Draw!Flush
  <2> QED
    BY <1>1, <1>4, <2>1 DEF Draw!Flush, Draw!themeVars, RenderInv, Draw!TypeOK
<1>5. CASE Draw!Open
  <2>1. /\ undrawn' \in BOOLEAN /\ interacting' \in BOOLEAN
        /\ renderHeld' \in BOOLEAN /\ lastSection' = lastSection /\ callbacks' \in Nat
    BY <1>1, <1>2, <1>5 DEF Draw!Open
  <2> QED
    BY <1>1, <1>5, <2>1 DEF Draw!Open, Draw!themeVars, RenderInv, Draw!TypeOK
<1>6. CASE Draw!Leave
  <2>1. /\ undrawn' \in BOOLEAN /\ interacting' \in BOOLEAN /\ flush' \in BOOLEAN
        /\ renderHeld' \in BOOLEAN /\ lastSection' = lastSection /\ callbacks' \in Nat
    BY <1>1, <1>2, <1>6 DEF Draw!Leave
  <2> QED
    BY <1>1, <1>6, <2>1 DEF Draw!Leave, Draw!themeVars, RenderInv, Draw!TypeOK
<1>7. CASE Draw!Navigate
  <2>1. PICK place \in Sections \ {active} : active' = place /\ Draw!Render(place, transition)
    BY <1>7 DEF Draw!Navigate
  <2>2. /\ undrawn' \in BOOLEAN /\ renderHeld' \in BOOLEAN
        /\ lastSection' = lastSection /\ callbacks' \in Nat
    BY <1>2, <2>1
  <2> QED
    BY <1>1, <1>7, <2>1, <2>2 DEF Draw!Navigate, Draw!themeVars, RenderInv, Draw!TypeOK
<1>8. CASE Draw!Callback
  <2>1. callbacks' \in Nat /\ lastSection' \in Sections /\ theme' \in Themes
    BY <1>1, <1>8 DEF Draw!Callback
  <2>2. undrawn' \in BOOLEAN
    BY <1>8 DEF Draw!Callback
  <2>3. UNCHANGED <<interacting, deferred, flush, active, chosen, transition, running, goal,
                    pending, renderHeld>>
    BY <1>8 DEF Draw!Callback
  <2> QED
    BY <1>1, <2>1, <2>2, <2>3 DEF RenderInv, Draw!TypeOK
<1>9. CASE Draw!ChooseTheme
  <2>1. PICK t \in Themes \ {chosen} :
          /\ chosen' = t
          /\ IF running THEN pending' = t /\ UNCHANGED <<theme, transition, running, goal>>
             ELSE Draw!Start(t) /\ UNCHANGED pending
    BY <1>9 DEF Draw!ChooseTheme
  <2>2. /\ theme' \in Themes /\ goal' \in Themes \cup {NoTheme}
        /\ pending' \in Themes \cup {NoTheme}
        /\ transition' \in {"none", "captured", "shown"}
        /\ (transition' = "captured" => goal' \in Themes)
    BY <1>1, <2>1 DEF Draw!Start
  <2>3. running' \in BOOLEAN
    BY <1>1, <2>1, Zenon DEF Draw!Start
  <2> QED
    BY <1>1, <1>9, <2>1, <2>2, <2>3 DEF Draw!ChooseTheme, RenderInv, Draw!TypeOK
<1>10. CASE Draw!Captured
  BY <1>1, <1>10 DEF Draw!Captured, RenderInv, Draw!TypeOK
<1>11. CASE Draw!Finished
  <2>1. renderHeld' \in BOOLEAN /\ undrawn' \in BOOLEAN
    BY <1>1, <1>11, Zenon DEF Draw!Finished
  <2>2. callbacks' \in Nat /\ theme' \in Themes /\ transition' = "none"
    BY <1>1, <1>11 DEF Draw!Finished
  <2>3. UNCHANGED <<interacting, deferred, flush, active, lastSection, chosen, running, goal,
                    pending>>
    BY <1>11 DEF Draw!Finished
  <2> QED
    BY <1>1, <2>1, <2>2, <2>3 DEF RenderInv, Draw!TypeOK
<1>12. CASE Draw!Resume
  <2>1. /\ pending' = NoTheme /\ theme' \in Themes /\ goal' \in Themes \cup {NoTheme}
        /\ transition' \in {"none", "captured", "shown"}
        /\ (transition' = "captured" => goal' \in Themes)
    BY <1>1, <1>12 DEF Draw!Resume, Draw!Resumed
  <2>2. running' \in BOOLEAN
    BY <1>12 DEF Draw!Resume, Draw!Resumed
  <2> QED
    BY <1>1, <1>12, <2>1, <2>2 DEF Draw!Resume, RenderInv, Draw!TypeOK
<1>13. CASE UNCHANGED Draw!renderVars
  BY <1>13 DEF Draw!renderVars, RenderInv, Draw!TypeOK
<1> QED
  BY <1>3, <1>4, <1>5, <1>6, <1>7, <1>8, <1>9, <1>10, <1>11, <1>12, <1>13 DEF Draw!RenderNext

-----------------------------------------------------------------------------
(* THE LONG LISTS                                                          *)

\* A set of numbers has a least one.
LEMMA HasLeast ==
    ASSUME NEW T \in SUBSET Nat, T # {}
    PROVE  \E n \in T : \A m \in T : n <= m
<1> DEFINE R == OpToRel(<, Nat)
<1>1. IsWellFoundedOn(R, Nat)
  BY NatLessThanWellFounded
<1>2. \A m, n \in Nat : m < n => <<m, n>> \in R
  BY DEF OpToRel
<1> HIDE DEF R
<1>3. \E x \in T : \A y \in T : ~(<<y, x>> \in R)
  BY <1>1, WFMin
<1>4. \A x, y \in T : ~(y < x) => x <= y
  OBVIOUS
<1> QED
  BY <1>2, <1>3, <1>4

\* The finite sets and the counts of the instance are those of the library.
LEMMA ListsCount ==
    \A S : (Long!IsFiniteSet(S) <=> IsFiniteSet(S)) /\ Long!Cardinality(S) = Cardinality(S)
<1>1. \A S : Long!IsFiniteSet(S) <=> IsFiniteSet(S)
  BY DEF Long!IsFiniteSet, IsFiniteSet
<1>2. \A S : Long!Cardinality(S) = Cardinality(S)
  BY DEF Long!Cardinality, Cardinality
<1> QED
  BY <1>1, <1>2

\* A sequence has finitely many rows, so what they take is a number.
LEMMA TakesSpace ==
    ASSUME Long!VirtualConstants, NEW ids \in SUBSET LongRows, NEW measured \in SUBSET LongRows
    PROVE  Long!Sum(ids) \in Nat /\ Long!Estimate(ids, measured) \in Nat
<1>1. IsFiniteSet(LongRows) /\ Tall \in Nat /\ Estimated \in Nat
  BY ListsCount DEF Long!VirtualConstants
<1>2. ASSUME NEW some \in SUBSET LongRows PROVE Cardinality(some) \in Nat
  BY <1>1, FS_Subset, FS_CardinalityType
<1>3. ASSUME NEW a \in Nat, NEW b \in Nat PROVE a * b \in Nat
  OBVIOUS
<1>4. ASSUME NEW some \in SUBSET LongRows PROVE Long!Sum(some) \in Nat
  <2> DEFINE a == Cardinality(some \cap tall)
             b == Cardinality(some \ tall)
  <2>1. a \in Nat /\ b \in Nat
    BY <1>2
  <2>2. Long!Sum(some) = a * Tall + b
    BY ListsCount DEF Long!Sum
  <2> HIDE DEF a, b
  <2> QED
    BY <1>1, <1>3, <2>1, <2>2
<1> DEFINE a == Long!Sum(ids \cap measured)
           b == Cardinality(ids \ measured)
<1>5. a \in Nat /\ b \in Nat /\ Long!Sum(ids) \in Nat
  BY <1>2, <1>4
<1>6. Long!Estimate(ids, measured) = a + b * Estimated
  BY ListsCount DEF Long!Estimate
<1> HIDE DEF a, b
<1> QED
  BY <1>1, <1>3, <1>5, <1>6

LEMMA OffsetFits ==
    ASSUME Long!VirtualConstants, NEW some \in Seq(LongRows), NEW i,
           NEW measured \in SUBSET LongRows
    PROVE  Long!Offset(some, i, measured) \in Nat
<1>1. {some[k] : k \in (1 .. i) \cap DOMAIN some} \subseteq LongRows
  OBVIOUS
<1> QED
  BY <1>1, TakesSpace DEF Long!Offset

LEMMA DrawnAreRows ==
    ASSUME Long!VirtualConstants, NEW some \in Seq(LongRows), NEW w, w.above \in Nat,
           w.below \in Int
    PROVE  Long!Drawn(w, some) \subseteq LongRows /\ Long!Size(w, some) \in Int
<1>1. Long!Drawn(w, some) \subseteq LongRows
  BY DEF Long!Drawn
<1>2. Long!Sum(Long!Drawn(w, some)) \in Nat
  BY <1>1, TakesSpace
<1> QED
  BY <1>1, <1>2 DEF Long!Size

LEMMA WithinFits ==
    ASSUME Long!VirtualConstants, NEW some \in Seq(LongRows), NEW w, w.above \in Nat,
           w.below \in Int,
           NEW place \in Nat
    PROVE  Long!Within(place, w, some) \in Nat
<1>1. Long!Size(w, some) \in Int /\ Viewport \in Nat
  BY DrawnAreRows DEF Long!VirtualConstants
<1> QED
  BY <1>1 DEF Long!Within, Long!Smaller

\* A binary search finds an index, since the last one passes.
LEMMA RangeFits ==
    ASSUME Long!VirtualConstants, NEW some \in Seq(LongRows), NEW place \in Int,
           NEW measured \in SUBSET LongRows
    PROVE  LET w == Long!Range(some, place, measured)
           IN  /\ w.start \in Nat /\ w.end \in Nat /\ w.start <= w.end /\ w.end <= Len(some)
               /\ w.above \in Nat /\ w.below \in Int
<1> DEFINE n == Len(some)
           Passes(i) == i = n \/ Long!Offset(some, i + 1, measured) > place
           first == CHOOSE i \in 0 .. n : Passes(i) /\ \A k \in 0 .. (i - 1) : ~Passes(k)
           Seen(i) == i = n \/ Long!Offset(some, i, measured) >= place + Viewport
           last == CHOOSE i \in first .. n : Seen(i) /\ \A k \in first .. (i - 1) : ~Seen(k)
           start == IF first > Overscan THEN first - Overscan ELSE 0
           end == Long!End(n, last)
<1>1. Long!Range(some, place, measured) =
        [start |-> start, end |-> end, above |-> Long!Offset(some, start, measured),
         below |-> Long!Offset(some, n, measured) - Long!Offset(some, end, measured)]
  BY DEF Long!Range, Long!First
<1>2. n \in Nat /\ Overscan \in Nat
  BY DEF Long!VirtualConstants
<1>3. ASSUME NEW from \in 0 .. n, NEW T \in SUBSET (from .. n), n \in T
      PROVE  \E i \in from .. n : i \in T /\ \A k \in from .. (i - 1) : k \notin T
  <2>1. T \subseteq Nat /\ T # {}
    BY <1>2, <1>3
  <2>2. PICK i \in T : \A k \in T : i <= k
    BY <2>1, HasLeast
  <2> QED
    BY <1>2, <1>3, <2>1, <2>2
<1>4. first \in 0 .. n
  <2> DEFINE T == {i \in 0 .. n : Passes(i)}
  <2>1. n \in T /\ T \in SUBSET (0 .. n) /\ 0 \in 0 .. n
    BY <1>2
  <2>2. \E i \in 0 .. n : i \in T /\ \A k \in 0 .. (i - 1) : k \notin T
    <3> HIDE DEF T
    <3> QED
      BY <1>3, <2>1
  <2>3. \E i \in 0 .. n : Passes(i) /\ \A k \in 0 .. (i - 1) : ~Passes(k)
    <3>1. PICK i \in 0 .. n : i \in T /\ \A k \in 0 .. (i - 1) : k \notin T
      BY <2>2
    <3>2. \A k \in 0 .. (i - 1) : k \in 0 .. n
      BY <1>2
    <3> QED
      BY <3>1, <3>2
  <2> HIDE DEF Passes
  <2> QED
    BY <2>3
<1> HIDE DEF Passes, first
<1>5. last \in first .. n
  <2> DEFINE T == {i \in first .. n : Seen(i)}
  <2>1. n \in T /\ T \in SUBSET (first .. n)
    BY <1>2, <1>4
  <2>2. \E i \in first .. n : i \in T /\ \A k \in first .. (i - 1) : k \notin T
    <3> HIDE DEF T
    <3> QED
      BY <1>3, <1>4, <2>1
  <2>3. \E i \in first .. n : Seen(i) /\ \A k \in first .. (i - 1) : ~Seen(k)
    <3>1. PICK i \in first .. n : i \in T /\ \A k \in first .. (i - 1) : k \notin T
      BY <2>2
    <3>2. \A k \in first .. (i - 1) : k \in first .. n
      BY <1>2, <1>4
    <3> QED
      BY <3>1, <3>2
  <2> HIDE DEF Seen
  <2> QED
    BY <2>3
<1> HIDE DEF Seen, last
<1>6. start \in Nat /\ start <= first
  BY <1>2, <1>4
<1>7. end \in Nat /\ last <= end /\ end <= n
  BY <1>2, <1>4, <1>5 DEF Long!End, Long!Smaller
<1> HIDE DEF start, end
<1>8. /\ Long!Offset(some, start, measured) \in Nat
      /\ Long!Offset(some, n, measured) \in Nat /\ Long!Offset(some, end, measured) \in Nat
  BY OffsetFits
<1> QED
  BY <1>1, <1>2, <1>4, <1>5, <1>6, <1>7, <1>8

FrameKinds == {"restore", "update", "measure", "nothing"}

\* At most one frame puts a position back, and while there is one there is a position.
FramesFit(line, place) ==
    /\ line \in Seq(FrameKinds)
    /\ \A i, j \in 1 .. Len(line) : line[i] = "restore" /\ line[j] = "restore" => i = j
    /\ \A i \in 1 .. Len(line) : line[i] = "restore" => place \in Nat

WindowFits(w, some) ==
    /\ w.start \in Nat /\ w.end \in Nat /\ w.start <= w.end /\ w.end <= Len(some)
    /\ w.above \in Nat /\ w.below \in Int

VirtualInv ==
    /\ tall \subseteq LongRows /\ heights \subseteq LongRows
    /\ list \in Seq(LongRows) /\ list # <<>>
    /\ top \in Nat /\ scrolled \in Nat /\ restored \in Nat \cup {-1} /\ held \in BOOLEAN
    /\ WindowFits(strip, list)
    /\ FramesFit(frames, restored)

LEMMA AskFits ==
    ASSUME NEW line, NEW place, FramesFit(line, place), NEW what \in FrameKinds,
           what = "restore" => place \in Nat
    PROVE  FramesFit(Long!Ask(line, what), place)
<1>1. CASE Long!Ask(line, what) = line
  BY <1>1
<1>2. CASE Long!Ask(line, what) # line
  <2>1. Long!Ask(line, what) = Append(line, what) /\ \A i \in DOMAIN line : line[i] # what
    BY <1>2 DEF Long!Ask
  <2>2. line \in Seq(FrameKinds) /\ Len(line) \in Nat /\ DOMAIN line = 1 .. Len(line)
    BY DEF FramesFit
  <2> DEFINE new == Append(line, what)
  <2>3. /\ new \in Seq(FrameKinds) /\ Len(new) = Len(line) + 1
        /\ \A i \in 1 .. Len(line) : new[i] = line[i]
        /\ new[Len(line) + 1] = what
    BY <2>2
  <2> HIDE DEF new
  <2>4. \A i \in 1 .. Len(new) : i \in 1 .. Len(line) \/ i = Len(line) + 1
    BY <2>2, <2>3
  <2>5. \A i \in 1 .. Len(line) : new[i] # what
    BY <2>1, <2>2, <2>3
  <2>6. ASSUME NEW i \in 1 .. Len(new), NEW j \in 1 .. Len(new),
               new[i] = "restore", new[j] = "restore"
        PROVE  i = j /\ place \in Nat
    <3>1. CASE what = "restore"
      BY <2>3, <2>4, <2>5, <2>6, <3>1
    <3>2. CASE what # "restore"
      BY <2>3, <2>4, <2>6, <3>2 DEF FramesFit
    <3> QED
      BY <3>1, <3>2
  <2>7. FramesFit(new, place)
    BY <2>3, <2>6 DEF FramesFit
  <2> QED
    BY <2>1, <2>7 DEF new
<1> QED
  BY <1>1, <1>2

LEMMA RunFits ==
    ASSUME NEW line, NEW place, FramesFit(line, place), line # <<>>
    PROVE  /\ FramesFit(Tail(line), place)
           /\ Head(line) = "restore" => place \in Nat /\ FramesFit(Tail(line), -1)
<1>1. line \in Seq(FrameKinds) /\ Len(line) \in Nat \ {0}
  BY DEF FramesFit
<1> DEFINE rest == Tail(line)
<1>2. /\ rest \in Seq(FrameKinds) /\ Len(rest) = Len(line) - 1 /\ Head(line) = line[1]
      /\ \A i \in 1 .. Len(rest) : rest[i] = line[i + 1]
  BY <1>1
<1> HIDE DEF rest
<1>3. \A i \in 1 .. Len(rest) : i + 1 \in 1 .. Len(line) /\ i \in Nat
  BY <1>1, <1>2
<1>4. ASSUME NEW i \in 1 .. Len(rest), NEW j \in 1 .. Len(rest),
             rest[i] = "restore", rest[j] = "restore"
      PROVE  i = j /\ place \in Nat /\ Head(line) # "restore"
  <2>1. line[i + 1] = "restore" /\ line[j + 1] = "restore"
    BY <1>2, <1>4
  <2>2. i + 1 = j + 1 /\ place \in Nat
    BY <1>3, <2>1 DEF FramesFit
  <2>3. line[1] = "restore" => 1 = i + 1
    BY <1>1, <1>3, <2>1 DEF FramesFit
  <2> QED
    BY <1>2, <1>3, <2>2, <2>3
<1>5. FramesFit(rest, place)
  BY <1>2, <1>4 DEF FramesFit
<1>6. Head(line) = "restore" => place \in Nat /\ FramesFit(rest, -1)
  BY <1>1, <1>2, <1>4 DEF FramesFit
<1> QED
  BY <1>5, <1>6 DEF rest

LEMMA PatchFits ==
    ASSUME Long!VirtualConstants, VirtualInv, NEW some \in Seq(LongRows), NEW place \in Nat,
           NEW measured \in SUBSET LongRows, NEW line, FramesFit(line, restored),
           Long!Patch(some, place, measured, line)
    PROVE  /\ list' = some /\ heights' = measured /\ top' \in Nat /\ scrolled' \in Nat
           /\ WindowFits(strip', some) /\ FramesFit(frames', restored)
<1> DEFINE w == Long!Range(some, place, measured)
           now == Long!Within(top, w, some)
           next == Long!Ask(line, "measure")
<1>1. /\ strip' = w /\ list' = some /\ heights' = measured /\ top' = now
      /\ scrolled' = IF now # place /\ ~held THEN now ELSE place
      /\ frames' = IF now # place /\ ~held THEN Long!Ask(next, "update") ELSE next
  BY DEF Long!Patch
<1>2. WindowFits(w, some)
  BY RangeFits DEF WindowFits
<1> HIDE DEF w
<1>3. now \in Nat
  BY <1>2, WithinFits DEF VirtualInv, WindowFits
<1>4. FramesFit(next, restored)
  BY AskFits DEF FrameKinds
<1> HIDE DEF next
<1>5. FramesFit(Long!Ask(next, "update"), restored)
  BY <1>4, AskFits DEF FrameKinds
<1> HIDE DEF now
<1> QED
  BY <1>1, <1>2, <1>3, <1>4, <1>5

LEMMA VirtualStart == Long!VirtualConstants /\ Long!VirtualInit => VirtualInv
<1> SUFFICES ASSUME Long!VirtualConstants, Long!VirtualInit PROVE VirtualInv
  OBVIOUS
<1> DEFINE n == Cardinality(LongRows)
<1>1. IsFiniteSet(LongRows) /\ LongRows # {}
  BY ListsCount DEF Long!VirtualConstants
<1>2. n \in Nat \ {0} /\ ExistsBijection(1 .. n, LongRows)
  BY <1>1, FS_CardinalityType, FS_EmptySet
<1>3. list = CHOOSE s \in [1 .. n -> LongRows] : \A i, j \in DOMAIN s : i # j => s[i] # s[j]
  BY ListsCount DEF Long!VirtualInit
<1>4. PICK s \in [1 .. n -> LongRows] : \A i, j \in DOMAIN s : i # j => s[i] # s[j]
  BY <1>2 DEF ExistsBijection, Bijection, Injection, IsInjective
<1>5. list \in [1 .. n -> LongRows]
  BY <1>3, <1>4
<1>6. list \in Seq(LongRows) /\ Len(list) = n
  BY <1>2, <1>5
<1>7. list # <<>>
  BY <1>2, <1>6
<1>8. tall \subseteq LongRows /\ heights = {} /\ top = 0 /\ scrolled = 0 /\ restored = 0
        /\ held = FALSE
      /\ strip = Long!Range(list, 0, {}) /\ frames = <<"restore">>
  BY DEF Long!VirtualInit
<1>9. WindowFits(strip, list)
  BY <1>6, <1>8, RangeFits DEF WindowFits
<1>10. FramesFit(<<"restore">>, 0)
  BY DEF FramesFit, FrameKinds
<1> QED
  BY <1>6, <1>7, <1>8, <1>9, <1>10 DEF VirtualInv

LEMMA VirtualStep ==
    ASSUME Long!VirtualConstants, VirtualInv, [Long!VirtualNext]_(Long!virtualVars)
    PROVE  VirtualInv'
<1>1. /\ tall \subseteq LongRows /\ heights \subseteq LongRows
      /\ list \in Seq(LongRows) /\ list # <<>>
      /\ top \in Nat /\ scrolled \in Nat /\ restored \in Nat \cup {-1} /\ held \in BOOLEAN
      /\ WindowFits(strip, list) /\ FramesFit(frames, restored)
  BY DEF VirtualInv
<1>2. \A what \in FrameKinds : Long!Runs(what) =>
        /\ FramesFit(Tail(frames), restored)
        /\ what = "restore" => restored \in Nat /\ FramesFit(Tail(frames), -1)
  BY <1>1, RunFits DEF Long!Runs
<1>3. "restore" \in FrameKinds /\ "update" \in FrameKinds /\ "measure" \in FrameKinds
      /\ "nothing" \in FrameKinds
  BY DEF FrameKinds
<1>4. CASE Long!Scroll
  <2>1. PICK place \in 0 .. Long!Size(strip, list) :
          /\ top' = place
          /\ IF held THEN UNCHANGED <<scrolled, frames>>
             ELSE scrolled' = place /\ frames' = Long!Ask(frames, "update")
    BY <1>4 DEF Long!Scroll
  <2>2. Long!Size(strip, list) \in Int
    BY <1>1, DrawnAreRows DEF WindowFits
  <2>3. place \in Nat /\ FramesFit(Long!Ask(frames, "update"), restored)
    BY <1>1, <1>3, <2>2, AskFits
  <2>4. UNCHANGED <<tall, list, heights, strip, restored, held>>
    BY <1>4 DEF Long!Scroll
  <2> QED
    BY <1>1, <2>1, <2>3, <2>4 DEF VirtualInv
<1>5. CASE Long!Frame
  <2>1. FramesFit(Tail(frames), restored) /\ Long!Patch(list, scrolled, heights, Tail(frames))
    BY <1>2, <1>3, <1>5 DEF Long!Frame
  <2>2. /\ list' = list /\ heights' = heights /\ top' \in Nat /\ scrolled' \in Nat
        /\ WindowFits(strip', list) /\ FramesFit(frames', restored)
    BY <1>1, <2>1, PatchFits
  <2>3. UNCHANGED <<tall, restored, held>>
    BY <1>5 DEF Long!Frame
  <2> QED
    BY <1>1, <2>2, <2>3 DEF VirtualInv
<1>6. CASE Long!Measure
  <2>1. FramesFit(Tail(frames), restored) /\ frames' = Tail(frames)
    BY <1>2, <1>3, <1>6 DEF Long!Measure
  <2>2. UNCHANGED <<tall, list, heights, top, scrolled, strip, restored, held>>
    BY <1>6 DEF Long!Measure
  <2> QED
    BY <1>1, <2>1, <2>2 DEF VirtualInv
<1>7. CASE Long!Measured
  <2>1. /\ FramesFit(Tail(frames), restored)
        /\ Long!Patch(list, scrolled, heights \cup Long!Drawn(strip, list), Tail(frames))
    BY <1>2, <1>3, <1>7 DEF Long!Measured
  <2>2. heights \cup Long!Drawn(strip, list) \in SUBSET LongRows
    BY <1>1, DrawnAreRows DEF WindowFits
  <2>3. /\ list' = list /\ heights' \subseteq LongRows /\ top' \in Nat /\ scrolled' \in Nat
        /\ WindowFits(strip', list) /\ FramesFit(frames', restored)
    BY <1>1, <2>1, <2>2, PatchFits
  <2>4. UNCHANGED <<tall, restored, held>>
    BY <1>7 DEF Long!Measured
  <2> QED
    BY <1>1, <2>3, <2>4 DEF VirtualInv
<1>8. CASE Long!Snapshot
  <2>1. PICK some \in {Tail(list)} \cup
                    {<<id>> \o list : id \in LongRows \ {list[i] : i \in DOMAIN list}} :
          some # <<>> /\ Long!Patch(some, top, heights, frames)
    BY <1>8 DEF Long!Snapshot
  <2>2. some \in Seq(LongRows)
    <3>1. Tail(list) \in Seq(LongRows)
      BY <1>1
    <3>2. \A id \in LongRows : <<id>> \o list \in Seq(LongRows)
      BY <1>1
    <3> QED
      BY <2>1, <3>1, <3>2
  <2>3. /\ list' = some /\ heights' = heights /\ top' \in Nat /\ scrolled' \in Nat
        /\ WindowFits(strip', some) /\ FramesFit(frames', restored)
    BY <1>1, <2>1, <2>2, PatchFits
  <2>4. UNCHANGED <<tall, restored, held>>
    BY <1>8 DEF Long!Snapshot
  <2> QED
    BY <1>1, <2>1, <2>2, <2>3, <2>4 DEF VirtualInv
<1>9. CASE Long!Redraw
  <2> DEFINE quiet == [i \in DOMAIN frames |->
                         IF frames[i] = "measure" THEN "nothing" ELSE frames[i]]
             put == IF restored = -1 THEN top ELSE restored
  <2>1. /\ held' \in BOOLEAN /\ restored' = put /\ scrolled' = put
        /\ strip' = Long!Range(list, put, heights)
        /\ top' = 0 /\ frames' = Long!Ask(quiet, "restore") /\ UNCHANGED <<tall, list, heights>>
    BY <1>9 DEF Long!Redraw
  <2>2. put \in Nat
    BY <1>1
  <2>3. WindowFits(Long!Range(list, put, heights), list)
    BY <1>1, <2>2, RangeFits DEF WindowFits
  <2>4. FramesFit(quiet, put)
    <3>1. frames \in Seq(FrameKinds) /\ Len(frames) \in Nat /\ DOMAIN frames = 1 .. Len(frames)
      BY <1>1 DEF FramesFit
    <3>2. \A i \in 1 .. Len(frames) : quiet[i] \in FrameKinds
      BY <1>3, <3>1
    <3>3. quiet \in Seq(FrameKinds) /\ Len(quiet) = Len(frames)
      BY <3>1, <3>2
    <3>4. \A i \in 1 .. Len(frames) : quiet[i] = "restore" => frames[i] = "restore"
      BY <3>1
    <3> HIDE DEF quiet, put
    <3> QED
      BY <1>1, <2>2, <3>3, <3>4 DEF FramesFit
  <2> HIDE DEF quiet, put
  <2>5. FramesFit(Long!Ask(quiet, "restore"), put)
    BY <1>3, <2>2, <2>4, AskFits
  <2> QED
    BY <1>1, <2>1, <2>2, <2>3, <2>5 DEF VirtualInv
<1>10. CASE Long!Restore
  <2>1. restored \in Nat /\ FramesFit(Tail(frames), -1)
    BY <1>2, <1>3, <1>10 DEF Long!Restore
  <2>2. /\ restored' = -1 /\ top' = Long!Within(restored, strip, list)
        /\ IF held THEN scrolled' = restored /\ frames' = Tail(frames)
           ELSE scrolled' = top' /\ frames' = Long!Ask(Tail(frames), "update")
        /\ UNCHANGED <<tall, list, heights, strip, held>>
    BY <1>10 DEF Long!Restore
  <2>3. Long!Within(restored, strip, list) \in Nat
    BY <1>1, <2>1, WithinFits DEF WindowFits
  <2>4. FramesFit(Long!Ask(Tail(frames), "update"), -1)
    BY <1>3, <2>1, AskFits
  <2> QED
    BY <1>1, <2>1, <2>2, <2>3, <2>4 DEF VirtualInv
<1>11. CASE UNCHANGED Long!virtualVars
  BY <1>11 DEF Long!virtualVars, VirtualInv
<1> QED
  BY <1>4, <1>5, <1>6, <1>7, <1>8, <1>9, <1>10, <1>11 DEF Long!VirtualNext

LEMMA VirtualTypes == VirtualInv => Long!TypeOK
  BY DEF VirtualInv, Long!TypeOK, FramesFit, FrameKinds, WindowFits

-----------------------------------------------------------------------------
(* THE PREPARATION OF A DOWNLOAD                                           *)

LEMMA PreparationCounts == \A S : Prep!Cardinality(S) = Cardinality(S)
  BY DEF Prep!Cardinality, Cardinality

\* As many items as there are in a set have a rank in it each, and no two the same: they
\* follow one another.
LEMMA InOrderFits ==
    ASSUME Prep!PrepConstants, NEW set \in SUBSET Prep!Ids
    PROVE  Prep!InOrder(set) \in Seq(Prep!Ids)
<1> DEFINE Upto(i) == {j \in set : j <= i}
           N == Cardinality(set)
           rank == [i \in set |-> Cardinality(Upto(i))]
<1>1. set \subseteq Nat /\ IsFiniteSet(set) /\ N \in Nat
  <2>1. Batch \in Int /\ 1 \in Int
    BY DEF Prep!PrepConstants
  <2>2. IsFiniteSet(1 .. Batch)
    BY <2>1, FS_Interval
  <2>3. set \in SUBSET (1 .. Batch) /\ set \subseteq Nat
    BY DEF Prep!Ids
  <2>4. IsFiniteSet(set)
    BY <2>2, <2>3, FS_Subset
  <2> QED
    BY <2>3, <2>4, FS_CardinalityType
<1>2. \A i \in set : IsFiniteSet(Upto(i)) /\ Upto(i) \subseteq set /\ i \in Upto(i)
  BY <1>1, FS_Subset
<1>3. \A i \in set : Cardinality(Upto(i)) \in 1 .. N
  <2> SUFFICES ASSUME NEW i \in set PROVE Cardinality(Upto(i)) \in 1 .. N
    OBVIOUS
  <2>1. IsFiniteSet(Upto(i)) /\ Upto(i) \subseteq set /\ Upto(i) # {}
    BY <1>2
  <2> HIDE DEF Upto
  <2>2. Cardinality(Upto(i)) <= N /\ Cardinality(Upto(i)) \in Nat
    BY <1>1, <2>1, FS_Subset, FS_CardinalityType
  <2>3. Cardinality(Upto(i)) # 0
    BY <2>1, FS_EmptySet
  <2> QED
    BY <1>1, <2>2, <2>3
<1>4. ASSUME NEW i \in set, NEW j \in set, i < j
      PROVE  Cardinality(Upto(i)) # Cardinality(Upto(j))
  <2>1. i \in Nat /\ j \in Nat /\ \A k \in set : k \in Nat
    BY <1>1
  <2>4. j \in Upto(j) /\ j \notin Upto(i) /\ \A k \in Upto(i) : k \in Upto(j)
    BY <1>4, <2>1
  <2>2. IsFiniteSet(Upto(j))
    BY <1>2
  <2> HIDE DEF Upto
  <2>3. Upto(i) # Upto(j) /\ Upto(i) \in SUBSET Upto(j)
    BY <2>4
  <2> QED
    BY <2>2, <2>3, FS_Subset
<1> HIDE DEF Upto
<1>5. rank \in [set -> 1 .. N] /\ \A i, j \in set : rank[i] = rank[j] => i = j
  <2>1. \A i \in set : rank[i] = Cardinality(Upto(i))
    OBVIOUS
  <2>2. \A i, j \in set : i = j \/ i < j \/ j < i
    BY <1>1
  <2> QED
    BY <1>3, <1>4, <2>1, <2>2
<1>6. \A n \in 1 .. N : \E i \in set : rank[i] = n
  <2>1. 1 \in Int /\ N \in Int
    BY <1>1
  <2>2. IsFiniteSet(1 .. N) /\ Cardinality(1 .. N) = IF 1 > N THEN 0 ELSE N - 1 + 1
    BY <2>1, FS_Interval
  <2>3. Cardinality(1 .. N) = N
    BY <1>1, <2>2
  <2> HIDE DEF rank, N
  <2>4. rank \in Injection(set, 1 .. N)
    BY <1>5 DEF Injection, IsInjective
  <2>5. rank \in Surjection(set, 1 .. N)
    BY <2>2, <2>3, <2>4, FS_Injection DEF N
  <2> QED
    BY <2>5 DEF Surjection
<1>7. Prep!InOrder(set) = [n \in 1 .. N |-> CHOOSE i \in set : Cardinality(Upto(i)) = n]
  <2>1. Prep!InOrder(set) = [n \in 1 .. Prep!Cardinality(set) |->
          CHOOSE i \in set : Prep!Cardinality({j \in set : j <= i}) = n]
    BY Zenon DEF Prep!InOrder
  <2>2. Prep!Cardinality(set) = N
          /\ \A i : Prep!Cardinality({j \in set : j <= i}) = Cardinality(Upto(i))
    BY PreparationCounts DEF Upto
  <2> HIDE DEF N
  <2> QED
    BY <2>1, <2>2
<1>8. \A n \in 1 .. N : \E i \in set : Cardinality(Upto(i)) = n
  BY <1>6
<1> DEFINE some == [n \in 1 .. N |-> CHOOSE i \in set : Cardinality(Upto(i)) = n]
<1>9. \A n \in 1 .. N : some[n] \in set
  BY <1>8
<1>10. some = [n \in 1 .. N |-> some[n]]
  OBVIOUS
<1> HIDE DEF some, N
<1>11. some \in Seq(set)
  BY <1>1, <1>9, <1>10
<1> QED
  BY <1>7, <1>11 DEF some

\* An item is chosen, the first of those that stand at their own number.
LEMMA FoundFits ==
    ASSUME NEW line \in Seq(Prep!Ids), Batch \in Nat
    PROVE  Prep!Found(line) \in {0} \cup Prep!Ids /\ Prep!Left(line) \in Seq(Prep!Ids)
<1>1. Prep!Found(line) \in {0} \cup Prep!Ids
  <2>1. CASE Prep!Hits(line) = {}
    BY <2>1 DEF Prep!Found
  <2>2. CASE Prep!Hits(line) # {}
    <3>1. Prep!Hits(line) \in SUBSET Nat /\ Prep!Hits(line) \subseteq Prep!Ids
      BY DEF Prep!Hits, Prep!Ids
    <3>2. \E i \in Prep!Hits(line) : \A j \in Prep!Hits(line) : i <= j
      BY <2>2, <3>1, HasLeast
    <3> QED
      BY <2>2, <3>1, <3>2 DEF Prep!Found, Prep!First
  <2> QED
    BY <2>1, <2>2
<1>2. \A from \in Nat \ {0} : SubSeq(line, from, Len(line)) \in Seq(Prep!Ids)
  <2> SUFFICES ASSUME NEW from \in Nat \ {0}
        PROVE SubSeq(line, from, Len(line)) \in Seq(Prep!Ids)
    OBVIOUS
  <2>1. Len(line) \in Nat /\ \A i \in from .. Len(line) : line[i] \in Prep!Ids
    OBVIOUS
  <2> QED
    BY <2>1, SubSeqProperties
<1>3. (IF Prep!Found(line) = 0 THEN Batch ELSE Prep!Found(line)) + 1 \in Nat \ {0}
  BY <1>1 DEF Prep!Ids
<1> QED
  BY <1>1, <1>2, <1>3 DEF Prep!Left

CallKinds == {"inspect", "media", "size", "open", "queue", "leave", "close"}
Asking == [kind : CallKinds, item : 0 .. Batch, req : 0 .. MaxAsked, gen : Nat]

\* A question about a size is about an item.
PrepInv ==
    /\ analyses \in 0 .. MaxAsked /\ choices \in 0 .. MaxAsked
    /\ analysisRequest \in 0 .. MaxAsked /\ analysed \in Nat
    /\ window \in {"open", "closing", "closed"}
    /\ busy \in BOOLEAN /\ error \in BOOLEAN /\ submitted \in BOOLEAN
    /\ analysis \in Prep!Results /\ items \in [Prep!Ids -> Prep!Item]
    /\ sizeQueue \in Seq(Prep!Ids) /\ sizeActive \in 0 .. 2 /\ known \subseteq Prep!Ids
    /\ asked \subseteq Asking /\ \A c \in asked : c.kind = "size" => c.item \in Prep!Ids

LEMMA PrepStart == Prep!PrepConstants /\ Prep!PrepInit => PrepInv
<1> SUFFICES ASSUME Prep!PrepConstants, Prep!PrepInit PROVE PrepInv
  OBVIOUS
<1>1. [selected |-> TRUE, status |-> "pending"] \in Prep!Item
  BY DEF Prep!Item, Prep!Statuses
<1>2. items \in [Prep!Ids -> Prep!Item]
  BY <1>1 DEF Prep!PrepInit
<1>3. sizeQueue \in Seq(Prep!Ids)
  BY EmptySeq DEF Prep!PrepInit
<1>4. 0 \in 0 .. MaxAsked /\ "none" \in Prep!Results
  BY DEF Prep!PrepConstants, Prep!Results
<1> QED
  <2>1. /\ analyses = 0 /\ choices = 0 /\ analysisRequest = 0 /\ analysed = 0
        /\ window = "open" /\ analysis = "none" /\ sizeActive = 0 /\ known = {} /\ asked = {}
    BY DEF Prep!PrepInit
  <2>2. busy \in BOOLEAN /\ error \in BOOLEAN /\ submitted \in BOOLEAN
    BY DEF Prep!PrepInit
  <2> QED
    BY <1>2, <1>3, <1>4, <2>1, <2>2 DEF PrepInv

LEMMA PrepStep ==
    ASSUME Prep!PrepConstants, PrepInv, [Prep!PrepNext]_(Prep!prepVars)
    PROVE  PrepInv'
<1>1. /\ analyses \in 0 .. MaxAsked /\ choices \in 0 .. MaxAsked
      /\ analysisRequest \in 0 .. MaxAsked /\ analysed \in Nat
      /\ window \in {"open", "closing", "closed"}
      /\ busy \in BOOLEAN /\ error \in BOOLEAN /\ submitted \in BOOLEAN
      /\ analysis \in Prep!Results /\ items \in [Prep!Ids -> Prep!Item]
      /\ sizeQueue \in Seq(Prep!Ids) /\ sizeActive \in 0 .. 2 /\ known \subseteq Prep!Ids
      /\ asked \subseteq Asking /\ \A c \in asked : c.kind = "size" => c.item \in Prep!Ids
      /\ Batch \in Nat /\ MaxAsked \in Nat
  BY DEF PrepInv, Prep!PrepConstants
<1>2. ASSUME NEW sort \in CallKinds \ {"size"}, analysisRequest' \in 0 .. MaxAsked,
             analysed' \in Nat,
             asked' = asked \cup {Prep!Call(sort, 0)}
      PROVE  asked' \subseteq Asking /\ \A c \in asked' : c.kind = "size" => c.item \in Prep!Ids
  <2>1. Prep!Call(sort, 0) \in Asking /\ Prep!Call(sort, 0).kind # "size"
    BY <1>1, <1>2 DEF Prep!Call, Asking
  <2> QED
    BY <1>1, <1>2, <2>1
<1>3. ASSUME NEW c \in asked,
             \/ asked' = asked \ {c}
             \/ \E sort \in {"media", "leave"} :
                  asked' = (asked \ {c}) \cup {[c EXCEPT !.kind = sort]}
      PROVE  asked' \subseteq Asking /\ \A d \in asked' : d.kind = "size" => d.item \in Prep!Ids
  <2>1. ASSUME NEW sort \in {"media", "leave"}
        PROVE  [c EXCEPT !.kind = sort] \in Asking /\ [c EXCEPT !.kind = sort].kind # "size"
    BY <1>1 DEF Asking, CallKinds
  <2> QED
    BY <1>1, <1>3, <2>1
<1>4. CASE Prep!Analyze
  <2>1. /\ analyses' \in 0 .. MaxAsked /\ analysisRequest' \in 0 .. MaxAsked
        /\ analysed' \in Nat
        /\ window' \in {"open", "closing", "closed"} /\ sizeActive' \in 0 .. 2
    BY <1>1, <1>4 DEF Prep!Analyze
  <2>2. asked' \subseteq Asking /\ \A c \in asked' : c.kind = "size" => c.item \in Prep!Ids
    BY <1>2, <1>4, <2>1 DEF Prep!Analyze, CallKinds
  <2>3. error' \in BOOLEAN /\ busy' \in BOOLEAN /\ analysis' \in Prep!Results
    BY <1>4 DEF Prep!Analyze, Prep!Results
  <2>4. sizeQueue' \in Seq(Prep!Ids)
    BY <1>4, EmptySeq DEF Prep!Analyze
  <2>5. UNCHANGED <<choices, submitted, items, known>>
    BY <1>4 DEF Prep!Analyze
  <2> QED
    BY <1>1, <2>1, <2>2, <2>3, <2>4, <2>5 DEF PrepInv
<1>5. ASSUME NEW c \in asked, Prep!Inspected(c) PROVE PrepInv'
  <2>1. asked' \subseteq Asking /\ \A d \in asked' : d.kind = "size" => d.item \in Prep!Ids
    BY <1>3, <1>5 DEF Prep!Inspected
  <2>2. analysis' \in Prep!Results /\ busy' \in BOOLEAN
    BY <1>1, <1>5 DEF Prep!Inspected, Prep!Results
  <2>3. UNCHANGED <<analyses, choices, analysisRequest, analysed, window, submitted, error,
                    items,
                    sizeQueue, sizeActive, known>>
    BY <1>5 DEF Prep!Inspected, Prep!asked, Prep!sizes
  <2> QED
    BY <1>1, <2>1, <2>2, <2>3 DEF PrepInv
<1>6. ASSUME NEW c \in asked, Prep!Resolved(c) PROVE PrepInv'
  <2>1. asked' \subseteq Asking /\ \A d \in asked' : d.kind = "size" => d.item \in Prep!Ids
    BY <1>3, <1>6 DEF Prep!Resolved
  <2>2. analysis' \in Prep!Results
    BY <1>1, <1>6 DEF Prep!Resolved, Prep!Results
  <2>3. busy' \in BOOLEAN
    BY <1>1, <1>6 DEF Prep!Resolved
  <2>4. sizeActive' = sizeActive /\ known' = known
    BY <1>6 DEF Prep!Resolved, Prep!sizes
  <2>5. items' \in [Prep!Ids -> Prep!Item] /\ sizeQueue' \in Seq(Prep!Ids)
    <3>1. CASE UNCHANGED Prep!sizes
      BY <1>1, <3>1 DEF Prep!sizes
    <3>2. ASSUME NEW sized \in SUBSET Prep!Ids,
                 items' = [i \in Prep!Ids |-> [selected |-> TRUE,
                             status |-> IF i \in sized THEN "known" ELSE "pending"]],
                 sizeQueue' = Prep!InOrder(Prep!Ids \ sized)
          PROVE  items' \in [Prep!Ids -> Prep!Item] /\ sizeQueue' \in Seq(Prep!Ids)
      <4>1. \A i \in Prep!Ids : [selected |-> TRUE,
            status |-> IF i \in sized THEN "known" ELSE "pending"]
                              \in Prep!Item
        BY DEF Prep!Item, Prep!Statuses
      <4>2. Prep!InOrder(Prep!Ids \ sized) \in Seq(Prep!Ids)
        BY InOrderFits
      <4> QED
        BY <3>2, <4>1, <4>2
    <3> QED
      BY <1>6, <3>1, <3>2 DEF Prep!Resolved
  <2>6. UNCHANGED <<analyses, choices, analysisRequest, analysed, window, submitted, error>>
    BY <1>6 DEF Prep!Resolved, Prep!Rendered, Prep!asked
  <2> QED
    BY <1>1, <2>1, <2>2, <2>3, <2>4, <2>5, <2>6 DEF PrepInv
<1>7. ASSUME NEW c \in asked, Prep!FailedAnalysis(c) PROVE PrepInv'
  <2>1. asked' \subseteq Asking /\ \A d \in asked' : d.kind = "size" => d.item \in Prep!Ids
    BY <1>3, <1>7 DEF Prep!FailedAnalysis
  <2>2. error' \in BOOLEAN /\ busy' \in BOOLEAN
    BY <1>1, <1>7 DEF Prep!FailedAnalysis
  <2>3. UNCHANGED <<analyses, choices, analysisRequest, analysed, window, submitted, analysis,
                    items,
                    sizeQueue, sizeActive, known>>
    BY <1>7 DEF Prep!FailedAnalysis, Prep!Rendered, Prep!asked, Prep!sizes
  <2> QED
    BY <1>1, <2>1, <2>2, <2>3 DEF PrepInv
<1>8. ASSUME NEW i \in Prep!Ids, NEW status \in Prep!Statuses
      PROVE [items[i] EXCEPT !.status = status] \in Prep!Item
  BY <1>1 DEF Prep!Item
<1>9. ASSUME NEW gen, Prep!Pumps(gen) PROVE PrepInv'
  <2> DEFINE i == Prep!Found(sizeQueue)
  <2>1. UNCHANGED <<analyses, choices, analysisRequest, analysed, window, busy, error,
                    submitted,
                    analysis, known>>
    BY <1>9 DEF Prep!Pumps, Prep!asked, Prep!shown
  <2>2. CASE gen = analysed /\ sizeActive < 2 /\ sizeQueue # <<>>
    <3>1. sizeQueue' = Prep!Left(sizeQueue)
      BY <1>9, <2>2 DEF Prep!Pumps
    <3>2. i \in {0} \cup Prep!Ids /\ Prep!Left(sizeQueue) \in Seq(Prep!Ids)
      BY <1>1, FoundFits
    <3>3. \/ UNCHANGED <<items, sizeActive, asked>>
          \/ /\ i # 0 /\ items' = [items EXCEPT ![i].status = "analyzing"]
             /\ sizeActive' = sizeActive + 1
             /\ asked' = asked \cup {[kind |-> "size", item |-> i, req |-> analysisRequest,
                gen |-> gen]}
      BY <1>9, <2>2, Zenon DEF Prep!Pumps
    <3> HIDE DEF i
    <3>4. CASE UNCHANGED <<items, sizeActive, asked>>
      BY <1>1, <2>1, <3>1, <3>2, <3>4 DEF PrepInv
    <3>5. CASE /\ i # 0 /\ items' = [items EXCEPT ![i].status = "analyzing"]
               /\ sizeActive' = sizeActive + 1
               /\ asked' = asked \cup {[kind |-> "size", item |-> i, req |-> analysisRequest,
                  gen |-> gen]}
      <4>1. i \in Prep!Ids /\ i \in 0 .. Batch
        BY <3>2, <3>5 DEF Prep!Ids
      <4>2. [items[i] EXCEPT !.status = "analyzing"] \in Prep!Item
        BY <1>8, <4>1 DEF Prep!Statuses
      <4>3. items' \in [Prep!Ids -> Prep!Item]
        BY <1>1, <3>5, <4>1, <4>2
      <4>4. [kind |-> "size", item |-> i, req |-> analysisRequest, gen |-> gen] \in Asking
        BY <1>1, <2>2, <4>1 DEF Asking, CallKinds
      <4>5. asked' \subseteq Asking /\ \A c \in asked' : c.kind = "size" => c.item \in Prep!Ids
        BY <1>1, <3>5, <4>1, <4>4
      <4>6. sizeActive' \in 0 .. 2
        BY <1>1, <2>2, <3>5
      <4> QED
        BY <1>1, <2>1, <3>1, <3>2, <4>3, <4>5, <4>6 DEF PrepInv
    <3> QED
      BY <3>3, <3>4, <3>5
  <2>3. CASE ~(gen = analysed /\ sizeActive < 2 /\ sizeQueue # <<>>)
    <3>1. UNCHANGED <<items, sizeQueue, sizeActive, asked>>
      BY <1>9, <2>3 DEF Prep!Pumps
    <3> QED
      BY <1>1, <2>1, <3>1 DEF PrepInv
  <2> QED
    BY <2>2, <2>3
<1>10. ASSUME NEW c \in asked, Prep!Sized(c) PROVE PrepInv'
  <2>1. c.item \in Prep!Ids /\ asked' \subseteq Asking
          /\ \A d \in asked' : d.kind = "size" => d.item \in Prep!Ids
    BY <1>1, <1>3, <1>10 DEF Prep!Sized
  <2>2. known' \subseteq Prep!Ids
    BY <1>1, <1>10, <2>1 DEF Prep!Sized
  <2>3. sizeActive' \in 0 .. 2
    BY <1>1, <1>10 DEF Prep!Sized
  <2>4. items' = items \/ \E status \in {"unknown", "known"} :
                            items' = [items EXCEPT ![c.item].status = status]
    BY <1>10 DEF Prep!Sized
  <2>5. items' \in [Prep!Ids -> Prep!Item]
    <3>1. ASSUME NEW status \in {"unknown", "known"},
                 items' = [items EXCEPT ![c.item].status = status]
          PROVE  items' \in [Prep!Ids -> Prep!Item]
      <4>1. [items[c.item] EXCEPT !.status = status] \in Prep!Item
        BY <1>8, <2>1 DEF Prep!Statuses
      <4> QED
        BY <1>1, <2>1, <3>1, <4>1
    <3> QED
      BY <1>1, <2>4, <3>1
  <2>6. UNCHANGED <<analyses, choices, analysisRequest, analysed, window, busy, error,
                    submitted,
                    analysis, sizeQueue>>
    BY <1>10 DEF Prep!Sized, Prep!asked, Prep!shown
  <2> QED
    BY <1>1, <2>1, <2>2, <2>3, <2>5, <2>6 DEF PrepInv
<1>11. Prep!Chooses => choices' \in 0 .. MaxAsked /\ analyses' = analyses
  BY <1>1 DEF Prep!Chooses
<1>12. \A of : Prep!Wanted(of) \in Seq(Prep!Ids)
  BY InOrderFits DEF Prep!Wanted
<1>13. ASSUME NEW those, NEW value \in BOOLEAN, Prep!Select(those, value) PROVE PrepInv'
  <2>1. \A i \in Prep!Ids : [items[i] EXCEPT !.selected = value] \in Prep!Item
    BY <1>1 DEF Prep!Item
  <2>2. items' \in [Prep!Ids -> Prep!Item]
    BY <1>1, <1>13, <2>1 DEF Prep!Select
  <2>3. sizeQueue' \in Seq(Prep!Ids)
    BY <1>1, <1>12, <1>13 DEF Prep!Select, Prep!StartsSizes
  <2>4. choices' \in 0 .. MaxAsked /\ analyses' = analyses
    BY <1>11, <1>13 DEF Prep!Select
  <2>5. UNCHANGED <<analysisRequest, analysed, window, busy, error, submitted, analysis,
                    sizeActive,
                    known, asked>>
    BY <1>13 DEF Prep!Select, Prep!shown
  <2> QED
    BY <1>1, <2>2, <2>3, <2>4, <2>5 DEF PrepInv
<1>14. CASE Prep!ChooseFormat
  <2>1. \A i \in Prep!Ids : [items[i] EXCEPT !.status = "pending"] \in Prep!Item
    BY <1>8 DEF Prep!Statuses
  <2>2. items' \in [Prep!Ids -> Prep!Item]
    BY <1>1, <1>14, <2>1 DEF Prep!ChooseFormat
  <2>3. sizeQueue' \in Seq(Prep!Ids)
    BY <1>12, <1>14 DEF Prep!ChooseFormat, Prep!StartsSizes
  <2>4. choices' \in 0 .. MaxAsked /\ analyses' = analyses /\ analysed' \in Nat
          /\ sizeActive' \in 0 .. 2
    BY <1>1, <1>11, <1>14 DEF Prep!ChooseFormat
  <2>5. UNCHANGED <<analysisRequest, window, busy, error, submitted, analysis, known, asked>>
    BY <1>14 DEF Prep!ChooseFormat, Prep!shown
  <2> QED
    BY <1>1, <2>2, <2>3, <2>4, <2>5 DEF PrepInv
<1>15. CASE Prep!Opens
  <2>1. choices' \in 0 .. MaxAsked /\ analyses' = analyses
          /\ analysisRequest' = analysisRequest /\ analysed' = analysed
    BY <1>11, <1>15 DEF Prep!Opens
  <2>2. asked' \subseteq Asking /\ \A c \in asked' : c.kind = "size" => c.item \in Prep!Ids
    BY <1>1, <1>2, <1>15, <2>1 DEF Prep!Opens, CallKinds
  <2>3. UNCHANGED <<window, busy, error, submitted, analysis, items, sizeQueue, sizeActive,
                    known>>
    BY <1>15 DEF Prep!Opens, Prep!shown, Prep!sizes
  <2> QED
    BY <1>1, <2>1, <2>2, <2>3 DEF PrepInv
<1>16. ASSUME NEW c \in asked, Prep!Opened(c) PROVE PrepInv'
  <2>1. asked' \subseteq Asking /\ \A d \in asked' : d.kind = "size" => d.item \in Prep!Ids
    BY <1>3, <1>16 DEF Prep!Opened
  <2>2. busy' \in BOOLEAN /\ error' \in BOOLEAN /\ submitted' \in BOOLEAN
    BY <1>1, <1>16 DEF Prep!Opened, Prep!shown, Prep!Errs
  <2>3. UNCHANGED <<analyses, choices, analysisRequest, analysed, window, analysis, items,
                    sizeQueue,
                    sizeActive, known>>
    BY <1>16 DEF Prep!Opened, Prep!asked, Prep!sizes
  <2> QED
    BY <1>1, <2>1, <2>2, <2>3 DEF PrepInv
<1>17. CASE Prep!Confirm
  <2>1. analysisRequest' = analysisRequest /\ analysed' = analysed /\ submitted' \in BOOLEAN
          /\ busy' \in BOOLEAN
    BY <1>17 DEF Prep!Confirm
  <2>2. asked' \subseteq Asking /\ \A c \in asked' : c.kind = "size" => c.item \in Prep!Ids
    BY <1>1, <1>2, <1>17, <2>1 DEF Prep!Confirm, CallKinds
  <2>3. UNCHANGED <<analyses, choices, window, error, analysis, items, sizeQueue, sizeActive,
                    known>>
    BY <1>17 DEF Prep!Confirm, Prep!asked, Prep!sizes
  <2> QED
    BY <1>1, <2>1, <2>2, <2>3 DEF PrepInv
<1>18. ASSUME NEW c \in asked, Prep!Queued(c) PROVE PrepInv'
  <2>1. asked' \subseteq Asking /\ \A d \in asked' : d.kind = "size" => d.item \in Prep!Ids
    BY <1>3, <1>18 DEF Prep!Queued
  <2>2. busy' \in BOOLEAN /\ error' \in BOOLEAN /\ submitted' \in BOOLEAN
    BY <1>1, <1>18 DEF Prep!Queued, Prep!Errs
  <2>3. UNCHANGED <<analyses, choices, analysisRequest, analysed, window, analysis, items,
                    sizeQueue,
                    sizeActive, known>>
    BY <1>18 DEF Prep!Queued, Prep!asked, Prep!sizes
  <2> QED
    BY <1>1, <2>1, <2>2, <2>3 DEF PrepInv
<1>19. CASE Prep!Close
  <2>1. /\ window' = "closing" /\ analysed' \in Nat /\ analysisRequest' \in 0 .. MaxAsked
    BY <1>1, <1>19 DEF Prep!Close
  <2>2. asked' \subseteq Asking /\ \A c \in asked' : c.kind = "size" => c.item \in Prep!Ids
    BY <1>2, <1>19, <2>1 DEF Prep!Close, CallKinds
  <2>3. sizeQueue' \in Seq(Prep!Ids)
    BY <1>19, EmptySeq DEF Prep!Close
  <2>4. UNCHANGED <<analyses, choices, busy, error, submitted, analysis, items, sizeActive,
                    known>>
    BY <1>19 DEF Prep!Close, Prep!asked, Prep!shown
  <2> QED
    BY <1>1, <2>1, <2>2, <2>3, <2>4 DEF PrepInv
<1>20. ASSUME NEW c \in asked, Prep!Closed(c) PROVE PrepInv'
  <2>1. asked' \subseteq Asking /\ \A d \in asked' : d.kind = "size" => d.item \in Prep!Ids
    BY <1>3, <1>20 DEF Prep!Closed
  <2>2. busy' \in BOOLEAN /\ error' \in BOOLEAN /\ submitted' \in BOOLEAN
    BY <1>1, <1>20 DEF Prep!Closed, Prep!shown, Prep!Errs
  <2>3. window' \in {"open", "closing", "closed"}
    BY <1>1, <1>20 DEF Prep!Closed
  <2>4. UNCHANGED <<analyses, choices, analysisRequest, analysed, analysis, items, sizeQueue,
                    sizeActive, known>>
    BY <1>20 DEF Prep!Closed, Prep!asked, Prep!sizes
  <2> QED
    BY <1>1, <2>1, <2>2, <2>3, <2>4 DEF PrepInv
<1>21. CASE UNCHANGED Prep!prepVars
  BY <1>21 DEF Prep!prepVars, PrepInv
<1>22. ASSUME NEW some, Prep!Answered(some) PROVE PrepInv'
  BY <1>5, <1>6, <1>7, <1>10, <1>16, <1>18, <1>20, <1>22 DEF Prep!Answered
<1> QED
  BY <1>4, <1>9, <1>13, <1>14, <1>15, <1>17, <1>19, <1>21, <1>22
     DEF Prep!PrepNext, Prep!PumpsDue, Prep!Chosen

LEMMA PrepTypes == PrepInv => Prep!TypeOK
  BY DEF PrepInv, Prep!TypeOK

-----------------------------------------------------------------------------
(* THE WINDOWS TOGETHER                                                    *)

\* Whichever part moves, each of them takes a step of its own or rests.
LEMMA PartsMove ==
    ASSUME [MCNext]_partVars
    PROVE  /\ [Draw!RenderNext]_(Draw!renderVars) /\ [Long!VirtualNext]_(Long!virtualVars)
           /\ [Prep!PrepNext]_(Prep!prepVars) /\ [PlayerNext]_playerVars
<1>1. /\ UNCHANGED drawVars => UNCHANGED Draw!renderVars
      /\ UNCHANGED longVars => UNCHANGED Long!virtualVars
      /\ UNCHANGED prepVars => UNCHANGED Prep!prepVars
  BY DEF drawVars, Draw!renderVars, longVars, Long!virtualVars, prepVars, Prep!prepVars
<1>2. CASE UNCHANGED partVars
  BY <1>1, <1>2 DEF partVars
<1>3. ASSUME NEW part \in Parts, \A other \in Parts \ {part} : Still(other)
      PROVE  /\ part # "draw" => UNCHANGED Draw!renderVars
             /\ part # "long" => UNCHANGED Long!virtualVars
             /\ part # "prep" => UNCHANGED Prep!prepVars
             /\ part # "play" => UNCHANGED playerVars
  <2>1. \A other \in Parts : other # part => Still(other)
    BY <1>3
  <2>2. /\ Still("draw") => UNCHANGED drawVars
        /\ Still("long") => UNCHANGED longVars
        /\ Still("prep") => UNCHANGED prepVars
        /\ Still("play") => UNCHANGED playerVars
    BY DEF Still
  <2> QED
    BY <1>1, <2>1, <2>2 DEF Parts
<1>4. CASE Alone("draw", Draw!RenderNext)
  BY <1>3, <1>4 DEF Alone, In, Parts
<1>5. CASE Alone("long", Long!VirtualNext)
  BY <1>3, <1>5 DEF Alone, In, Parts
<1>6. CASE Alone("prep", Prep!PrepNext)
  BY <1>3, <1>6 DEF Alone, In, Parts
<1>7. CASE Alone("play", PlayerNext)
  BY <1>3, <1>7 DEF Alone, In, Parts
<1> QED
  BY <1>2, <1>4, <1>5, <1>6, <1>7 DEF MCNext

\* What holds of each part, whichever of them moves.
WindowsInv == RenderInv /\ VirtualInv /\ PrepInv /\ PlayerInv

LEMMA WindowsStart == MCInit => WindowsInv
<1>1. /\ Draw!RenderConstants /\ Long!VirtualConstants /\ Prep!PrepConstants
      /\ PlayerConstants
  BY PartAssumption
<1> QED
  BY <1>1, RenderStart, VirtualStart, PrepStart, PlayerStarts DEF MCInit, WindowsInv

LEMMA WindowsStep == WindowsInv /\ [MCNext]_partVars => WindowsInv'
<1>1. /\ Draw!RenderConstants /\ Long!VirtualConstants /\ Prep!PrepConstants
      /\ PlayerConstants
  BY PartAssumption
<1> QED
  BY <1>1, PartsMove, RenderStep, VirtualStep, PrepStep, PlayerSteps DEF WindowsInv

\* Each part of the windows keeps the types of its variables, whichever of them moves: the
\* drawing, the long lists, whose window stays within the list, the preparation, which
\* looks up two sizes at a time at most, and the player.
THEOREM PartsKeepTypes == MCSpec => []PartTypes
<1>1. WindowsInv => PartTypes
  BY VirtualTypes, PrepTypes DEF WindowsInv, PartTypes, RenderInv, PlayerInv
<1> QED
  BY <1>1, WindowsStart, WindowsStep, PTL DEF MCSpec

\* What plays is what was asked for last, for every behaviour of the windows together
\* (player.js).
THEOREM WindowsPlayWhatIsAsked == MCSpec => []ReadyIsAsked
<1>1. WindowsInv => ReadyIsAsked
  BY DEF WindowsInv, PlayerInv
<1> QED
  BY <1>1, WindowsStart, WindowsStep, PTL DEF MCSpec
=============================================================================
