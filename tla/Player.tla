------------------------------- MODULE Player -------------------------------
(***************************************************************************)
(* The media player's window (app-ui/player/player.js): a downloaded file, *)
(* an online preview or a playlist is asked for, the application resolves  *)
(* it, and the media elements play it. A preview falls back from one kind  *)
(* of stream to the next, on errors, on timeouts and on refusals. Every    *)
(* load takes a generation, and what an older one brings is dropped.       *)
(***************************************************************************)
EXTENDS Integers, FiniteSets

CONSTANTS
    Items,         \* positions of the playlist
    MaxRequests,   \* what the user asks for
    MaxLoads       \* generations: requests, polls, items, changes of quality

VARIABLES
    request, kind,     \* number and kind of the last request
    generation,        \* loadGeneration
    source, state, stage,   \* currentSource, playerState, onlinePreviewStage
    bound,             \* the media the elements hold
    calls,             \* resolutions under way
    stageTimer,        \* the timeout of a preview's stage
    refresh,           \* refreshTimer: look again, or go on in the playlist
    queue, at,         \* activePlaylistQueue and activePlaylistIndex
    advancing,         \* playlistAdvancePending: the generation it waits for
    listing            \* loadPlaylist waits for the queue

PlayerConstants == {MaxRequests, MaxLoads} \subseteq Nat /\ Items \subseteq Nat

loading  == <<generation, stage, bound, calls, stageTimer>>
playlist == <<queue, at, advancing, listing>>
playerVars == <<request, kind, source, state, refresh, loading, playlist>>

Kinds  == {"job", "youtube", "platform", "playlist"}
Stages == {"idle", "native", "progressive", "adaptive", "low", "failed"}
Chains == {"job", "native", "after_native", "adaptive", "low",
           "embed", "frame", "direct", "last_embed", "last_frame"}
Nothing == [for |-> 0, gen |-> 0, media |-> "none", video |-> FALSE, audio |-> FALSE, started |-> FALSE]
NoTimer == [gen |-> 0, stage |-> "idle"]

PlayerInit ==
    /\ request = 0 /\ kind = "job" /\ generation = 0
    /\ source = "local" /\ state = "waiting" /\ stage = "idle"
    /\ bound = Nothing /\ calls = {} /\ stageTimer = NoTimer /\ refresh = "none"
    /\ queue = {} /\ at = 0 /\ advancing = 0 /\ listing = FALSE

Current(gen) == gen = generation
Call(chain)  == [for |-> request', gen |-> generation', chain |-> chain]

\* bindMediaElement: the elements are emptied, and the stage's timer with them.
Binds(c, media) ==
    bound' = [Nothing EXCEPT !.for = c.for, !.gen = c.gen, !.media = media]

----------------------------------------------------------------------------
(* Files and playlists                                                     *)

\* loadJob.
LoadsJob ==
    /\ generation < MaxLoads
    /\ generation' = generation + 1
    /\ calls' = calls \cup {Call("job")}
    /\ refresh' = "none"
    /\ state' = "loading"
    /\ UNCHANGED <<stage, bound, stageTimer>>

Asks(what) ==
    /\ request < MaxRequests
    /\ request' = request + 1
    /\ kind' = what

AskJob ==
    /\ Asks("job")
    /\ source' = "local" /\ queue' = {} /\ at' = 0
    /\ LoadsJob
    /\ UNCHANGED <<advancing, listing>>

\* loadPlaylist takes no generation: what an earlier request is still waiting
\* for may yet be played under the playlist.
AskPlaylist ==
    /\ Asks("playlist")
    /\ source' = "playlist" /\ queue' = {} /\ at' = 0 /\ listing' = TRUE
    /\ refresh' = "none" /\ state' = "loading"
    /\ UNCHANGED <<loading, advancing>>
Listed ==
    /\ listing /\ listing' = FALSE
    /\ \/ state' = "error" /\ UNCHANGED <<queue, at, bound, stageTimer>>
       \/ /\ source = "playlist"
          /\ \E playable \in SUBSET Items : queue' = playable
          /\ at' = 0
          /\ state' = "waiting"
          /\ \/ queue' = {} /\ UNCHANGED <<bound, stageTimer>>   \* nothing in it
             \/ bound' = [Nothing EXCEPT !.for = request, !.gen = generation] /\ stageTimer' = NoTimer
       \/ source # "playlist" /\ UNCHANGED <<queue, at, state, bound, stageTimer>>
    /\ UNCHANGED <<request, kind, source, refresh, generation, stage, calls, advancing>>

\* loadPlaylistItem, by the user or by advancePlaylist; the latter waits for it.
Plays(item, waits) ==
    /\ item \in queue
    /\ UNCHANGED <<request, kind, queue, listing>>
    /\ at' = item
    /\ source' = "playlist"
    /\ LoadsJob
    /\ advancing' = IF waits THEN generation' ELSE advancing
AskItem(item) == Plays(item, FALSE)

\* playablePlaylistIndexFrom.
Beyond(direction) == {item \in queue : IF direction > 0 THEN item > at ELSE item < at}
NextItem(direction) ==
    CHOOSE item \in Beyond(direction) : \A other \in Beyond(direction) :
        IF direction > 0 THEN item <= other ELSE item >= other
CanAdvance(direction) == advancing = 0 /\ at # 0 /\ Beyond(direction) # {}
Advance(direction) ==
    source = "playlist" /\ CanAdvance(direction) /\ Plays(NextItem(direction), TRUE)

\* The application's answer to loadJob: a file to play; one not there yet, which
\* is looked at again, or passed over in a playlist; or an error.
AnsweredJob(c) ==
    /\ c \in calls /\ c.chain = "job"
    /\ calls' = calls \ {c}
    /\ advancing' = IF advancing = c.gen THEN 0 ELSE advancing
    /\ IF ~Current(c.gen) THEN UNCHANGED <<state, bound, stageTimer, refresh>>
       ELSE \/ state' = "ready" /\ Binds(c, "file") /\ stageTimer' = NoTimer /\ UNCHANGED refresh
            \/ /\ state' = "waiting" /\ Binds(c, "none") /\ stageTimer' = NoTimer
               /\ refresh' \in IF source = "playlist" THEN {"skip"} ELSE {"poll", "none"}
            \/ state' = "error" /\ UNCHANGED <<bound, stageTimer, refresh>>
    /\ UNCHANGED <<request, kind, source, generation, stage, queue, at, listing>>

\* refreshTimer runs out.
Poll ==
    /\ refresh = "poll"
    /\ UNCHANGED <<request, kind, advancing, listing>>
    /\ source' = "local" /\ queue' = {} /\ at' = 0
    /\ LoadsJob
Skip ==
    /\ refresh = "skip"
    /\ IF CanAdvance(1) THEN Plays(NextItem(1), TRUE)
       ELSE refresh' = "none" /\ UNCHANGED <<request, kind, source, state, loading, playlist>>

\* The file has ended; at the last item the playlist stays there.
Ended == bound.media = "file" /\ state = "ready" /\ Advance(1)

----------------------------------------------------------------------------
(* Online previews                                                         *)

\* loadPreview: a native stream first for YouTube, the platform's own player
\* first for the others.
AskPreview(what) ==
    /\ Asks(what)
    /\ generation < MaxLoads /\ generation' = generation + 1
    /\ source' = "preview" /\ queue' = {} /\ at' = 0 /\ refresh' = "none"
    /\ state' = "loading"
    /\ stage' = IF what = "youtube" THEN "native" ELSE "progressive"
    /\ calls' = calls \cup {Call(IF what = "youtube" THEN "native" ELSE "embed")}
    /\ UNCHANGED <<bound, stageTimer, advancing, listing>>

Rests == UNCHANGED <<request, kind, source, refresh, playlist>>
Same  == generation' = generation

\* fallbackFromProgressive and fallbackFromLowProgressive.
FallsToAdaptive(others) ==
    IF stage \in {"adaptive", "failed"} THEN calls' = others /\ UNCHANGED <<stage, state>>
    ELSE stage' = "adaptive" /\ state' = "loading" /\ calls' = others \cup {Call("adaptive")}
FallsToLow(others) ==
    IF stage = "failed" THEN calls' = others /\ UNCHANGED <<stage, state>>
    ELSE stage' = "low" /\ state' = "loading" /\ calls' = others \cup {Call("low")}
Failed == stage' = "failed" /\ state' = "error"

\* prepareSinglePreview, and prepareDualPreview, whose sound may be missing.
BindsStream(c, media) ==
    \E sound \in BOOLEAN : bound' = [Nothing EXCEPT !.for = c.for, !.gen = c.gen,
                                        !.media = media, !.audio = sound /\ media = "dual"]
PreparesUnarmed(c, media, next) ==
    /\ BindsStream(c, media)
    /\ stage' = next /\ state' = "loading"
    /\ stageTimer' = IF next = "adaptive" THEN NoTimer ELSE [gen |-> c.gen, stage |-> next]
Prepares(c, media, next) ==
    /\ BindsStream(c, media)
    /\ stage' = next /\ state' = "loading"
    /\ stageTimer' = [gen |-> c.gen, stage |-> next]

\* loadDirectPreview is answered.
AnsweredDirectAnyway(c) ==
    /\ c \in calls /\ c.chain \in {"native", "after_native", "adaptive", "low", "direct"}
    /\ calls' = calls \ {c}
    /\ \/ c.chain = "low" /\ Prepares(c, "single", "low")
       \/ c.chain \in {"native", "after_native", "direct"} /\ Prepares(c, "single", "progressive")
       \/ c.chain # "low" /\ Prepares(c, "dual", "adaptive")
    /\ UNCHANGED generation /\ Rests
AnsweredDirect(c) ==
    /\ c \in calls /\ c.chain \in {"native", "after_native", "adaptive", "low", "direct"}
    /\ calls' = calls \ {c}
    /\ IF ~Current(c.gen) THEN UNCHANGED <<bound, stage, state, stageTimer>>
       ELSE \/ c.chain = "low" /\ Prepares(c, "single", "low")
            \/ c.chain \in {"native", "after_native", "direct"} /\ Prepares(c, "single", "progressive")
            \/ c.chain # "low" /\ Prepares(c, "dual", "adaptive")
    /\ UNCHANGED generation /\ Rests

\* It is refused, finds no stream, or takes fifteen seconds.
RefusedDirect(c) ==
    /\ c \in calls /\ c.chain \in {"native", "after_native", "adaptive", "low", "direct"}
    /\ Same /\ Rests
    /\ IF ~Current(c.gen) THEN calls' = calls \ {c} /\ UNCHANGED <<stage, state, bound, stageTimer>>
       ELSE CASE c.chain = "native" ->
                   /\ state' = "loading"
                   /\ calls' = (calls \ {c}) \cup {Call("after_native")}
                   /\ UNCHANGED <<stage, bound, stageTimer>>
              [] c.chain = "after_native" ->
                   FallsToAdaptive(calls \ {c}) /\ UNCHANGED <<bound, stageTimer>>
              [] c.chain = "adaptive" ->
                   FallsToLow(calls \ {c}) /\ UNCHANGED <<bound, stageTimer>>
              [] c.chain = "direct" ->
                   /\ calls' = (calls \ {c}) \cup {Call("last_embed")}
                   /\ UNCHANGED <<stage, state, bound, stageTimer>>
              [] OTHER ->   \* low: showYoutubeManualFallback, or the error alone
                   /\ Failed /\ calls' = calls \ {c}
                   /\ IF kind = "youtube" THEN Binds(c, "none") /\ stageTimer' = NoTimer
                      ELSE UNCHANGED <<bound, stageTimer>>

\* openOfficialOnlineEmbed: the address, then the frame.
Embeds == {"embed", "last_embed"}
Frames == {"frame", "last_frame"}
AnsweredEmbed(c) ==
    /\ c \in calls /\ c.chain \in Embeds
    /\ Same /\ Rests
    /\ IF Current(c.gen)
       THEN /\ Binds(c, "embed") /\ stageTimer' = NoTimer /\ state' = "loading"
            /\ calls' = (calls \ {c}) \cup {Call(IF c.chain = "embed" THEN "frame" ELSE "last_frame")}
       ELSE calls' = calls \ {c} /\ UNCHANGED <<bound, stageTimer, state>>
    /\ UNCHANGED stage
LoadedFrame(c) ==
    /\ c \in calls /\ c.chain \in Frames
    /\ calls' = calls \ {c}
    /\ state' = IF Current(c.gen) THEN "ready" ELSE state
    /\ UNCHANGED <<generation, stage, bound, stageTimer>> /\ Rests
\* A platform that refuses is followed by a direct stream, also for an older
\* request; the second refusal ends the preview.
RefusedEmbed(c) ==
    /\ c \in calls /\ c.chain \in Embeds \cup Frames
    /\ IF c.chain \in {"embed", "frame"}
       THEN calls' = (calls \ {c}) \cup {[c EXCEPT !.chain = "direct"]} /\ UNCHANGED state
       ELSE calls' = calls \ {c} /\ state' = IF Current(c.gen) THEN "error" ELSE state
    /\ UNCHANGED <<generation, stage, bound, stageTimer>> /\ Rests

\* The elements can play. startPreviewPlayback waits for picture and sound.
Starts(now) ==
    IF now.video /\ now.audio /\ ~now.started
    THEN bound' = [now EXCEPT !.started = TRUE] /\ state' = "ready" /\ stageTimer' = NoTimer
    ELSE bound' = now /\ UNCHANGED <<state, stageTimer>>
CanPlay ==
    /\ Current(bound.gen)
    /\ \/ /\ bound.media = "single" /\ ~bound.video /\ stage \in {"progressive", "low"}
          /\ bound' = [bound EXCEPT !.video = TRUE]
          /\ state' = "ready" /\ stageTimer' = NoTimer
       \/ bound.media = "dual" /\ ~bound.video /\ Starts([bound EXCEPT !.video = TRUE])
       \/ bound.media = "dual" /\ ~bound.audio /\ Starts([bound EXCEPT !.audio = TRUE])
    /\ UNCHANGED <<generation, stage, calls>> /\ Rests

\* The element that shows fails, whatever is asked for by now; the sound's
\* alone is given up without a change. What failed does not play any more.
MediaError ==
    /\ bound.media \in {"file", "single", "dual"}
    /\ Same /\ UNCHANGED <<stageTimer, request, kind, source, playlist>>
    /\ IF source = "preview"
       THEN /\ CASE stage = "progressive" -> FallsToAdaptive(calls)
                 [] stage = "adaptive"    -> FallsToLow(calls)
                 [] stage = "low"         -> Failed /\ UNCHANGED calls
                 [] OTHER                 -> state' = "error" /\ UNCHANGED <<stage, calls>>
            /\ UNCHANGED refresh
       ELSE /\ state' = "error" /\ UNCHANGED <<stage, calls>>
            /\ refresh' = IF source = "playlist" THEN "skip" ELSE refresh
    /\ bound' = [bound EXCEPT !.media = "none"]

\* The stage has not begun to play in ten or twelve seconds.
StageDue ==
    /\ stageTimer # NoTimer /\ stageTimer' = NoTimer
    /\ Same /\ Rests
    /\ IF ~Current(stageTimer.gen) \/ stage # stageTimer.stage
       THEN UNCHANGED <<stage, state, calls>>
       ELSE CASE stage = "progressive" -> FallsToAdaptive(calls)
              [] stage = "adaptive"    -> FallsToLow(calls)
              [] OTHER                 -> Failed /\ UNCHANGED calls
    /\ UNCHANGED bound

\* applyPreviewQuality: another stream of the same preview.
ChooseQuality ==
    /\ source = "preview" /\ state = "ready" /\ bound.media \in {"single", "dual"}
    /\ Rests /\ UNCHANGED calls
    /\ generation < MaxLoads /\ generation' = generation + 1
    /\ \/ Prepares(Call("direct"), "single", "progressive")
       \/ Prepares(Call("direct"), "dual", "adaptive")

----------------------------------------------------------------------------
Answer(c) == AnsweredJob(c) \/ AnsweredDirect(c) \/ RefusedDirect(c)
             \/ AnsweredEmbed(c) \/ LoadedFrame(c) \/ RefusedEmbed(c)
Answers == \E c \in calls : Answer(c)
User ==
    \/ AskJob \/ AskPlaylist \/ ChooseQuality
    \/ \E what \in {"youtube", "platform"} : AskPreview(what)
    \/ \E item \in Items : AskItem(item)
    \/ \E direction \in {-1, 1} : Advance(direction)
Media == Ended \/ CanPlay \/ MediaError

PlayerNext == User \/ Media \/ Answers \/ Listed \/ Poll \/ Skip \/ StageDue

\* Calls are answered or time out, and timers run out; media may stay silent.
PlayerSpec ==
    /\ PlayerInit /\ [][PlayerNext]_playerVars
    /\ WF_playerVars(Answers) /\ WF_playerVars(Listed) /\ WF_playerVars(StageDue)

TypeOK ==
    /\ request \in 0 .. MaxRequests /\ kind \in Kinds /\ generation \in 0 .. MaxLoads
    /\ source \in {"local", "preview", "playlist"}
    /\ state \in {"loading", "waiting", "ready", "error"} /\ stage \in Stages
    /\ calls \subseteq [for : 1 .. MaxRequests, gen : 1 .. MaxLoads, chain : Chains]
    /\ at \in Items \cup {0} /\ queue \subseteq Items /\ advancing \in 0 .. MaxLoads
    /\ refresh \in {"none", "poll", "skip"} /\ listing \in BOOLEAN
    /\ bound \in [for : 0 .. MaxRequests, gen : 0 .. MaxLoads,
                  media : {"none", "file", "single", "dual", "embed"},
                  video : BOOLEAN, audio : BOOLEAN, started : BOOLEAN]
    /\ stageTimer \in {NoTimer} \cup [gen : 1 .. MaxLoads, stage : Stages]

\* A window that says it plays holds the media of the last request, whatever
\* earlier ones still bring; a playlist excepted, which takes no generation.
ReadyIsAsked == state = "ready" => bound.for = request \/ source = "playlist"

\* A request does not load for ever: every kind of stream is tried in turn, each
\* under a timeout, until one plays or the window says that none does.
PlayerSettles == state = "loading" ~> state # "loading"
=============================================================================
