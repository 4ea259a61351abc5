----------------------------- MODULE Thumbnails -----------------------------
(***************************************************************************)
(* The thumbnails of the list (app-ui/download-manager/thumbnails.js):     *)
(* images that appear and disappear as rows are drawn subscribe to the     *)
(* entry of their source; a few entries are loaded at a time, each by the  *)
(* first image that still is in the page; a failure is remembered for a    *)
(* while and sends the images to another source; old entries are evicted.  *)
(***************************************************************************)
EXTENDS Naturals, Sequences, FiniteSets

CONSTANTS
    Images,     \* img elements, in the order they appear
    Pictures,   \* normalised sources, numbers from 1
    Local,      \* the ones that are not remote
    Slots,      \* MAX_CONCURRENT_THUMBNAILS
    CacheSize   \* MAX_THUMBNAIL_CACHE_ENTRIES

VARIABLES
    places,     \* the place of each key in the cache, the least recently used first; 0: not in it
    entries,    \* the entry of each key of the cache
    loadQueue, activeLoads,
    images

thumbVars == <<places, entries, loadQueue, activeLoads, images>>

ThumbConstants ==
    /\ IsFiniteSet(Pictures) /\ Pictures \subseteq Nat \ {0} /\ Local \subseteq Pictures
    /\ Slots \in Nat \ {0} /\ CacheSize \in Nat \ {0}

Entry == [state : {"pending", "loaded", "failed", "expired"}, fallbackUrl : {0} \cup Pictures,
          queued : BOOLEAN, loading : BOOLEAN, subscribers : SUBSET Images]
Image ==
    {image \in [connected : BOOLEAN, source : {0} \cup Pictures, fallback : {0} \cup Pictures,
                key : {0} \cup Pictures, shown : {"new", "observed", "pending", "loaded", "failed"}] :
        image.connected => image.source # 0}

Fresh(fallback) == [state |-> "pending", fallbackUrl |-> fallback, queued |-> FALSE,
                    loading |-> FALSE, subscribers |-> {}]

ThumbInit ==
    /\ places = [k \in Pictures |-> 0] /\ entries = [k \in Pictures |-> Fresh(0)]
    /\ loadQueue = <<>> /\ activeLoads = 0
    /\ images = [i \in Images |-> [connected |-> FALSE, source |-> 0, fallback |-> 0,
                                   key |-> 0, shown |-> "new"]]

\* The functions of the module call one another, so they are functions of all of its state.
State == [places |-> places, entries |-> entries, queue |-> loadQueue,
          active |-> activeLoads, images |-> images]
Becomes(next) == \E s \in {next} :
    /\ places' = s.places /\ entries' = s.entries /\ loadQueue' = s.queue
    /\ activeLoads' = s.active /\ images' = s.images

\* The result of a step at a state, which TLC computes once.
Once(results) == CHOOSE result \in results : TRUE

Cached(s, k) == s.places[k] # 0
Here(s, told) == {i \in told : s.images[i].connected}

\* The cache in order, closed up where a key has left it.
CloseUp(at) ==
    [k \in Pictures |-> IF at[k] = 0 THEN 0
                        ELSE Cardinality({j \in Pictures : at[j] # 0 /\ at[j] <= at[k]})]
Last(s) == Cardinality({j \in Pictures : Cached(s, j)}) + 1
TouchAgain(s, k) == [s EXCEPT !.places = [@ EXCEPT ![k] = Last(s)]]
Touch(s, k) == [s EXCEPT !.places = CloseUp([@ EXCEPT ![k] = Last(s)])]

\* applyThumbnailLoaded and markThumbnailFailed: of the images still in the page.
Show(s, told, k, shown) ==
    [s EXCEPT !.images = [i \in Images |->
        IF i \in Here(s, told) /\ (shown = "loaded" => s.images[i].key = k)
        THEN [s.images[i] EXCEPT !.shown = shown] ELSE s.images[i]]]

\* pumpThumbnailQueue: the first turn of a key that still waits for an image loads it,
\* if one of them is in the page; turns are taken until the slots are full.
Waits(s, k) ==
    /\ Cached(s, k) /\ s.entries[k].state = "pending" /\ ~s.entries[k].loading
    /\ s.entries[k].subscribers # {}
Turns(s) == {n \in 1 .. Len(s.queue) :
                Waits(s, s.queue[n]) /\ \A m \in 1 .. n - 1 : s.queue[m] # s.queue[n]}
Starts(s) == {n \in Turns(s) : Here(s, s.entries[s.queue[n]].subscribers) # {}}
Taken(s) == {n \in 1 .. Len(s.queue) :
                Cardinality({m \in Starts(s) : m < n}) + s.active < Slots}
Pumped(s) ==
    LET turns  == {s.queue[n] : n \in Turns(s) \cap Taken(s)}
        starts == {s.queue[n] : n \in Starts(s) \cap Taken(s)}
    IN [s EXCEPT !.queue = SubSeq(@, Cardinality(Taken(s)) + 1, Len(@)),
                 !.active = @ + Cardinality(starts),
                 !.entries = [k \in Pictures |->
                    IF k \in turns
                    THEN [s.entries[k] EXCEPT !.queued = FALSE, !.loading = k \in starts,
                                              !.subscribers = Here(s, s.entries[k].subscribers)]
                    ELSE s.entries[k]]]
Pump(s) == Once({Pumped(t) : t \in {s}})

\* The entry of a source, made anew when it is not cached or its failure is old.
Looked(s, k, fallback) ==
    LET e == s.entries[k]
    IN Touch([s EXCEPT !.entries[k] =
                IF ~Cached(s, k) \/ e.state = "expired" THEN Fresh(fallback)
                ELSE IF e.fallbackUrl = 0 THEN [e EXCEPT !.fallbackUrl = fallback] ELSE e], k)

\* subscribeThumbnailImage for images in the page that want one source: what they ask
\* for, what they are given when it is known, and the queue they join when it is not.
Asked(s, told, k, fallback) ==
    LET asked == [s EXCEPT !.images = [i \in Images |->
                    IF i \in told THEN [s.images[i] EXCEPT !.key = k, !.shown = "pending"]
                    ELSE s.images[i]]]
    IN IF k \in Local THEN asked ELSE Looked(asked, k, fallback)
Joined(s, told, k) ==
    [s EXCEPT !.entries[k].subscribers = @ \cup told,
              !.entries[k].queued = @ \/ ~s.entries[k].loading,
              !.queue = IF s.entries[k].queued \/ s.entries[k].loading THEN @ ELSE Append(@, k)]
Served(s, told, k) ==
    IF k \in Local THEN Show(s, told, k, "loaded")
    ELSE IF s.entries[k].state \in {"loaded", "failed"} THEN Show(s, told, k, s.entries[k].state)
    ELSE Pump(Joined(s, told, k))

\* The last attempt of images, one after the other, and the first attempt of one.
SubscribeLast(s, told, k) ==
    IF Here(s, told) = {} THEN s
    ELSE Once({Served(asked, Here(s, told), k) : asked \in {Asked(s, Here(s, told), k, 0)}})
SubscribeFirst(asked, i, k) ==
    LET e == asked.entries[k]
    IN  IF k \notin Local /\ e.state = "failed" /\ e.fallbackUrl # 0
        THEN SubscribeLast(asked, {i}, e.fallbackUrl)
        ELSE Served(asked, {i}, k)
Subscribe(s, i, k, fallback) ==
    IF ~s.images[i].connected THEN s
    ELSE Once({SubscribeFirst(asked, i, k) :
                 asked \in {Asked(s, {i}, k, IF fallback # k THEN fallback ELSE 0)}})

\* evictThumbnailCache: what is pending stays.
EvictAny(s) ==
    LET gone == {k \in Pictures : Cached(s, k) /\ s.places[k] + CacheSize < Last(s)}
    IN [s EXCEPT !.places = CloseUp([k \in Pictures |-> IF k \in gone THEN 0 ELSE @[k]])]
Evicted(s) ==
    LET old    == {k \in Pictures : Cached(s, k) /\ s.entries[k].state # "pending"}
        before(k) == Cardinality({j \in old : s.places[j] < s.places[k]})
        gone   == {k \in old : before(k) + CacheSize + 1 < Last(s)}
    IN [s EXCEPT !.places = CloseUp([k \in Pictures |-> IF k \in gone THEN 0 ELSE @[k]])]
Evict(s) == Once({Evicted(t) : t \in {s}})

\* settleThumbnailEntry.
Ended(s, k, state) ==
    Touch([s EXCEPT !.entries[k] = [Fresh(s.entries[k].fallbackUrl) EXCEPT !.state = state],
                    !.active = IF @ > 0 THEN @ - 1 ELSE 0], k)
Told(s, told, k, state) ==
    IF state = "failed" /\ s.entries[k].fallbackUrl # 0
    THEN SubscribeLast(s, told, s.entries[k].fallbackUrl)
    ELSE Show(s, told, k, state)
Settle(s, k, state) ==
    Pump(Evict(Once({Told(ended, s.entries[k].subscribers, k, state) :
                       ended \in {Ended(s, k, state)}})))

----------------------------------------------------------------------------
Enqueue(s, i) == Subscribe(s, i, s.images[i].source, s.images[i].fallback)

\* bindDownloadManagerThumbnailFallbacks, for an image that was just drawn: it is
\* eager or in view, or it is observed until it is.
Appear(i) ==
    /\ images[i].shown = "new" /\ ~images[i].connected
    /\ \A j \in Images : j < i => images[j].shown # "new"
    /\ \E source \in Pictures, fallback \in {0} \cup Pictures, eager \in BOOLEAN :
        /\ fallback # source
        /\ LET drawn == [State EXCEPT !.images[i] =
                            [connected |-> TRUE, source |-> source, fallback |-> fallback,
                             key |-> 0, shown |-> "observed"]]
           IN Becomes(Evict(IF eager THEN Enqueue(drawn, i) ELSE drawn))

\* The observer's callback.
Intersect(i) ==
    /\ images[i].connected /\ images[i].shown = "observed"
    /\ Becomes(Enqueue(State, i))

\* The list is drawn again, without the image.
Disconnect(i) ==
    /\ images[i].connected
    /\ images' = [images EXCEPT ![i].connected = FALSE]
    /\ UNCHANGED <<places, entries, loadQueue, activeLoads>>

\* onload and onerror of the image that loads the entry.
Finish(k) ==
    /\ places[k] # 0 /\ entries[k].loading
    /\ \E state \in {"loaded", "failed"} : Becomes(Settle(State, k, state))

\* onerror of an image with a local source: the original, if there is another one.
LocalFails(i) ==
    /\ images[i].connected /\ images[i].shown = "loaded" /\ images[i].key \in Local
    /\ Becomes(IF images[i].key = images[i].source /\ images[i].fallback # 0
               THEN SubscribeLast(State, {i}, images[i].fallback)
               ELSE Show(State, {i}, images[i].key, "failed"))

\* THUMBNAIL_FAILURE_TTL_MS have passed.
Expire(k) ==
    /\ places[k] # 0 /\ entries[k].state = "failed"
    /\ entries' = [entries EXCEPT ![k].state = "expired"]
    /\ UNCHANGED <<places, loadQueue, activeLoads, images>>

Page  == \E i \in Images : Appear(i) \/ Intersect(i) \/ Disconnect(i) \/ LocalFails(i)
Clock == \E k \in Pictures : Expire(k)
Loads == \E k \in Pictures : Finish(k)

ThumbNext == Page \/ Clock \/ Loads

\* The browser answers every load; nothing else has to happen.
ThumbSpec == ThumbInit /\ [][ThumbNext]_thumbVars /\ \A k \in Pictures : WF_thumbVars(Finish(k))

\* Every variable has its type, and each place of the cache is one key's.
ThumbTypes ==
    /\ places \in [Pictures -> 0 .. Cardinality(Pictures)]
    /\ \A j, k \in Pictures : places[j] = places[k] /\ places[k] # 0 => j = k
    /\ entries \in [Pictures -> Entry] /\ images \in [Images -> Image]
    /\ loadQueue \in Seq(Pictures) /\ activeLoads \in Nat

\* The slots in use are the entries being loaded, and no more than there are.
SlotsAreCounted ==
    /\ activeLoads = Cardinality({k \in Pictures : places[k] # 0 /\ entries[k].loading})
    /\ activeLoads <= Slots

\* An image in the page that waits for its source is loaded, or said to have failed.
ImagesSettle == \A i \in Images :
    (images[i].connected /\ images[i].shown = "pending")
        ~> (images[i].shown # "pending" \/ ~images[i].connected)
=============================================================================
