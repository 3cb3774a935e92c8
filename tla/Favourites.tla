----------------------------- MODULE Favourites -----------------------------
(***************************************************************************)
(* The song list page (frontend/src/pages/SonglistInput.tsx) with the      *)
(* "favourites" of QQ Music pushed to it: POST /songlist/favorite/         *)
(* subscribe and GET /stream/{id} (backend/app/api/stream.py), and the     *)
(* periodic task that refreshes the cache (backend/app/tasks/fav_cache.py).*)
(*                                                                         *)
(* The collection is the number of its last change.  Time is counted in    *)
(* push intervals (300 s): a Tick is the beat, and everything that is on   *)
(* its way ends between two of them.  nginx closes a stream that is silent *)
(* for an interval (proxy_read_timeout is 300 s as well).                  *)
(***************************************************************************)
EXTENDS Naturals, Sequences

CONSTANTS MaxChange,   \* bound: the last version of the collection
          Empty,       \* the versions that have no songs
          Ttl,         \* life of fav:cred and fav:cache in intervals: 2 in the code
          MaxLeaks     \* bound on the streams left open by pages that are gone

ASSUME FavAssumption == /\ MaxChange \in Nat \ {0} /\ Ttl \in Nat \ {0}
                        /\ MaxLeaks \in Nat
                        /\ Empty \subseteq 1..MaxChange

VARIABLES
    fav,      \* the version QQ Music has
    past,     \* the versions at the last two ticks (history)
    cred,     \* intervals left to fav:cred, 0: none
    cache,    \* fav:cache: version and intervals left, version 0: none
    beat,     \* refresh_fav_cache: "off", "due" or the version it has fetched
    faults,   \* intervals since a refresh failed, counted down (history)
    sub,      \* the subscription on its way: label, version, and whether its
              \* answer is to open a stream
    orphan,   \* one on its way that the page has left, or has given up
    page,     \* the component: mounted, hasQq, loading, loaded, songs, streaming
    es,       \* its EventSource: label, snapshot, events on their way, silent?
    starting, \* is POST /classify/start on its way?
    leaks,    \* open EventSources that no page owns
    rash      \* pages left while they subscribed (history)

vars == <<fav, past, cred, cache, beat, faults, sub, orphan, page, es, starting,
          leaks, rash>>
redis == <<cred, cache, beat, faults>>
gone == <<orphan, leaks, rash>>

Labels == {"none", "asked", "fetch", "again", "answered"}

Versions == 0..MaxChange
NoSub == [at |-> "none", v |-> 0, opens |-> FALSE]
NoStream == [at |-> "none", v |-> 0, inbox |-> <<>>, silent |-> FALSE]
NewPage == [mounted |-> TRUE, hasQq |-> "loading", loading |-> FALSE,
            loaded |-> FALSE, songs |-> 0, streaming |-> FALSE]
NoPage == [NewPage EXCEPT !.mounted = FALSE]
Error == MaxChange + 1     \* fav_update with an error instead of songs
Off == MaxChange + 2
Due == MaxChange + 3

TypeOK ==
    /\ fav \in Versions \ {0} /\ past \in Versions \X Versions
    /\ cred \in 0..Ttl
    /\ cache \in [v : Versions, left : 0..Ttl]
    /\ beat \in Versions \cup {Off, Due}
    /\ faults \in 0..2
    /\ {sub, orphan} \subseteq [at : Labels, v : Versions, opens : BOOLEAN]
    /\ page \in [mounted : BOOLEAN, hasQq : {"loading", "bound", "unbound"},
                 loading : BOOLEAN, loaded : BOOLEAN, songs : Versions,
                 streaming : BOOLEAN]
    /\ es \in [at : {"none", "connecting", "snapshot", "open"}, v : Versions,
               inbox : Seq(Versions \cup {Error}), silent : BOOLEAN]
    /\ starting \in BOOLEAN
    /\ leaks \in Nat /\ rash \in Nat
    /\ cache.v = 0 <=> cache.left = 0

Init ==
    /\ fav = 1 /\ past = <<0, 0>>
    /\ cred = 0 /\ cache = [v |-> 0, left |-> 0]
    /\ beat = Off /\ faults = 0
    /\ sub = NoSub /\ orphan = NoSub
    /\ page = NoPage /\ es = NoStream
    /\ starting = FALSE /\ leaks = 0 /\ rash = 0

-----------------------------------------------------------------------------
(* What the page shows.                                                     *)

HasSongs == page.songs # 0 /\ page.songs \notin Empty
HasQq == page.hasQq = "bound"

BindCard == page.mounted /\ page.hasQq = "unbound"
ShowSkeleton ==
    /\ page.mounted
    /\ \/ page.hasQq = "loading"
       \/ HasQq /\ page.loading /\ ~HasSongs
ShowEmpty == page.mounted /\ HasQq /\ page.loaded /\ ~HasSongs /\ ~page.loading
ShowList == page.mounted /\ HasSongs

-----------------------------------------------------------------------------
(* The page.                                                                *)

Visit ==
    /\ ~page.mounted
    /\ page' = NewPage
    /\ UNCHANGED <<fav, past, redis, sub, es, starting, gone>>

SubscribeFav(p) ==
    /\ page' = [p EXCEPT !.loading = TRUE, !.streaming = FALSE]
    /\ sub' = [at |-> "asked", v |-> 0, opens |-> TRUE]
    /\ es' = NoStream
    /\ UNCHANGED leaks

\* useQqStatus answers, or has an answer: the effect subscribes.
StatusBound ==
    /\ page.mounted /\ page.hasQq = "loading"
    /\ SubscribeFav([page EXCEPT !.hasQq = "bound"])
    /\ UNCHANGED <<fav, past, redis, starting, orphan, rash>>

StatusUnbound ==
    /\ page.mounted /\ page.hasQq = "loading"
    /\ page' = [page EXCEPT !.hasQq = "unbound"]
    /\ UNCHANGED <<fav, past, redis, sub, es, starting, gone>>

Refresh ==
    /\ ShowList /\ HasQq /\ ~page.loading
    /\ SubscribeFav(page)
    /\ UNCHANGED <<fav, past, redis, starting, orphan, rash>>

SubscribeAnswered ==
    /\ sub.at = "answered"
    /\ sub' = NoSub
    /\ page' = [page EXCEPT !.songs = sub.v, !.loaded = TRUE, !.loading = FALSE]
    /\ es' = [NoStream EXCEPT !.at = "connecting"]
    /\ UNCHANGED <<fav, past, redis, starting, gone>>

\* 400, 502 or the network: a toast, whatever the server has done by then; when the
\* network is to blame the server goes on.  Bound: one that is given up at a time.
SubscribeFails ==
    /\ sub.at # "none"
    /\ sub' = NoSub
    /\ page' = [page EXCEPT !.loading = FALSE]
    /\ \/ UNCHANGED orphan
       \/ orphan = NoSub /\ orphan' = [sub EXCEPT !.opens = FALSE]
    /\ UNCHANGED <<fav, past, redis, es, starting, leaks, rash>>

OnUpdate ==
    /\ es.at = "open" /\ es.inbox # <<>>
    /\ es' = [es EXCEPT !.inbox = Tail(@), !.silent = FALSE]
    /\ page' = IF Head(es.inbox) = Error THEN page
               ELSE [page EXCEPT !.songs = Head(es.inbox)]
    /\ UNCHANGED <<fav, past, redis, sub, starting, gone>>

\* Fault: the badge stays.
OnErrorKeepsBadge ==
    /\ es.at # "none"
    /\ es' = NoStream
    /\ UNCHANGED <<fav, past, redis, sub, page, starting, gone>>

\* Refused, broken or cut: closed for good, the user may press "refresh".
OnError ==
    /\ es.at # "none"
    /\ es' = NoStream
    /\ page' = [page EXCEPT !.streaming = FALSE]
    /\ UNCHANGED <<fav, past, redis, sub, starting, gone>>

StartClassify ==
    /\ ShowList /\ ~page.loading
    /\ starting' = TRUE
    /\ page' = [page EXCEPT !.loading = TRUE]
    /\ UNCHANGED <<fav, past, redis, sub, es, gone>>

StartFails ==
    /\ starting
    /\ starting' = FALSE
    /\ page' = [page EXCEPT !.loading = FALSE]
    /\ UNCHANGED <<fav, past, redis, sub, es, gone>>

\* Fault: leaving does not close the stream.
LeaveOpen ==
    /\ page.mounted /\ orphan = NoSub
    /\ page' = NoPage /\ es' = NoStream /\ starting' = FALSE
    /\ orphan' = sub
    /\ sub' = NoSub
    /\ rash' = IF sub.at # "none" THEN rash + 1 ELSE rash
    /\ leaks' = IF es.at = "none" THEN leaks ELSE leaks + 1
    /\ UNCHANGED <<fav, past, redis>>

\* To a thread that was started, or by a link: the cleanup closes the stream; a
\* subscription on its way is not taken back, and the server goes on with it.  Bound:
\* one of them at a time.
Leave ==
    /\ page.mounted /\ orphan = NoSub
    /\ sub.at # "none" => rash < MaxLeaks
    /\ page' = NoPage /\ es' = NoStream /\ starting' = FALSE
    /\ orphan' = sub
    /\ sub' = NoSub
    /\ rash' = IF sub.at # "none" THEN rash + 1 ELSE rash
    /\ UNCHANGED <<fav, past, redis, leaks>>

\* It fails, or its answer is lost, or opens an EventSource that no cleanup will see.
OrphanEnds ==
    /\ orphan.at # "none"
    /\ orphan' = NoSub
    /\ \/ UNCHANGED leaks
       \/ orphan.at = "answered" /\ orphan.opens /\ leaks' = leaks + 1
    /\ UNCHANGED <<fav, past, redis, sub, page, es, starting, rash>>

-----------------------------------------------------------------------------
(* POST /songlist/favorite/subscribe: from the subscription s to t.         *)

Fresh(v) == [v |-> v, left |-> Ttl]

\* The credential is kept for the beat; a cached list is the answer.
Subscribe(s, t) ==
    /\ s.at = "asked"
    /\ cred' = Ttl
    /\ t = IF cache.v # 0 THEN [s EXCEPT !.at = "answered", !.v = cache.v]
           ELSE [s EXCEPT !.at = "fetch"]
    /\ UNCHANGED cache

Fetch(s, t) ==
    /\ s.at \in {"fetch", "again"} /\ s.v = 0
    /\ t = [s EXCEPT !.v = fav]
    /\ UNCHANGED <<cred, cache>>

\* NetworkError is retried once; after that the subscription fails.
FetchAgain(s, t) ==
    /\ s.at = "fetch" /\ s.v = 0
    /\ t = [s EXCEPT !.at = "again"]
    /\ UNCHANGED <<cred, cache>>

Fetched(s, t) ==
    /\ s.at \in {"fetch", "again"} /\ s.v # 0
    /\ cache' = Fresh(s.v)
    /\ t = [s EXCEPT !.at = "answered"]
    /\ UNCHANGED cred

Serves(s, t) == Subscribe(s, t) \/ Fetch(s, t) \/ FetchAgain(s, t) \/ Fetched(s, t)

\* Whether somebody waits for the answer or not.
Serve ==
    /\ \/ Serves(sub, sub') /\ UNCHANGED orphan
       \/ Serves(orphan, orphan') /\ UNCHANGED sub
    /\ UNCHANGED <<fav, past, beat, faults, page, es, starting, leaks, rash>>

-----------------------------------------------------------------------------
(* GET /stream/{stream_id}: the headers go out (onopen), then the cache is    *)
(* sent, then the channel is listened to.                                   *)

StreamReads ==
    /\ es.at = "connecting"
    /\ es' = [es EXCEPT !.at = "snapshot", !.v = cache.v]
    /\ page' = [page EXCEPT !.streaming = TRUE]
    /\ UNCHANGED <<fav, past, redis, sub, starting, gone>>

StreamListens ==
    /\ es.at = "snapshot"
    /\ es' = [es EXCEPT !.at = "open", !.v = 0,
                        !.inbox = IF es.v = 0 THEN <<>> ELSE <<es.v>>]
    /\ UNCHANGED <<fav, past, redis, sub, page, starting, gone>>

-----------------------------------------------------------------------------
(* refresh_fav_cache.                                                       *)

Publish(m) == es' = IF es.at = "open" THEN [es EXCEPT !.inbox = Append(@, m)] ELSE es

BeatFetches ==
    /\ beat = Due
    /\ beat' = fav
    /\ UNCHANGED <<fav, past, cred, cache, faults, sub, page, es, starting, gone>>

\* Fault: the cache is refreshed, the pages are not told.
BeatStoresQuietly ==
    /\ beat \in Versions
    /\ cache' = Fresh(beat) /\ beat' = Off
    /\ UNCHANGED <<fav, past, cred, faults, sub, page, es, starting, gone>>

BeatStores ==
    /\ beat \in Versions
    /\ cache' = Fresh(beat) /\ beat' = Off
    /\ Publish(beat)
    /\ UNCHANGED <<fav, past, cred, faults, sub, page, starting, gone>>

BeatFails ==
    /\ beat = Due
    /\ beat' = Off /\ faults' = 2
    /\ Publish(Error)
    /\ UNCHANGED <<fav, past, cred, cache, sub, page, starting, gone>>

-----------------------------------------------------------------------------
(* Time.                                                                    *)

Change ==
    /\ fav < MaxChange
    /\ fav' = fav + 1
    /\ UNCHANGED <<past, redis, sub, page, es, starting, gone>>

Quiet == /\ beat = Off /\ sub = NoSub /\ orphan = NoSub /\ ~starting
         /\ es.at \in {"none", "open"} /\ es.inbox = <<>>

\* An interval has passed: everything on its way has ended, a stream that was silent
\* all along has been cut; then the beat fires and the keys grow older.
Tick ==
    /\ Quiet
    /\ es.at = "open" => ~es.silent
    /\ past' = <<fav, past[1]>>
    /\ es' = [es EXCEPT !.silent = es.at = "open"]
    /\ beat' = IF cred > 0 THEN Due ELSE Off
    /\ cred' = IF cred > 0 THEN cred - 1 ELSE 0
    /\ cache' = IF cache.left > 1 THEN [cache EXCEPT !.left = @ - 1]
                ELSE [v |-> 0, left |-> 0]
    /\ faults' = IF faults > 0 THEN faults - 1 ELSE 0
    /\ UNCHANGED <<fav, sub, page, starting, gone>>

Next ==
    \/ Visit \/ StatusBound \/ StatusUnbound \/ Refresh \/ SubscribeAnswered
    \/ SubscribeFails \/ OnUpdate \/ OnError \/ StartClassify \/ StartFails \/ Leave
    \/ OrphanEnds \/ Serve
    \/ StreamReads \/ StreamListens \/ BeatFetches \/ BeatStores \/ BeatFails
    \/ Change \/ Tick

Spec == Init /\ [][Next]_vars

-----------------------------------------------------------------------------
(* Properties.                                                              *)

\* While the page says that it is in sync, it shows the collection as it was two
\* refreshes ago or later.  The keys that feed the stream live two intervals and
\* no refresh renews them: what keeps the badge true is that the proxy cuts the
\* stream that has fallen silent.  Refreshes that failed are excepted.
BadgeIsTrue ==
    page.streaming /\ Quiet /\ faults = 0 => page.songs >= past[2]

\* The badge is shown over an open stream of this page only, although streams
\* are opened and closed by answers that come in any order.
BadgeHasStream ==
    page.streaming => page.mounted /\ es.at \in {"snapshot", "open"}

\* A stream outlives its page only if the page was left while it subscribed.
LeaksOnlyByLeaving == leaks <= rash

=============================================================================
