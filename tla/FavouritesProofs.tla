--------------------------- MODULE FavouritesProofs ---------------------------
(***************************************************************************)
(* Proofs about Favourites for every number of changes of the collection,  *)
(* every life of the keys and every number of pages left; the truth of the *)
(* badge, the last part, for keys that live two intervals at most.         *)
(***************************************************************************)
EXTENDS Favourites, SequenceTheorems, TLAPS

\* An EventSource, and a subscription on its way, belong to a page on the screen.
StreamHasPage == es.at # "none" => page.mounted

\* While a page subscribes it has neither a stream nor the badge: its last stream was
\* closed by the press on "refresh".
SubscribingIsBare ==
    /\ sub.at # "none" => page.mounted /\ es.at = "none" /\ ~page.streaming
    /\ sub.opens => sub.at # "none"

\* What is left open, and what still may be, was left rashly.
LeaksCounted == leaks <= rash /\ (orphan.opens => leaks < rash)

\* The task has fetched a version that exists.
BeatHasVersion == beat # 0

Pages == [mounted : BOOLEAN, hasQq : {"loading", "bound", "unbound"},
          loading : BOOLEAN, loaded : BOOLEAN, songs : Versions, streaming : BOOLEAN]
Subs == [at : Labels, v : Versions, opens : BOOLEAN]
Events == Seq(Versions \cup {Error})
Streams == [at : {"none", "connecting", "snapshot", "open"}, v : Versions,
            inbox : Events, silent : BOOLEAN]
Caches == [v : Versions, left : 0..Ttl]

\* Invariant parts about the page, its stream and its subscription.
PageInv ==
    /\ sub \in Subs /\ page \in Pages /\ es \in Streams
    /\ BadgeHasStream /\ StreamHasPage /\ SubscribingIsBare

\* Parts about what is in Redis, and the history.
RedisInv ==
    /\ fav \in Versions \ {0} /\ past \in Versions \X Versions
    /\ cred \in 0..Ttl
    /\ cache \in Caches /\ (cache.v = 0 <=> cache.left = 0)
    /\ beat \in Versions \cup {Off, Due} /\ BeatHasVersion
    /\ faults \in 0..2

\* Parts about what has been left.
LeftInv ==
    /\ orphan \in Subs /\ starting \in BOOLEAN
    /\ leaks \in Nat /\ rash \in Nat
    /\ LeaksCounted

\* The inductive invariant.
FavInv == PageInv /\ RedisInv /\ LeftInv

LEMMA InvTypes == FavInv => TypeOK
    BY DEF FavInv, TypeOK, PageInv, RedisInv, LeftInv, Pages, Subs, Events, Streams, Caches

LEMMA Bounds ==
    /\ 0 \in Versions /\ 1 \in Versions
    /\ Off \notin Versions /\ Due \notin Versions /\ Due # Off /\ Due # 0 /\ Off # 0
    /\ 0 \in 0..Ttl /\ Ttl \in 0..Ttl /\ Ttl # 0
    BY FavAssumption DEF Versions, Off, Due

LEMMA NoStreamType == NoStream \in Streams /\ NoStream.at = "none"
    BY Bounds DEF NoStream, Streams, Events

LEMMA NoSubType == NoSub \in Subs /\ NoSub.at = "none" /\ ~NoSub.opens
    BY Bounds DEF NoSub, Subs, Labels

LEMMA NewPageType ==
    /\ NewPage \in Pages /\ NewPage.mounted = TRUE /\ NewPage.streaming = FALSE
    /\ NoPage \in Pages /\ NoPage.mounted = FALSE /\ NoPage.streaming = FALSE
    BY Bounds DEF NewPage, NoPage, Pages

-----------------------------------------------------------------------------
LEMMA InitHolds == Init => FavInv
<1>. SUFFICES ASSUME Init PROVE PageInv /\ RedisInv /\ LeftInv
    BY DEF FavInv
<1>1. PageInv
    BY NoSubType, NoStreamType, NewPageType
       DEF Init, PageInv, BadgeHasStream, StreamHasPage, SubscribingIsBare
<1>2. RedisInv
    BY Bounds DEF Init, RedisInv, Caches, BeatHasVersion
<1>3. LeftInv
  <2>1. leaks \in Nat /\ rash \in Nat /\ leaks <= rash
    <3>1. leaks = 0 /\ rash = 0
        BY DEF Init
    <3>. QED
        BY <3>1
  <2>2. orphan \in Subs /\ ~orphan.opens /\ starting \in BOOLEAN
      BY NoSubType, Zenon DEF Init
  <2>. QED
      BY <2>1, <2>2, Zenon DEF LeftInv, LeaksCounted
<1>. QED
    BY <1>1, <1>2, <1>3

\* What the user and the answers do to the page.
PageStep ==
    \/ Visit \/ StatusBound \/ StatusUnbound \/ Refresh \/ SubscribeAnswered
    \/ SubscribeFails \/ OnUpdate \/ OnError \/ StartClassify \/ StartFails
    \/ StreamReads \/ StreamListens

LEMMA PageKeepsInv == FavInv /\ PageStep => FavInv'
<1>. SUFFICES ASSUME PageInv, RedisInv, LeftInv, PageStep
              PROVE  PageInv' /\ RedisInv' /\ LeftInv'
    BY DEF FavInv
<1>0. sub \in Subs /\ page \in Pages /\ es \in Streams
    BY DEF PageInv
<1>1. UNCHANGED <<fav, past, redis, leaks, rash>> /\ starting' \in BOOLEAN
    BY DEF PageStep, Visit, StatusBound, StatusUnbound, Refresh, SubscribeAnswered,
           SubscribeFails, OnUpdate, OnError, StartClassify, StartFails, StreamReads,
           StreamListens, SubscribeFav, gone, LeftInv
<1>2. RedisInv' /\ LeftInv'
  <2>1. orphan' = orphan \/ orphan' = [sub EXCEPT !.opens = FALSE]
      BY DEF PageStep, Visit, StatusBound, StatusUnbound, Refresh, SubscribeAnswered,
             SubscribeFails, OnUpdate, OnError, StartClassify, StartFails, StreamReads,
             StreamListens, SubscribeFav, gone
  <2>2. orphan' \in Subs /\ (orphan' = orphan \/ ~orphan'.opens)
      BY <1>0, <2>1 DEF LeftInv, Subs
  <2>. QED
      BY <1>1, <2>2 DEF redis, RedisInv, LeftInv, LeaksCounted, BeatHasVersion
<1>3. ASSUME Visit PROVE PageInv'
    BY <1>3, NewPageType DEF Visit, PageInv, BadgeHasStream, StreamHasPage, SubscribingIsBare
<1>4. ASSUME NEW p \in Pages, p.mounted, SubscribeFav(p) PROVE PageInv'
  <2>1. /\ page' \in Pages /\ page'.mounted = p.mounted /\ page'.streaming = FALSE
      BY <1>4 DEF SubscribeFav, Pages
  <2>2. sub' \in Subs /\ sub'.at = "asked" /\ es' = NoStream
      BY <1>4, Bounds DEF SubscribeFav, Subs, Labels
  <2>. QED
      BY <1>4, <2>1, <2>2, NoStreamType
         DEF PageInv, BadgeHasStream, StreamHasPage, SubscribingIsBare
<1>5. ASSUME StatusBound \/ Refresh PROVE PageInv'
  <2>1. PICK p \in Pages : p.mounted = page.mounted /\ SubscribeFav(p)
    <3>1. CASE StatusBound
      <4>1. [page EXCEPT !.hasQq = "bound"] \in Pages
            /\ [page EXCEPT !.hasQq = "bound"].mounted = page.mounted
          BY <1>0 DEF Pages
      <4>. QED
          BY <3>1, <4>1 DEF StatusBound
    <3>2. CASE Refresh
        BY <1>0, <3>2 DEF Refresh
    <3>. QED
        BY <1>5, <3>1, <3>2
  <2>2. page.mounted
      BY <1>5 DEF StatusBound, Refresh, ShowList
  <2>. QED
      BY <1>4, <2>1, <2>2
<1>6. ASSUME StatusUnbound \/ StartClassify \/ StartFails PROVE PageInv'
  <2>1. /\ page' \in Pages /\ page'.mounted = page.mounted
        /\ page'.streaming = page.streaming
        /\ sub' = sub /\ es' = es
      BY <1>0, <1>6 DEF StatusUnbound, StartClassify, StartFails, Pages
  <2>. QED
      BY <2>1
         DEF PageInv, BadgeHasStream, StreamHasPage, SubscribingIsBare
<1>7. ASSUME SubscribeAnswered \/ SubscribeFails PROVE PageInv'
  <2>1. /\ page' \in Pages /\ page'.mounted = page.mounted
        /\ page'.streaming = page.streaming
        /\ sub' = NoSub
      BY <1>0, <1>7 DEF SubscribeAnswered, SubscribeFails, Pages, Subs
  <2>2. sub' \in Subs /\ sub'.at = "none" /\ ~sub'.opens
      BY <2>1, NoSubType
  <2>3. es' \in Streams /\ (es' = es \/ es'.at = "connecting")
      BY <1>0, <1>7, NoStreamType DEF SubscribeAnswered, SubscribeFails, Streams
  <2>4. page.mounted /\ ~page.streaming
      BY <1>7 DEF SubscribeAnswered, SubscribeFails, PageInv, SubscribingIsBare
  <2>. QED
      BY <2>1, <2>2, <2>3, <2>4
         DEF PageInv, BadgeHasStream, StreamHasPage, SubscribingIsBare
<1>8. ASSUME OnUpdate PROVE PageInv'
  <2>1. es.at = "open" /\ es.inbox # <<>> /\ es.inbox \in Seq(Versions \cup {Error})
        /\ sub' = sub
      BY <1>0, <1>8 DEF OnUpdate, Streams, Events
  <2>2. /\ Tail(es.inbox) \in Seq(Versions \cup {Error})
        /\ Head(es.inbox) \in Versions \cup {Error}
      BY <2>1, HeadTailProperties
  <2>3. es' \in Streams /\ es'.at = "open"
      BY <1>0, <1>8, <2>1, <2>2 DEF OnUpdate, Streams, Events
  <2>4. /\ page' \in Pages /\ page'.mounted = page.mounted
        /\ page'.streaming = page.streaming
      BY <1>0, <1>8, <2>2 DEF OnUpdate, Pages
  <2>. QED
      BY <2>1, <2>3, <2>4
         DEF PageInv, BadgeHasStream, StreamHasPage, SubscribingIsBare
<1>9. ASSUME OnError PROVE PageInv'
  <2>1. /\ page' \in Pages /\ page'.mounted = page.mounted
        /\ page'.streaming = FALSE /\ sub' = sub /\ es' = NoStream
      BY <1>0, <1>9 DEF OnError, Pages
  <2>. QED
      BY <2>1, NoStreamType
         DEF PageInv, BadgeHasStream, StreamHasPage, SubscribingIsBare
<1>10. ASSUME StreamReads PROVE PageInv'
  <2>1. es' \in Streams /\ es'.at = "snapshot" /\ es.at = "connecting"
      BY <1>0, <1>10 DEF StreamReads, Streams, RedisInv, Caches
  <2>2. page' \in Pages /\ page'.mounted = page.mounted /\ sub' = sub
      BY <1>0, <1>10 DEF StreamReads, Pages
  <2>. QED
      BY <2>1, <2>2
         DEF PageInv, BadgeHasStream, StreamHasPage, SubscribingIsBare
<1>11. ASSUME StreamListens PROVE PageInv'
  <2>1. (IF es.v = 0 THEN <<>> ELSE <<es.v>>) \in Events
    <3>1. es.v \in Versions \cup {Error}
        BY <1>0 DEF Streams
    <3>2. <<es.v>> \in Seq(Versions \cup {Error}) /\ <<>> \in Seq(Versions \cup {Error})
        BY <3>1
    <3>. QED
        BY <3>2 DEF Events
  <2>2. es' \in Streams /\ es'.at = "open" /\ es.at = "snapshot"
      BY <1>0, <1>11, <2>1, Bounds DEF StreamListens, Streams
  <2>3. page' = page /\ sub' = sub
      BY <1>0, <1>11 DEF StreamListens
  <2>. QED
      BY <2>2, <2>3
         DEF PageInv, BadgeHasStream, StreamHasPage, SubscribingIsBare
<1>. QED
    BY <1>2, <1>3, <1>5, <1>6, <1>7, <1>8, <1>9, <1>10, <1>11 DEF PageStep

LEMMA LeaveKeepsInv == FavInv /\ (Leave \/ OrphanEnds) => FavInv'
<1>. SUFFICES ASSUME PageInv, RedisInv, LeftInv, Leave \/ OrphanEnds
              PROVE  PageInv' /\ RedisInv' /\ LeftInv'
    BY DEF FavInv
<1>1. UNCHANGED <<fav, past, redis>>
    BY DEF Leave, OrphanEnds
<1>2. RedisInv'
    BY <1>1 DEF redis, RedisInv, BeatHasVersion
<1>3. PageInv'
  <2>1. CASE Leave
    <3>1. page' = NoPage /\ es' = NoStream /\ sub' = NoSub
        BY <2>1 DEF Leave
    <3>. QED
        BY <3>1, NoSubType, NoStreamType, NewPageType
           DEF PageInv, BadgeHasStream, StreamHasPage, SubscribingIsBare
  <2>2. CASE OrphanEnds
      BY <2>2 DEF OrphanEnds, PageInv, BadgeHasStream, StreamHasPage, SubscribingIsBare
  <2>. QED
      BY <2>1, <2>2
<1>4. leaks \in Nat /\ rash \in Nat /\ leaks <= rash /\ starting \in BOOLEAN
      /\ (orphan.opens => leaks < rash)
    BY Zenon DEF LeftInv, LeaksCounted
<1>5. ASSUME Leave PROVE LeftInv'
  <2>1. /\ leaks' = leaks /\ starting' = FALSE /\ orphan' = sub
        /\ rash' = IF sub.at # "none" THEN rash + 1 ELSE rash
      BY <1>5 DEF Leave
  <2>2. leaks' \in Nat /\ rash' \in Nat /\ leaks' <= rash'
        /\ (sub.at # "none" => leaks' < rash')
      BY <1>4, <2>1
  <2>3. orphan' \in Subs /\ (orphan'.opens => sub.at # "none")
      BY <2>1, Zenon DEF PageInv, SubscribingIsBare
  <2>. QED
      BY <2>1, <2>2, <2>3, Zenon DEF LeftInv, LeaksCounted
<1>6. ASSUME OrphanEnds PROVE LeftInv'
  <2>1. /\ leaks' = leaks \/ (orphan.opens /\ leaks' = leaks + 1)
        /\ rash' = rash /\ orphan' = NoSub /\ starting' = starting
      BY <1>6, Zenon DEF OrphanEnds
  <2>2. leaks' \in Nat /\ rash' \in Nat /\ leaks' <= rash'
      BY <1>4, <2>1
  <2>. QED
      BY <1>4, <2>1, <2>2, NoSubType, Zenon DEF LeftInv, LeaksCounted
<1>. QED
    BY <1>2, <1>3, <1>5, <1>6

\* A step of the server on a subscription.
LEMMA ServesType ==
    ASSUME RedisInv, NEW s \in Subs, NEW t, Serves(s, t)
    PROVE  /\ t \in Subs /\ t.opens = s.opens /\ s.at # "none"
           /\ t.at \in {"fetch", "again", "answered"}
           /\ cred' \in {cred, Ttl}
           /\ cache' = cache \/ (s.v \in Versions \ {0} /\ cache' = Fresh(s.v))
<1>1. fav \in Versions /\ cache.v \in Versions
    BY DEF RedisInv, Caches
<1>. QED
    BY <1>1 DEF Serves, Subscribe, Fetch, FetchAgain, Fetched, Subs, Labels

\* What the server, the beat and the clock do to Redis and to the stream.
ServerStep ==
    Serve \/ BeatFetches \/ BeatStores \/ BeatFails \/ Change \/ Tick

LEMMA ServerKeepsInv == FavInv /\ ServerStep => FavInv'
<1>. SUFFICES ASSUME PageInv, RedisInv, LeftInv, ServerStep
              PROVE  PageInv' /\ RedisInv' /\ LeftInv'
    BY DEF FavInv
<1>1. UNCHANGED <<page, starting, leaks, rash>>
    BY DEF ServerStep, Serve, BeatFetches, BeatStores, BeatFails, Change, Tick, gone
<1>0. sub \in Subs /\ orphan \in Subs
    BY DEF PageInv, LeftInv
<1>2. LeftInv'
  <2>1. orphan' \in Subs /\ orphan'.opens = orphan.opens
    <3>1. CASE Serve
        BY <1>0, <3>1, ServesType DEF Serve
    <3>2. CASE ~Serve
        BY <1>0, <3>2
        DEF ServerStep, BeatFetches, BeatStores, BeatFails, Change, Tick, gone
    <3>. QED
        BY <3>1, <3>2
  <2>. QED
      BY <1>1, <2>1 DEF LeftInv, LeaksCounted
<1>3. sub' \in Subs /\ (sub'.at # "none" => sub.at # "none")
      /\ (sub'.opens => sub'.at # "none")
  <2>0. sub.opens => sub.at # "none"
      BY DEF PageInv, SubscribingIsBare
  <2>1. CASE Serve
    <3>1. CASE Serves(sub, sub')
        BY <1>0, <3>1, ServesType
    <3>2. CASE sub' = sub
        BY <1>0, <2>0, <3>2
    <3>. QED
        BY <2>1, <3>1, <3>2 DEF Serve
  <2>2. CASE ~Serve
      BY <1>0, <2>0, <2>2
      DEF ServerStep, BeatFetches, BeatStores, BeatFails, Change, Tick
  <2>. QED
      BY <2>1, <2>2
<1>4. es' \in Streams /\ es'.at = es.at
  <2>1. ASSUME NEW m \in Versions \cup {Error}, Publish(m) PROVE es' \in Streams /\ es'.at = es.at
    <3>1. es.inbox \in Seq(Versions \cup {Error})
        BY DEF PageInv, Streams, Events
    <3>2. Append(es.inbox, m) \in Events
        BY <3>1, AppendProperties DEF Events
    <3>. QED
        BY <2>1, <3>2 DEF Publish, PageInv, Streams
  <2>2. CASE Tick
      BY <2>2 DEF Tick, PageInv, Streams
  <2>3. CASE BeatStores \/ BeatFails
      BY <2>1, <2>3 DEF BeatStores, BeatFails
  <2>4. CASE Serve \/ BeatFetches \/ Change
      BY <2>4 DEF Serve, BeatFetches, Change, PageInv
  <2>. QED
      BY <2>2, <2>3, <2>4 DEF ServerStep
<1>5. PageInv'
    BY <1>1, <1>3, <1>4 DEF PageInv, BadgeHasStream, StreamHasPage, SubscribingIsBare
<1>6. RedisInv'
  <2>. USE DEF RedisInv, BeatHasVersion
  <2>1. ASSUME NEW v \in Versions \ {0} PROVE Fresh(v) \in Caches /\ Fresh(v).v # 0 /\ Fresh(v).left # 0
      BY Bounds DEF Fresh, Caches
  <2>2. CASE Serve
    <3>1. /\ UNCHANGED <<fav, past, beat, faults>>
          /\ cred' \in {cred, Ttl}
          /\ cache' = cache \/ \E v \in Versions \ {0} : cache' = Fresh(v)
        BY <1>0, <2>2, ServesType DEF Serve
    <3>. QED
        BY <2>1, <3>1, Bounds
  <2>5. CASE BeatFetches
      BY <2>5 DEF BeatFetches
  <2>6. CASE BeatStores
      BY <2>1, <2>6, Bounds DEF BeatStores
  <2>7. CASE BeatFails
      BY <2>7, Bounds DEF BeatFails
  <2>8. CASE Change
      BY <2>8, FavAssumption DEF Change, redis, Versions
  <2>9. CASE Tick
    <3>1. cache' \in Caches /\ (cache'.v = 0 <=> cache'.left = 0)
        BY <2>9, FavAssumption, Bounds DEF Tick, Caches
    <3>2. cred' \in 0..Ttl /\ faults' \in 0..2
        BY <2>9, FavAssumption DEF Tick
    <3>3. past' \in Versions \X Versions /\ fav' = fav
        BY <2>9 DEF Tick
    <3>4. beat' \in {Off, Due}
        BY <2>9 DEF Tick
    <3>. QED
        BY <3>1, <3>2, <3>3, <3>4, Bounds
  <2>. QED
      BY <2>2, <2>5, <2>6, <2>7, <2>8, <2>9 DEF ServerStep
<1>. QED
    BY <1>2, <1>5, <1>6

-----------------------------------------------------------------------------
\* The inductive invariant holds in every state: what the page owns, what Redis keeps
\* and what was left behind are consistent.
THEOREM FavInvAlways == Spec => []FavInv
<1>1. FavInv /\ [Next]_vars => FavInv'
  <2>1. FavInv /\ Next => FavInv'
      BY PageKeepsInv, LeaveKeepsInv, ServerKeepsInv DEF Next, PageStep, ServerStep
  <2>2. FavInv /\ UNCHANGED vars => FavInv'
      BY DEF vars, redis, gone, FavInv, PageInv, RedisInv, LeftInv, BadgeHasStream,
             StreamHasPage, SubscribingIsBare, LeaksCounted, BeatHasVersion
  <2>. QED
      BY <2>1, <2>2
<1>. QED
    BY InitHolds, <1>1, PTL DEF Spec

\* The badge is shown over an open stream of a page on the screen only, in whatever
\* order subscriptions, streams and errors are answered.
THEOREM BadgeAlwaysHasStream == Spec => []BadgeHasStream
<1>1. FavInv => BadgeHasStream
    BY DEF FavInv, PageInv
<1>. QED
    BY <1>1, FavInvAlways, PTL

\* There are never more streams without a page than pages that were left while they
\* subscribed: every other way of leaving closes what it opened.
THEOREM LeaksAlwaysCounted == Spec => []LeaksOnlyByLeaving
<1>1. FavInv => LeaksOnlyByLeaving
    BY DEF FavInv, LeftInv, LeaksCounted, LeaksOnlyByLeaving
<1>. QED
    BY <1>1, FavInvAlways, PTL

-----------------------------------------------------------------------------
(* The badge tells the truth (BadgeIsTrue).  Numbers are compared with past: *)
(* past[1] is what a refresh of this interval has at least, past[2] what one *)
(* of the interval before had.  It needs keys that live at most two          *)
(* intervals, as they do in the code: fav:cache could otherwise be older.    *)

Ordered == past[2] <= past[1] /\ past[1] <= fav

BeatIsFresh == beat \in Versions => beat >= past[1]

CacheIsFresh ==
    cache.v # 0 => cache.v >= past[2] /\ (cache.left = Ttl => cache.v >= past[1])

\* A subscription has just renewed fav:cred.
FreshSub(s) ==
    /\ s.at = "asked" => s.v = 0
    /\ s.at \in {"fetch", "again"} /\ s.v # 0 => s.v >= past[1]
    /\ s.at = "answered" => s.v >= past[2]
    /\ s.at \in {"fetch", "again", "answered"} => cred = Ttl

SubIsFresh == FreshSub(sub) /\ FreshSub(orphan)

\* So has the one a new stream belongs to.
StreamIsFresh ==
    /\ es.at \in {"connecting", "snapshot"} => cred = Ttl /\ page.songs >= past[2]
    /\ es.at = "snapshot" /\ es.v # 0 => es.v >= past[2]

FreshEvent(e) ==
    /\ e = Error => faults = 2
    /\ e # Error => e >= past[2] /\ (e >= past[1] \/ cred = Ttl)

InboxIsFresh == \A i \in DOMAIN es.inbox : FreshEvent(es.inbox[i])

\* A stream that has not been silent has brought this interval's version, an error, or
\* the answer to a subscription of this interval.
Heard ==
    es.at = "open" /\ ~es.silent => page.songs >= past[1] \/ faults = 2 \/ cred = Ttl

\* An open stream shows a version that is new enough, or there is one to come, or a
\* refresh has failed.
WillHear ==
    es.at = "open" =>
        \/ page.songs >= past[2] \/ faults > 0 \/ beat # Off
        \/ \E i \in DOMAIN es.inbox : es.inbox[i] # Error

StoresFresh == Ordered /\ BeatIsFresh /\ CacheIsFresh /\ SubIsFresh
StreamsFresh == StreamIsFresh /\ InboxIsFresh /\ Heard /\ WillHear

\* Invariant on top of FavInv.
SyncInv == StoresFresh /\ StreamsFresh

LEMMA Numbers ==
    ASSUME FavInv
    PROVE  /\ fav \in Nat /\ fav \in Versions /\ past[1] \in Nat /\ past[2] \in Nat
           /\ cred \in 0..Ttl /\ cache.v \in Nat /\ cache.left \in 0..Ttl
           /\ sub.v \in Nat /\ es.v \in Nat /\ page.songs \in Nat
           /\ es.inbox \in Seq(Versions \cup {Error}) /\ es.silent \in BOOLEAN
           /\ beat \in Versions \cup {Off, Due} /\ faults \in 0..2
           /\ Versions \subseteq Nat /\ Error \in Nat /\ Error \notin Versions
           /\ Off \notin Versions /\ Due \notin Versions /\ Due # Off
           /\ Ttl \in Nat /\ Ttl # 0
<1>1. /\ Versions \subseteq Nat /\ Error \in Nat /\ Error \notin Versions
      /\ Ttl \in Nat /\ Ttl # 0
    BY FavAssumption DEF Versions, Error
<1>. QED
    BY <1>1, Bounds
    DEF FavInv, PageInv, RedisInv, Subs, Pages, Streams, Events, Caches

\* A stream that was closed, or does not exist, has nothing to keep.
LEMMA NoStreamFresh ==
    ASSUME es'.at = "none", es'.inbox = <<>>
    PROVE  StreamsFresh'
    BY DEF StreamsFresh, StreamIsFresh, InboxIsFresh, Heard, WillHear

LEMMA NoStreamFields ==
    /\ NoStream.at = "none" /\ NoStream.inbox = <<>> /\ NoStream.v = 0
    /\ NoStream.silent = FALSE
    BY DEF NoStream

\* What does not concern the stream does not disturb it.
LEMMA StreamsUndisturbed ==
    ASSUME SyncInv, UNCHANGED <<past, faults, es>>, page'.songs = page.songs,
           cred' \in {cred, Ttl}, beat' = beat \/ beat' # Off
    PROVE  StreamsFresh'
<1>1. StreamIsFresh'
    BY DEF SyncInv, StreamsFresh, StreamIsFresh
<1>2. InboxIsFresh'
    BY DEF SyncInv, StreamsFresh, InboxIsFresh, FreshEvent
<1>3. Heard' /\ WillHear'
    BY DEF SyncInv, StreamsFresh, Heard, WillHear
<1>. QED
    BY <1>1, <1>2, <1>3 DEF StreamsFresh

-----------------------------------------------------------------------------
LEMMA PageKeepsSync ==
    ASSUME FavInv, FavInv', SyncInv, PageStep
    PROVE  SyncInv'
<1>1. UNCHANGED <<fav, past, cred, cache, beat, faults>>
    BY DEF PageStep, Visit, StatusBound, StatusUnbound, Refresh, SubscribeAnswered,
           SubscribeFails, OnUpdate, OnError, StartClassify, StartFails, StreamReads,
           StreamListens, redis
<1>2. sub' = sub \/ (sub'.at \in {"none", "asked"} /\ sub'.v = 0)
    BY DEF PageStep, Visit, StatusBound, StatusUnbound, Refresh, SubscribeAnswered,
           SubscribeFails, OnUpdate, OnError, StartClassify, StartFails, StreamReads,
           StreamListens, SubscribeFav, NoSub
<1>4. sub \in Subs /\ page \in Pages /\ es \in Streams
    BY DEF FavInv, PageInv
<1>3. StoresFresh'
  <2>1. orphan' = orphan \/ orphan' = [sub EXCEPT !.opens = FALSE]
      BY DEF PageStep, Visit, StatusBound, StatusUnbound, Refresh, SubscribeAnswered,
             SubscribeFails, OnUpdate, OnError, StartClassify, StartFails, StreamReads,
             StreamListens, SubscribeFav, gone
  <2>2. \/ orphan' = orphan
        \/ orphan'.at = sub.at /\ orphan'.v = sub.v
      BY <1>4, <2>1 DEF Subs
  <2>3. SubIsFresh'
      BY <1>1, <1>2, <2>2 DEF SyncInv, StoresFresh, SubIsFresh, FreshSub
  <2>. QED
      BY <1>1, <2>3 DEF SyncInv, StoresFresh, Ordered, BeatIsFresh, CacheIsFresh
<1>5. CASE StatusBound \/ Refresh \/ OnError
  <2>1. es' = NoStream
      BY <1>5 DEF StatusBound, Refresh, OnError, SubscribeFav
  <2>. QED
      BY <1>3, <2>1, NoStreamFields, NoStreamFresh DEF SyncInv
<1>6. CASE Visit
  <2>1. es' = es /\ es.at = "none"
      BY <1>6 DEF Visit, FavInv, PageInv, StreamHasPage
  <2>2. InboxIsFresh'
      BY <1>1, <2>1 DEF SyncInv, StreamsFresh, InboxIsFresh, FreshEvent
  <2>3. StreamsFresh'
      BY <2>1, <2>2 DEF StreamsFresh, StreamIsFresh, Heard, WillHear
  <2>. QED
      BY <1>3, <2>3 DEF SyncInv
<1>7. CASE StatusUnbound \/ SubscribeFails \/ StartClassify \/ StartFails
  <2>1. es' = es /\ page'.songs = page.songs
      BY <1>4, <1>7
      DEF StatusUnbound, SubscribeFails, StartClassify, StartFails, Pages
  <2>. QED
      BY <1>1, <1>3, <2>1, StreamsUndisturbed DEF SyncInv
<1>8. CASE SubscribeAnswered
  <2>1. /\ page'.songs = sub.v /\ es' = [NoStream EXCEPT !.at = "connecting"]
        /\ sub.at = "answered"
      BY <1>4, <1>8 DEF SubscribeAnswered, Pages
  <2>2. es'.at = "connecting" /\ es'.inbox = <<>>
      BY <2>1 DEF NoStream
  <2>3. cred = Ttl /\ sub.v >= past[2]
      BY <2>1 DEF SyncInv, StoresFresh, SubIsFresh, FreshSub
  <2>4. StreamsFresh'
      BY <1>1, <2>1, <2>2, <2>3
      DEF StreamsFresh, StreamIsFresh, InboxIsFresh, Heard, WillHear
  <2>. QED
      BY <1>3, <2>4 DEF SyncInv
<1>9. CASE StreamReads
  <2>1. /\ es' = [es EXCEPT !.at = "snapshot", !.v = cache.v] /\ es.at = "connecting"
        /\ page'.songs = page.songs
      BY <1>4, <1>9 DEF StreamReads, Pages
  <2>2. es'.at = "snapshot" /\ es'.v = cache.v /\ es'.inbox = es.inbox
      BY <1>4, <2>1 DEF Streams
  <2>3. StreamIsFresh'
      BY <1>1, <2>1, <2>2
      DEF SyncInv, StoresFresh, StreamsFresh, CacheIsFresh, StreamIsFresh
  <2>4. InboxIsFresh'
      BY <1>1, <2>2 DEF SyncInv, StreamsFresh, InboxIsFresh, FreshEvent
  <2>5. StreamsFresh'
      BY <2>2, <2>3, <2>4 DEF StreamsFresh, Heard, WillHear
  <2>. QED
      BY <1>3, <2>5 DEF SyncInv
<1>10. CASE StreamListens
  <2>1. /\ es.at = "snapshot" /\ page' = page /\ es'.at = "open" /\ es'.v = 0
        /\ es'.inbox = IF es.v = 0 THEN <<>> ELSE <<es.v>>
      BY <1>4, <1>10 DEF StreamListens, Streams
  <2>2. cred = Ttl /\ page.songs >= past[2] /\ (es.v # 0 => es.v >= past[2])
      BY <2>1 DEF SyncInv, StreamsFresh, StreamIsFresh
  <2>3. es.v # 0 => FreshEvent(es.v)
      BY <1>4, <2>2, Numbers DEF FreshEvent, Streams
  <2>4. InboxIsFresh'
    <3>1. ASSUME NEW i \in DOMAIN es'.inbox
          PROVE  es'.inbox[i] = es.v /\ es.v # 0
        BY <2>1, <3>1
    <3>2. \A e : FreshEvent(e) => FreshEvent(e)'
        BY <1>1 DEF FreshEvent
    <3>. QED
        BY <2>3, <3>1, <3>2 DEF InboxIsFresh
  <2>5. StreamsFresh'
      BY <1>1, <2>1, <2>2, <2>4 DEF StreamsFresh, StreamIsFresh, Heard, WillHear
  <2>. QED
      BY <1>3, <2>5 DEF SyncInv
<1>11. CASE OnUpdate
  <2>. DEFINE e == Head(es.inbox)
  <2>1. es.at = "open" /\ es.inbox # <<>> /\ es.inbox \in Seq(Versions \cup {Error})
      BY <1>11, Numbers DEF OnUpdate
  <2>2. /\ es.inbox[1] = e /\ 1 \in DOMAIN es.inbox /\ e \in Versions \cup {Error}
        /\ \A i \in DOMAIN Tail(es.inbox) :
              i + 1 \in DOMAIN es.inbox /\ Tail(es.inbox)[i] = es.inbox[i + 1]
        /\ \A i \in DOMAIN es.inbox :
              i # 1 => i - 1 \in DOMAIN Tail(es.inbox)
                       /\ Tail(es.inbox)[i - 1] = es.inbox[i]
      BY <2>1
  <2>3. es'.at = "open" /\ es'.inbox = Tail(es.inbox)
      BY <1>4, <1>11, <2>1 DEF OnUpdate, Streams
  <2>4. page'.songs = IF e = Error THEN page.songs ELSE e
      BY <1>4, <1>11 DEF OnUpdate, Pages
  <2>5. FreshEvent(e)
      BY <2>2 DEF SyncInv, StreamsFresh, InboxIsFresh
  <2>6. StreamIsFresh'
      BY <2>3 DEF StreamIsFresh
  <2>7. InboxIsFresh'
      BY <1>1, <2>2, <2>3 DEF SyncInv, StreamsFresh, InboxIsFresh, FreshEvent
  <2>. HIDE DEF e
  <2>8. Heard'
      BY <1>1, <2>4, <2>5 DEF Heard, FreshEvent
  <2>9. WillHear'
    <3>1. CASE e # Error
        BY <1>1, <2>4, <2>5, <3>1 DEF WillHear, FreshEvent
    <3>2. CASE e = Error
        BY <1>1, <2>3, <2>4, <2>5, <3>2 DEF WillHear, FreshEvent
    <3>. QED
        BY <3>1, <3>2
  <2>. QED
      BY <1>3, <2>6, <2>7, <2>8, <2>9 DEF SyncInv, StreamsFresh
<1>. QED
    BY <1>5, <1>6, <1>7, <1>8, <1>9, <1>10, <1>11 DEF PageStep

LEMMA LeaveKeepsSync ==
    ASSUME SyncInv, Leave \/ OrphanEnds
    PROVE  SyncInv'
<1>1. UNCHANGED <<fav, past, cred, cache, beat, faults>>
    BY DEF Leave, OrphanEnds, redis
<1>2. (sub' = sub \/ sub'.at = "none") /\ (orphan' = sub \/ orphan'.at = "none")
    BY DEF Leave, OrphanEnds, NoSub
<1>3. StoresFresh'
    BY <1>1, <1>2
    DEF SyncInv, StoresFresh, Ordered, BeatIsFresh, CacheIsFresh, SubIsFresh, FreshSub
<1>4. CASE Leave
    BY <1>3, <1>4, NoStreamFields, NoStreamFresh DEF Leave, SyncInv
<1>5. CASE OrphanEnds
    BY <1>1, <1>3, <1>5, StreamsUndisturbed DEF OrphanEnds, SyncInv
<1>. QED
    BY <1>4, <1>5

-----------------------------------------------------------------------------
LEMMA FreshFields ==
    ASSUME NEW v \in Versions
    PROVE  Fresh(v).v = v /\ Fresh(v).left = Ttl
    BY DEF Fresh

\* What is published reaches an open stream.
LEMMA PublishFresh ==
    ASSUME FavInv, SyncInv, NEW m \in Versions \cup {Error}, Publish(m),
           UNCHANGED <<past, page, cred>>, faults' = faults \/ faults' = 2,
           m = Error => faults' = 2, m # Error => m >= past[1] /\ past[1] >= past[2]
    PROVE  StreamsFresh'
<1>0. es \in Streams
    BY DEF FavInv, PageInv
<1>1. CASE es.at # "open"
  <2>1. es' = es
      BY <1>1 DEF Publish
  <2>2. InboxIsFresh'
      BY <2>1 DEF SyncInv, StreamsFresh, InboxIsFresh, FreshEvent
  <2>. QED
      BY <1>1, <2>1, <2>2 DEF SyncInv, StreamsFresh, StreamIsFresh, Heard, WillHear
<1>2. CASE es.at = "open"
  <2>1. es.inbox \in Seq(Versions \cup {Error})
      BY Numbers
  <2>2. /\ es'.at = "open" /\ es'.silent = es.silent
        /\ es'.inbox = Append(es.inbox, m)
      BY <1>0, <1>2 DEF Publish, Streams
  <2>3. /\ DOMAIN es'.inbox = DOMAIN es.inbox \cup {Len(es.inbox) + 1}
        /\ es'.inbox[Len(es.inbox) + 1] = m
        /\ \A i \in DOMAIN es.inbox : es'.inbox[i] = es.inbox[i]
      BY <2>1, <2>2
  <2>4. InboxIsFresh'
    <3>1. FreshEvent(m)'
      <4>1. m \in Nat /\ past[1] \in Nat /\ past[2] \in Nat
          BY Numbers
      <4>. QED
          BY <4>1 DEF FreshEvent
    <3>2. \A e : FreshEvent(e) => FreshEvent(e)'
        BY DEF FreshEvent
    <3>3. \A i \in DOMAIN es.inbox : FreshEvent(es.inbox[i])
        BY DEF SyncInv, StreamsFresh, InboxIsFresh
    <3>. QED
        BY <2>3, <3>1, <3>2, <3>3 DEF InboxIsFresh
  <2>5. Heard'
      BY <1>2, <2>2 DEF SyncInv, StreamsFresh, Heard
  <2>6. WillHear'
    <3>1. CASE m = Error
      <4>1. faults' > 0
          BY <3>1
      <4>. QED
          BY <4>1 DEF WillHear
    <3>2. CASE m # Error
        BY <2>3, <3>2 DEF WillHear
    <3>. QED
        BY <3>1, <3>2
  <2>. QED
      BY <2>2, <2>4, <2>5, <2>6 DEF StreamsFresh, StreamIsFresh
<1>. QED
    BY <1>1, <1>2

\* Whatever a subscription does, it brings this interval's version, and renews fav:cred.
LEMMA ServesFresh ==
    ASSUME FavInv, SyncInv, NEW s \in Subs, FreshSub(s), NEW t, Serves(s, t),
           UNCHANGED <<past, fav>>
    PROVE  FreshSub(t)' /\ CacheIsFresh' /\ cred' \in {cred, Ttl}
<1>0. Ordered /\ CacheIsFresh
    BY DEF SyncInv, StoresFresh
<1>1. CASE Subscribe(s, t)
  <2>1. cred' = Ttl /\ cache' = cache
        /\ \/ t.at = "answered" /\ t.v = cache.v /\ cache.v # 0
           \/ t.at = "fetch" /\ t.v = s.v /\ s.at = "asked"
      BY <1>1 DEF Subscribe, Subs
  <2>2. s.at = "asked" => s.v = 0
      BY DEF FreshSub
  <2>. QED
      BY <1>0, <2>1, <2>2 DEF FreshSub, CacheIsFresh
<1>2. CASE Fetch(s, t) \/ FetchAgain(s, t)
  <2>1. /\ s.at \in {"fetch", "again"} /\ t.at \in {"fetch", "again"}
        /\ t.v \in {0, fav} /\ cred' = cred /\ cache' = cache
      BY <1>2 DEF Fetch, FetchAgain, Subs
  <2>. QED
      BY <1>0, <2>1 DEF FreshSub, CacheIsFresh, Ordered
<1>3. CASE Fetched(s, t)
  <2>1. /\ s.at \in {"fetch", "again"} /\ s.v # 0 /\ s.v \in Versions
        /\ t.at = "answered" /\ t.v = s.v /\ cred' = cred
        /\ cache'.v = s.v
      BY <1>3, FreshFields DEF Fetched, Subs
  <2>2. s.v >= past[1] /\ cred = Ttl /\ s.v \in Nat
      BY <2>1, Numbers DEF FreshSub
  <2>3. s.v >= past[2]
      BY <1>0, <2>2, Numbers DEF Ordered
  <2>. QED
      BY <2>1, <2>2, <2>3 DEF FreshSub, CacheIsFresh
<1>. QED
    BY <1>1, <1>2, <1>3 DEF Serves

LEMMA ServerKeepsSync ==
    ASSUME FavInv, FavInv', SyncInv,
           Serve \/ BeatFetches \/ BeatStores \/ BeatFails \/ Change
    PROVE  SyncInv'
<1>0. /\ sub \in Subs /\ orphan \in Subs
      /\ Ordered /\ BeatIsFresh /\ CacheIsFresh /\ SubIsFresh
    BY DEF FavInv, PageInv, LeftInv, SyncInv, StoresFresh
<1>1. CASE Serve
  <2>1. UNCHANGED <<fav, past, beat, faults, page, es>>
      BY <1>1 DEF Serve
  <2>2. ASSUME NEW s \in Subs, FreshSub(s), NEW o \in Subs, FreshSub(o),
               NEW t, Serves(s, t)
        PROVE  /\ FreshSub(t)' /\ CacheIsFresh' /\ cred' \in {cred, Ttl}
               /\ FreshSub(o)'
    <3>1. FreshSub(t)' /\ CacheIsFresh' /\ cred' \in {cred, Ttl}
        BY <2>1, <2>2, ServesFresh
    <3>. QED
        BY <2>1, <2>2, <3>1 DEF FreshSub
  <2>3. SubIsFresh' /\ CacheIsFresh' /\ cred' \in {cred, Ttl}
    <3>1. CASE Serves(sub, sub') /\ UNCHANGED orphan
      <4>1. FreshSub(sub)' /\ FreshSub(orphan)' /\ CacheIsFresh' /\ cred' \in {cred, Ttl}
          BY <1>0, <2>1, <2>2, <3>1 DEF SubIsFresh, FreshSub
      <4>. QED
          BY <4>1 DEF SubIsFresh
    <3>2. CASE Serves(orphan, orphan') /\ UNCHANGED sub
      <4>1. FreshSub(sub)' /\ FreshSub(orphan)' /\ CacheIsFresh' /\ cred' \in {cred, Ttl}
          BY <1>0, <2>1, <2>2, <3>2 DEF SubIsFresh, FreshSub
      <4>. QED
          BY <4>1 DEF SubIsFresh
    <3>. QED
        BY <1>1, <3>1, <3>2 DEF Serve
  <2>4. StoresFresh'
      BY <1>0, <2>1, <2>3 DEF StoresFresh, Ordered, BeatIsFresh
  <2>. QED
      BY <2>1, <2>3, <2>4, StreamsUndisturbed DEF SyncInv
<1>4. CASE BeatFetches
  <2>1. UNCHANGED <<fav, past, cred, cache, faults, sub, orphan, page, es>>
        /\ beat' = fav
      BY <1>4 DEF BeatFetches, gone
  <2>2. beat' # Off /\ fav >= past[1]
      BY <1>0, <2>1, Numbers DEF Ordered
  <2>3. StoresFresh'
      BY <1>0, <2>1, <2>2
      DEF StoresFresh, Ordered, BeatIsFresh, CacheIsFresh, SubIsFresh,
         FreshSub
  <2>. QED
      BY <2>1, <2>2, <2>3, StreamsUndisturbed DEF SyncInv
<1>5. CASE BeatStores
  <2>1. /\ UNCHANGED <<fav, past, cred, faults, sub, orphan, page>> /\ beat' = Off
        /\ Publish(beat) /\ beat \in Versions /\ cache'.v = beat
      BY <1>5, FreshFields DEF BeatStores, gone
  <2>2. beat >= past[1] /\ past[1] >= past[2] /\ beat >= past[2] /\ beat # Error
      BY <1>0, <2>1, Numbers DEF BeatIsFresh, Ordered
  <2>3. StoresFresh'
      BY <1>0, <2>1, <2>2, Numbers
      DEF StoresFresh, Ordered, BeatIsFresh, CacheIsFresh, SubIsFresh,
         FreshSub
  <2>4. StreamsFresh'
      BY <2>1, <2>2, PublishFresh
  <2>. QED
      BY <2>3, <2>4 DEF SyncInv
<1>6. CASE BeatFails
  <2>1. /\ UNCHANGED <<fav, past, cred, cache, sub, orphan, page>> /\ beat' = Off
        /\ faults' = 2 /\ Publish(Error)
      BY <1>6 DEF BeatFails, gone
  <2>2. StoresFresh'
      BY <1>0, <2>1, Numbers
      DEF StoresFresh, Ordered, BeatIsFresh, CacheIsFresh, SubIsFresh,
         FreshSub
  <2>3. StreamsFresh'
      BY <2>1, PublishFresh
  <2>. QED
      BY <2>2, <2>3 DEF SyncInv
<1>7. CASE Change
  <2>1. /\ UNCHANGED <<past, cred, cache, beat, faults, sub, orphan, page, es>>
        /\ fav' = fav + 1
      BY <1>7 DEF Change, redis, gone
  <2>2. StoresFresh'
      BY <1>0, <2>1, Numbers
      DEF StoresFresh, Ordered, BeatIsFresh, CacheIsFresh, SubIsFresh,
         FreshSub
  <2>. QED
      BY <2>1, <2>2, StreamsUndisturbed DEF SyncInv
<1>. QED
    BY <1>1, <1>4, <1>5, <1>6, <1>7

\* An interval passes: what was this interval's is now the last one's.  A stream that
\* was silent is gone, so every open one has heard something, and hears again while
\* fav:cred lives.
LEMMA TickKeepsSync ==
    ASSUME Ttl <= 2, FavInv, FavInv', SyncInv, Tick
    PROVE  SyncInv'
<1>1. /\ beat = Off /\ sub = NoSub /\ orphan = NoSub /\ es.at \in {"none", "open"} /\ es.inbox = <<>>
      /\ (es.at = "open" => ~es.silent)
      /\ UNCHANGED <<fav, sub, orphan, page>>
      /\ beat' = (IF cred > 0 THEN Due ELSE Off)
      /\ faults' = IF faults > 0 THEN faults - 1 ELSE 0
    BY DEF Tick, Quiet, gone
<1>2. past'[1] = fav /\ past'[2] = past[1]
    BY DEF Tick
<1>3. Ordered' /\ BeatIsFresh'
    BY <1>1, <1>2, Numbers DEF SyncInv, StoresFresh, Ordered, BeatIsFresh
<1>4. CacheIsFresh'
  <2>1. CASE cache.left > 1
    <3>1. cache' = [cache EXCEPT !.left = @ - 1] /\ cache \in Caches
        BY <2>1 DEF Tick, FavInv, RedisInv
    <3>2. cache'.v = cache.v /\ cache'.left = cache.left - 1
        BY <3>1 DEF Caches
    <3>3. cache.left = 2 /\ Ttl = 2
        BY <2>1, Numbers
    <3>4. cache.v # 0 => cache.v >= past[1]
        BY <3>3 DEF SyncInv, StoresFresh, CacheIsFresh
    <3>. QED
        BY <1>2, <3>2, <3>3, <3>4 DEF CacheIsFresh
  <2>2. CASE ~(cache.left > 1)
    <3>1. cache'.v = 0
        BY <2>2 DEF Tick
    <3>. QED
        BY <3>1 DEF CacheIsFresh
  <2>. QED
      BY <2>1, <2>2
<1>5. SubIsFresh'
    BY <1>1 DEF SubIsFresh, FreshSub, NoSub
<1>6. es'.at = es.at /\ es'.inbox = <<>> /\ (es.at = "open" => es'.silent)
  <2>1. es' = [es EXCEPT !.silent = es.at = "open"] /\ es \in Streams
      BY DEF Tick, FavInv, PageInv
  <2>. QED
      BY <1>1, <2>1 DEF Streams
<1>7. StreamIsFresh' /\ InboxIsFresh' /\ Heard'
    BY <1>1, <1>6 DEF StreamIsFresh, InboxIsFresh, Heard
<1>8. WillHear'
  <2>1. SUFFICES ASSUME es.at = "open", ~(cred > 0)
                 PROVE  page.songs >= past[1] \/ faults' > 0
      BY <1>1, <1>2, <1>6, Numbers DEF WillHear
  <2>2. cred # Ttl
      BY <2>1, Numbers
  <2>3. page.songs >= past[1] \/ faults = 2
      BY <1>1, <2>1, <2>2 DEF SyncInv, StreamsFresh, Heard
  <2>. QED
      BY <1>1, <2>3
<1>. QED
    BY <1>3, <1>4, <1>5, <1>7, <1>8 DEF SyncInv, StoresFresh, StreamsFresh

LEMMA SyncInit == Init => SyncInv
<1>. SUFFICES ASSUME Init PROVE SyncInv
    OBVIOUS
<1>1. /\ fav = 1 /\ past[1] = 0 /\ past[2] = 0 /\ cache.v = 0 /\ beat = Off
      /\ sub.at = "none" /\ orphan.at = "none" /\ es.at = "none" /\ es.inbox = <<>>
    BY DEF Init, NoSub, NoStream
<1>2. StoresFresh
    BY <1>1, Bounds
    DEF StoresFresh, Ordered, BeatIsFresh, CacheIsFresh, SubIsFresh, FreshSub
<1>3. StreamsFresh
    BY <1>1 DEF StreamsFresh, StreamIsFresh, InboxIsFresh, Heard, WillHear
<1>. QED
    BY <1>2, <1>3 DEF SyncInv

\* The badge "in sync" shows the collection as it was two refreshes ago or later, for
\* any number of changes, as long as the keys live at most two intervals (the ttl in
\* tasks/fav_cache.py and api/stream.py), and not if refreshes failed.
THEOREM BadgeAlwaysTrue ==
    ASSUME Ttl <= 2
    PROVE  Spec => []BadgeIsTrue
<1>1. FavInv /\ FavInv' /\ SyncInv /\ [Next]_vars => SyncInv'
  <2>. SUFFICES ASSUME FavInv, FavInv', SyncInv, [Next]_vars PROVE SyncInv'
      OBVIOUS
  <2>1. CASE UNCHANGED vars
    <3>1. UNCHANGED <<fav, past, cred, cache, beat, faults, sub, orphan, page, es>>
        BY <2>1 DEF vars
    <3>2. StoresFresh'
        BY <3>1 DEF SyncInv, StoresFresh, Ordered, BeatIsFresh, CacheIsFresh, SubIsFresh,
                    FreshSub
    <3>. QED
        BY <3>1, <3>2, StreamsUndisturbed DEF SyncInv
  <2>. QED
      BY <2>1, PageKeepsSync, LeaveKeepsSync, ServerKeepsSync, TickKeepsSync
      DEF Next, PageStep
<1>2. FavInv /\ SyncInv => BadgeIsTrue
  <2>. SUFFICES ASSUME FavInv, SyncInv, page.streaming, Quiet, faults = 0
                PROVE  page.songs >= past[2]
      BY DEF BadgeIsTrue
  <2>1. es.at = "open" /\ es.inbox = <<>> /\ beat = Off
      BY DEF Quiet, FavInv, PageInv, BadgeHasStream
  <2>. QED
      BY <2>1 DEF SyncInv, StreamsFresh, WillHear
<1>. QED
    BY SyncInit, FavInvAlways, <1>1, <1>2, PTL DEF Spec

=============================================================================
