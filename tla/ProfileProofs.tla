---------------------------- MODULE ProfileProofs ----------------------------
(***************************************************************************)
(* Proofs about the page of the listening profile (ProfilePage, with the   *)
(* hook and the task of ProfileGeneration) and about the queue that its    *)
(* clusters are put into (ProfileQueue).                                   *)
(*                                                                         *)
(* Part 1 is the page, for every number of retries and generations; part 2 *)
(* the queue, for every number of clusters, entries and starts of a day.   *)
(***************************************************************************)
EXTENDS ProfilePage, ProfileQueue, SequenceTheorems, TLAPS

-----------------------------------------------------------------------------
(* Part 1.  The page.                                                       *)

\* A stream that goes on has not been given up.
Listening == es \in {"connecting", "open", "timer"} => ~view.error

\* A stream belongs to a thread that was given.
Numbered == thread + asks <= MaxThreads /\ (es # "none" => thread > 0)

\* Only the result of a complete profile is there before the task is over.
StoredEnds ==
    result # "none" =>
        /\ task.pc \in {"ending", "over", "dead"}
        /\ task.pc = "ending" => task.outcome = "complete"

\* As long as no generation is asked for while one is asked for: stream and fetch are
\* those of the thread given last, and what is shown is its result.
InTurn ==
    /\ asks <= 1 /\ late = {}
    /\ asks = 1 => cached = "none" /\ generating
    /\ asks = 1 /\ threadId => view.error
    /\ threadId => view.data = "none" /\ cached = "none" /\ (view.loading \/ view.error)
    /\ view.error \/ es \notin {"none", "closed"} \/ fetch \in {"asked", "timer"} => threadId
    /\ cached \in {"none", view.data}
    /\ view.data # "none" => view.data = result /\ of = thread

\* The inductive invariant of the page.
PageInv ==
    /\ PageTypeOK /\ OneVerdict
    /\ Listening /\ Numbered /\ StoredEnds
    /\ page = "here" /\ ~again => InTurn

\* What TypeOK says of the view.
View == [loading : BOOLEAN, done : BOOLEAN, error : BOOLEAN, data : Results]

-----------------------------------------------------------------------------
(* Coming and going.                                                        *)

LEMMA FreshKeepsInv ==
    ASSUME PageInv, Fresh, page' \in {"away", "here"}
    PROVE  PageInv'
<1>1. /\ view' = [loading |-> FALSE, done |-> FALSE, error |-> FALSE, data |-> "none"]
      /\ asks' = 0 /\ generating' = FALSE /\ threadId' = FALSE /\ cached' = "none"
      /\ of' = 0 /\ late' = {} /\ again' = FALSE /\ es' = "none" /\ inbox' = <<>>
      /\ retries' = 0 /\ fetch' = "none" /\ UNCHANGED <<task, result, thread>>
    BY DEF Fresh
<1>2. /\ view' \in View /\ ~view'.done /\ ~view'.error /\ view'.data = "none"
    BY <1>1 DEF View, Results
<1>3. TypeOK'
    BY <1>1, <1>2, MaxRetriesAssumption DEF PageInv, PageTypeOK, TypeOK, View
<1>4. PageTypeOK'
  <2>1. asks' \in 0..MaxThreads /\ thread' \in 0..MaxThreads /\ of' \in 0..thread'
      BY <1>1, MaxThreadsAssumption DEF PageInv, PageTypeOK
  <2>2. {view'.data, cached'} \subseteq Profiles
      BY <1>1, <1>2 DEF Profiles, Results, Outcomes
  <2>. QED
      BY <1>1, <1>3, <2>1, <2>2 DEF PageTypeOK
<1>5. OneVerdict' /\ Listening' /\ Numbered' /\ StoredEnds'
    BY <1>1, <1>2, MaxThreadsAssumption
    DEF PageInv, PageTypeOK, OneVerdict, Listening, Numbered, StoredEnds
<1>6. InTurn'
    BY <1>1, <1>2 DEF InTurn
<1>. QED
    BY <1>4, <1>5, <1>6 DEF PageInv

-----------------------------------------------------------------------------
(* A generation is asked for.                                               *)

\* On every screen that has a button, in turn, the thread given last has ended.
LEMMA ButtonFacts ==
    ASSUME PageInv, ~again, InitialScreen \/ ErrorScreen \/ LoadedScreen
    PROVE  /\ InTurn /\ (threadId => view.error)
           /\ InitialScreen \/ ErrorScreen => cached = "none"
<1>1. InTurn
    BY DEF PageInv, InitialScreen, ErrorScreen, LoadedScreen
<1>2. InitialScreen \/ ErrorScreen => cached = "none" /\ view.data = "none"
    BY DEF InitialScreen, ErrorScreen, profile
<1>3. threadId => view.error
    BY <1>1 DEF InTurn, InitialScreen, ErrorScreen, LoadedScreen, LoadingScreen, profile
<1>. QED
    BY <1>1, <1>2, <1>3

LEMMA GenerateKeepsInv ==
    ASSUME PageInv, Generate \/ HandleRefresh
    PROVE  PageInv'
<1>1. /\ HandleGenerate /\ cached' \in {cached, "none"} /\ page = "here"
      /\ InitialScreen \/ ErrorScreen \/ LoadedScreen
      /\ LoadedScreen /\ ~InitialScreen /\ ~ErrorScreen => cached' = "none"
      /\ ~LoadedScreen => cached' = cached
    BY DEF Generate, HandleRefresh, InitialScreen, ErrorScreen, LoadedScreen
<1>2. /\ thread + asks < MaxThreads /\ asks' = asks + 1 /\ generating' = TRUE
      /\ again' = (again \/ asks > 0)
      /\ UNCHANGED <<task, result, inbox, es, retries, fetch, view>>
      /\ UNCHANGED <<page, threadId, thread, of, late>>
    BY <1>1 DEF HandleGenerate, hook
<1>3. TypeOK'
    BY <1>2 DEF PageInv, PageTypeOK, TypeOK
<1>4. asks \in Nat /\ thread \in Nat /\ asks' \in 0..MaxThreads
    BY <1>2, MaxThreadsAssumption DEF PageInv, PageTypeOK
<1>5. PageTypeOK'
    BY <1>1, <1>2, <1>3, <1>4 DEF PageInv, PageTypeOK, Profiles, Results
<1>6. OneVerdict' /\ Listening' /\ Numbered' /\ StoredEnds'
    BY <1>2, <1>4, MaxThreadsAssumption
    DEF PageInv, OneVerdict, Listening, Numbered, StoredEnds
<1>7. ASSUME ~again'
      PROVE  InTurn'
  <2>1. ~again /\ asks = 0
    <3>1. ~again /\ ~(asks > 0)
        BY <1>2, <1>7, Zenon
    <3>. QED
        BY <1>4, <3>1
  <2>2. InTurn /\ (threadId => view.error) /\ cached' = "none"
      BY <1>1, <2>1, ButtonFacts DEF LoadedScreen
  <2>. QED
      BY <1>2, <1>4, <2>1, <2>2 DEF InTurn
<1>. QED
    BY <1>5, <1>6, <1>7 DEF PageInv

LEMMA AnsweredKeepsInv ==
    ASSUME PageInv, Answered
    PROVE  PageInv'
<1>1. /\ asks > 0 /\ asks' = asks - 1 /\ thread' = thread + 1 /\ threadId' = TRUE
      /\ page = "here" /\ UNCHANGED <<page, generating, cached, of, again>>
    BY DEF Answered
<1>2. /\ task' = [pc |-> "queued", stage |-> 0, outcome |-> "none"]
      /\ result' = "none" /\ inbox' = <<>> /\ es' = "connecting"
      /\ retries' = 0 /\ fetch' = "none"
      /\ view' = [loading |-> TRUE, done |-> FALSE, error |-> FALSE, data |-> "none"]
    BY DEF Answered, NewThread
<1>3. /\ view' \in View /\ view'.loading /\ ~view'.done /\ ~view'.error
      /\ view'.data = "none"
    BY <1>2 DEF View, Results
<1>4. late' \subseteq late \cup {thread}
      /\ (late' # {} => late # {} \/ fetch \in {"asked", "timer"})
      /\ (thread \in late' \ late => fetch # "none")
    BY DEF Answered
<1>5. asks \in Nat /\ thread \in Nat /\ thread + asks <= MaxThreads
    BY DEF PageInv, PageTypeOK, Numbered
<1>6. TypeOK'
  <2>1. inbox' \in Seq(Stages) /\ retries' \in 0..MaxRetries
      BY <1>2, MaxRetriesAssumption
  <2>2. task' \in [pc : {"idle", "queued", "running", "ending", "over", "dead"},
                   stage : 0..LastStage, outcome : Results]
      BY <1>2 DEF LastStage, Results
  <2>. QED
      BY <1>2, <1>3, <2>1, <2>2 DEF TypeOK, View, Results
<1>7. late' \subseteq 1..thread' - 1
  <2>1. ASSUME NEW n \in late'
        PROVE  n \in 1..thread' - 1
    <3>1. CASE n \in late
        BY <1>1, <1>5, <3>1 DEF PageInv, PageTypeOK
    <3>2. CASE n = thread /\ n \notin late
      <4>1. fetch # "none"
          BY <1>4, <2>1, <3>2
      <4>2. es = "closed"
          BY <4>1 DEF PageInv, OneVerdict
      <4>3. thread > 0
          BY <4>2 DEF PageInv, Numbered
      <4>. QED
          BY <1>1, <1>5, <3>2, <4>3
    <3>. QED
        BY <1>4, <2>1, <3>1, <3>2
  <2>. QED
      BY <2>1
<1>8. PageTypeOK'
    BY <1>1, <1>3, <1>5, <1>6, <1>7, MaxThreadsAssumption
    DEF PageInv, PageTypeOK, Profiles, Results
<1>9. OneVerdict' /\ Listening' /\ Numbered' /\ StoredEnds'
    BY <1>1, <1>2, <1>3, <1>5, MaxThreadsAssumption
    DEF OneVerdict, Listening, Numbered, StoredEnds
<1>10. ASSUME ~again'
       PROVE  InTurn'
  <2>1. InTurn /\ asks = 1
      BY <1>1, <1>5, <1>10 DEF PageInv, InTurn
  <2>2. fetch \notin {"asked", "timer"}
      BY <2>1 DEF InTurn, PageInv, OneVerdict
  <2>3. late' = {} /\ cached = "none"
      BY <1>4, <2>1, <2>2 DEF InTurn
  <2>. QED
      BY <1>1, <1>2, <1>3, <2>1, <2>3 DEF InTurn
<1>. QED
    BY <1>1, <1>8, <1>9, <1>10 DEF PageInv

LEMMA GenerateFailsKeepsInv ==
    ASSUME PageInv, GenerateFails
    PROVE  PageInv'
<1>1. /\ page = "here" /\ asks > 0 /\ asks' = asks - 1 /\ generating' = FALSE
      /\ UNCHANGED <<task, result, inbox, es, retries, fetch, view>>
      /\ UNCHANGED <<page, threadId, cached, thread, of, late, again>>
    BY DEF GenerateFails, hook
<1>2. asks \in Nat /\ thread \in Nat /\ thread + asks <= MaxThreads
    BY DEF PageInv, PageTypeOK, Numbered
<1>3. TypeOK'
    BY <1>1 DEF PageInv, PageTypeOK, TypeOK
<1>4. PageTypeOK'
  <2>1. asks' \in 0..MaxThreads
      BY <1>1, <1>2, MaxThreadsAssumption
  <2>. QED
      BY <1>1, <1>3, <2>1 DEF PageInv, PageTypeOK
<1>5. OneVerdict' /\ Listening' /\ Numbered' /\ StoredEnds'
    BY <1>1, <1>2, MaxThreadsAssumption
    DEF PageInv, OneVerdict, Listening, Numbered, StoredEnds
<1>6. ~again' => InTurn'
    BY <1>1, <1>2 DEF PageInv, InTurn
<1>. QED
    BY <1>1, <1>4, <1>5, <1>6 DEF PageInv

-----------------------------------------------------------------------------
(* The task.                                                                *)

LEMMA PublishFacts ==
    ASSUME inbox \in Seq(Stages), NEW stage \in Stages, Publish(stage)
    PROVE  inbox' \in Seq(Stages)
    BY DEF Publish

\* A task that is at work has stored nothing, whatever page is shown.
LEMMA TaskKeepsInv ==
    ASSUME PageInv, TaskStep \/ Kill, UNCHANGED state
    PROVE  PageInv'
<1>. DEFINE Tasks == [pc : {"idle", "queued", "running", "ending", "over", "dead"},
                      stage : 0..LastStage, outcome : Results]
<1>1. UNCHANGED <<page, asks, generating, threadId, cached, thread, of, late, again>>
      /\ UNCHANGED <<es, retries, fetch, view>>
    BY DEF state, TaskStep, Progress, StoreComplete, AnnounceOther, Finish, Kill
<1>2. /\ task \in Tasks /\ inbox \in Seq(Stages) /\ result \in Results
      /\ StoredEnds
    BY DEF PageInv, PageTypeOK, TypeOK
<1>3. /\ task' \in Tasks /\ result' \in Results /\ inbox' \in Seq(Stages)
      /\ StoredEnds'
      /\ result' = result \/ result = "none"
  <2>1. CASE Progress
    <3>1. task' \in Tasks /\ task'.pc = "running"
      <4>. DEFINE s == task.stage + 1
      <4>1. s \in 0..LastStage
          BY <1>2, <2>1 DEF Progress, LastStage
      <4>2. task' = [task EXCEPT !.pc = "running", !.stage = s]
          BY <2>1 DEF Progress
      <4>. HIDE DEF s
      <4>. QED
          BY <1>2, <4>1, <4>2
    <3>2. inbox' \in Seq(Stages)
        BY <1>2, <2>1, PublishFacts DEF Progress, Stages
    <3>3. result' = result /\ result = "none"
        BY <1>2, <2>1 DEF Progress, StoredEnds
    <3>. QED
        BY <1>2, <3>1, <3>2, <3>3 DEF StoredEnds
  <2>2. CASE StoreComplete
    <3>1. task' \in Tasks /\ task'.pc = "ending" /\ task'.outcome = "complete"
        BY <1>2, <2>2 DEF StoreComplete, Results, Outcomes
    <3>2. result' = "complete" /\ inbox' = inbox /\ result = "none"
        BY <1>2, <2>2 DEF StoreComplete, StoredEnds
    <3>. QED
        BY <1>2, <3>1, <3>2 DEF StoredEnds, Results, Outcomes
  <2>3. CASE AnnounceOther
    <3>1. task' \in Tasks
        BY <1>2, <2>3 DEF AnnounceOther, Results, Outcomes
    <3>2. inbox' \in Seq(Stages)
        BY <1>2, <2>3, PublishFacts DEF AnnounceOther, Stages
    <3>3. result' = result /\ result = "none"
        BY <1>2, <2>3 DEF AnnounceOther, StoredEnds
    <3>. QED
        BY <1>2, <3>1, <3>2, <3>3 DEF StoredEnds
  <2>4. CASE Finish
    <3>1. task' \in Tasks /\ task'.pc = "over"
        BY <1>2, <2>4 DEF Finish
    <3>2. /\ task.pc = "ending" /\ result' \in {result, task.outcome}
          /\ result' = result \/ task.outcome # "complete"
        BY <2>4 DEF Finish
    <3>3. inbox' \in Seq(Stages)
        BY <1>2, <2>4, PublishFacts DEF Finish, Stages
    <3>4. result' = result \/ result = "none"
        BY <1>2, <3>2 DEF StoredEnds
    <3>. QED
        BY <1>2, <3>1, <3>2, <3>3, <3>4 DEF StoredEnds
  <2>5. CASE Kill
    <3>1. task' \in Tasks /\ task'.pc = "dead" /\ UNCHANGED <<result, inbox>>
        BY <1>2, <2>5 DEF Kill
    <3>. QED
        BY <1>2, <3>1 DEF StoredEnds
  <2>. QED
      BY <2>1, <2>2, <2>3, <2>4, <2>5 DEF TaskStep
<1>. HIDE DEF Tasks
<1>4. TypeOK'
    BY <1>1, <1>3 DEF PageInv, PageTypeOK, TypeOK, Tasks
<1>5. PageTypeOK'
    BY <1>1, <1>4 DEF PageInv, PageTypeOK, Profiles, Results
<1>6. OneVerdict' /\ Listening' /\ Numbered'
    BY <1>1 DEF PageInv, OneVerdict, Listening, Numbered
<1>7. ASSUME InTurn
      PROVE  InTurn'
    BY <1>1, <1>3, <1>7 DEF InTurn
<1>. QED
    BY <1>1, <1>3, <1>5, <1>6, <1>7 DEF PageInv

-----------------------------------------------------------------------------
(* The stream.                                                              *)

\* What a step of the stream may do to the page: it ends with "done", with the last
\* error, or goes on.
LEMMA StreamFacts ==
    ASSUME PageInv, StreamStep \/ Lose
    PROVE  /\ es \in {"connecting", "open", "timer"}
           /\ UNCHANGED <<task, result>>
           /\ inbox' \in Seq(Stages) /\ retries' \in 0..MaxRetries
           /\ view' \in View /\ view'.done = view.done /\ view'.data = view.data
           /\ view'.loading \in {view.loading, TRUE} \/ view'.error
           /\ \/ /\ es' \in {"connecting", "open", "timer"}
                 /\ fetch' = fetch /\ view'.error = view.error
              \/ es' = "closed" /\ fetch' = "asked" /\ view'.error = view.error
              \/ es' = "closed" /\ fetch' = fetch /\ view'.error
<1>1. /\ view \in View /\ inbox \in Seq(Stages) /\ retries \in 0..MaxRetries
      /\ MaxRetries \in Nat
    BY MaxRetriesAssumption DEF PageInv, PageTypeOK, TypeOK, View
<1>2. CASE Subscribe \/ Reconnect
  <2>1. /\ es \in {"connecting", "timer"} /\ es' \in {"connecting", "open"}
        /\ inbox' \in {inbox, <<>>}
        /\ UNCHANGED <<task, result, retries, fetch, view>>
      BY <1>2 DEF Subscribe, Reconnect
  <2>2. inbox' \in Seq(Stages)
      BY <1>1, <2>1, EmptySeq
  <2>. QED
      BY <1>1, <2>1, <2>2
<1>3. CASE Deliver
  <2>1. /\ view' \in View /\ view'.done = view.done /\ view'.data = view.data
        /\ view'.loading = TRUE /\ view'.error = view.error
      BY <1>1, <1>3 DEF Deliver, View
  <2>2. inbox' \in Seq(Stages)
    <3>1. inbox # <<>> /\ inbox' \in {<<>>, Tail(inbox)}
        BY <1>3 DEF Deliver
    <3>. QED
        BY <1>1, <3>1, HeadTailProperties, EmptySeq
  <2>3. /\ es = "open" /\ UNCHANGED <<task, result, retries>>
        /\ \/ es' = es /\ fetch' = fetch
           \/ es' = "closed" /\ fetch' = "asked"
      BY <1>3 DEF Deliver
  <2>. QED
      BY <1>1, <2>1, <2>2, <2>3
<1>4. CASE Lose \/ Cut
  <2>1. OnError /\ es \in {"connecting", "open"}
      BY <1>4 DEF Lose, Cut
  <2>2. CASE retries < MaxRetries
      BY <1>1, <2>1, <2>2 DEF OnError
  <2>3. CASE ~(retries < MaxRetries)
    <3>1. view' = [view EXCEPT !.error = TRUE, !.loading = FALSE]
          /\ UNCHANGED <<task, result, fetch, retries>> /\ es' = "closed"
          /\ inbox' = <<>>
        BY <2>1, <2>3 DEF OnError
    <3>2. view' \in View /\ view'.error /\ view'.done = view.done /\ view'.data = view.data
        BY <1>1, <3>1 DEF View
    <3>. QED
        BY <1>1, <2>1, <3>1, <3>2
  <2>. QED
      BY <2>2, <2>3
<1>. QED
    BY <1>2, <1>3, <1>4 DEF StreamStep

LEMMA StreamKeepsInv ==
    ASSUME PageInv, StreamStep \/ Lose, UNCHANGED state
    PROVE  PageInv'
<1>1. UNCHANGED <<page, asks, generating, threadId, cached, thread, of, late, again>>
    BY DEF state
<1>2. fetch = "none" /\ ~view.error /\ thread > 0
    BY StreamFacts DEF PageInv, OneVerdict, Listening, Numbered
<1>3. TypeOK'
    BY <1>2, StreamFacts DEF PageInv, PageTypeOK, TypeOK, View
<1>4. PageTypeOK'
    BY <1>1, <1>3, StreamFacts DEF PageInv, PageTypeOK, Profiles, Results
<1>5. OneVerdict' /\ Listening' /\ Numbered' /\ StoredEnds'
    BY <1>1, <1>2, StreamFacts
    DEF PageInv, OneVerdict, Listening, Numbered, StoredEnds
<1>6. ASSUME InTurn
      PROVE  InTurn'
  <2>1. threadId /\ asks # 1
      BY <1>2, <1>6, StreamFacts DEF InTurn
  <2>2. view'.loading \/ view'.error
      BY <1>2, <1>6, <2>1, StreamFacts DEF InTurn
  <2>. QED
      BY <1>1, <1>6, <2>1, <2>2, StreamFacts DEF InTurn
<1>. QED
    BY <1>1, <1>4, <1>5, <1>6 DEF PageInv

-----------------------------------------------------------------------------
(* The result.                                                              *)

\* A result reaches the page: that of the thread given last, or of an earlier one.
LEMMA TakenType ==
    ASSUME PageTypeOK, NEW data \in {"complete", "ai_failed", "exception"},
           NEW n \in 0..thread, Taken(data, n),
           view' = [view EXCEPT !.data = data, !.done = TRUE, !.loading = FALSE],
           es' \in {es, "closed"}, inbox' \in Seq(Stages),
           fetch' \in {"none", "asked", "timer", "done"}, late' \subseteq late,
           UNCHANGED <<task, result, retries, asks, thread, again>>
    PROVE  /\ PageTypeOK'
           /\ view'.data = data /\ view'.error = view.error /\ view'.done
<1>1. view \in View /\ data \in Profiles
    BY DEF PageTypeOK, TypeOK, View, Profiles, Results, Outcomes
<1>2. /\ view' \in View /\ view'.data = data /\ view'.error = view.error
      /\ view'.done
    BY <1>1 DEF View, Profiles
<1>3. TypeOK'
    BY <1>2 DEF PageTypeOK, TypeOK, View
<1>4. PageTypeOK'
    BY <1>1, <1>2, <1>3 DEF PageTypeOK, Taken
<1>. QED
    BY <1>2, <1>4

LEMMA FetchKeepsInv ==
    ASSUME PageInv, Fetch
    PROVE  PageInv'
<1>1. page = "here" /\ UNCHANGED <<asks, thread, late, again>>
      /\ UNCHANGED <<task, result, inbox, es, retries>>
    BY DEF Fetch, FetchStep, FetchResult, FetchAgain
<1>2. fetch \in {"asked", "timer"} /\ ~view.error /\ es = "closed"
    BY DEF Fetch, FetchStep, FetchResult, FetchAgain, PageInv, OneVerdict
<1>3. CASE FetchAgain \/ (FetchResult /\ Refused)
  <2>1. fetch' \in {"asked", "timer"} /\ view' = view
      BY <1>3 DEF FetchAgain, FetchResult
  <2>2. UNCHANGED <<page, generating, threadId, cached, of>>
      BY <2>1 DEF Fetch
  <2>3. TypeOK'
      BY <1>1, <2>1 DEF PageInv, PageTypeOK, TypeOK
  <2>4. PageTypeOK'
      BY <1>1, <2>1, <2>2, <2>3 DEF PageInv, PageTypeOK, Profiles, Results
  <2>5. OneVerdict' /\ Listening' /\ Numbered' /\ StoredEnds'
      BY <1>1, <1>2, <2>1
      DEF PageInv, OneVerdict, Listening, Numbered, StoredEnds
  <2>6. InTurn => InTurn'
      BY <1>1, <1>2, <2>1, <2>2 DEF InTurn
  <2>. QED
      BY <1>1, <2>2, <2>4, <2>5, <2>6 DEF PageInv
<1>4. CASE FetchResult /\ ~Refused
  <2>1. /\ fetch' = "done"
        /\ view' = [view EXCEPT !.data = result, !.done = TRUE, !.loading = FALSE]
      BY <1>4 DEF FetchResult
  <2>2. result \in {"complete", "ai_failed", "exception"}
      BY <1>4 DEF Refused, PageInv, PageTypeOK, TypeOK, Results, Outcomes
  <2>3. view \in View
      BY DEF PageInv, PageTypeOK, TypeOK, View
  <2>4. view'.done /\ view'.data = result
      BY <2>1, <2>3 DEF View
  <2>5. Taken(result, thread)
      BY <2>1, <2>4 DEF Fetch
  <2>6. /\ PageTypeOK'
        /\ view'.data = result /\ view'.error = view.error /\ view'.done
    <3>1. thread \in 0..thread /\ inbox' \in Seq(Stages)
        BY <1>1 DEF PageInv, PageTypeOK, TypeOK
    <3>. QED
        BY <1>1, <2>1, <2>2, <2>5, <3>1, TakenType DEF PageInv
  <2>7. OneVerdict' /\ Listening' /\ Numbered' /\ StoredEnds'
      BY <1>1, <1>2, <2>6
      DEF PageInv, OneVerdict, Listening, Numbered, StoredEnds
  <2>8. ASSUME InTurn
        PROVE  InTurn'
    <3>1. threadId /\ asks # 1
        BY <1>2, <2>8 DEF InTurn
    <3>2. threadId' = FALSE /\ cached' = result /\ of' = thread
        BY <2>5 DEF Taken
    <3>. QED
        BY <1>1, <1>2, <2>1, <2>2, <2>6, <2>8, <3>1, <3>2 DEF InTurn
  <2>. QED
      BY <1>1, <2>6, <2>7, <2>8 DEF PageInv
<1>. QED
    BY <1>3, <1>4 DEF Fetch, FetchStep

\* Only a generation that was asked for out of turn leaves a fetch behind.
LEMMA LateKeepsInv ==
    ASSUME PageInv, NEW n \in late, LateAnswered(n)
    PROVE  PageInv'
<1>1. PICK data \in {"complete", "ai_failed", "exception"} :
        /\ view' = [view EXCEPT !.data = data, !.done = TRUE, !.loading = FALSE]
        /\ Taken(data, n)
    BY DEF LateAnswered
<1>2. /\ page = "here" /\ es' = "closed" /\ inbox' = <<>> /\ late' \subseteq late
      /\ fetch' = fetch \/ (fetch = "timer" /\ fetch' = "none")
      /\ UNCHANGED <<task, result, retries, asks, thread, again>>
    BY DEF LateAnswered
<1>3. n \in 0..thread /\ thread > 0 /\ late # {}
    BY DEF PageInv, PageTypeOK
<1>4. PageTypeOK' /\ view'.error = view.error
  <2>1. inbox' \in Seq(Stages) /\ fetch' \in {"none", "asked", "timer", "done"}
      BY <1>2 DEF PageInv, PageTypeOK, TypeOK
  <2>. QED
      BY <1>1, <1>2, <1>3, <2>1, TakenType DEF PageInv
<1>5. OneVerdict' /\ Listening' /\ Numbered' /\ StoredEnds'
    BY <1>2, <1>3, <1>4 DEF PageInv, OneVerdict, Listening, Numbered, StoredEnds
<1>6. again'
    BY <1>2, <1>3 DEF PageInv, InTurn
<1>. QED
    BY <1>4, <1>5, <1>6 DEF PageInv

-----------------------------------------------------------------------------
LEMMA PageInitInv == PageInit => PageInv
<1>. SUFFICES ASSUME PageInit PROVE PageInv
    OBVIOUS
<1>1. /\ view = [loading |-> FALSE, done |-> FALSE, error |-> FALSE, data |-> "none"]
      /\ task = [pc |-> "idle", stage |-> 0, outcome |-> "none"]
      /\ result = "none" /\ inbox = <<>> /\ es = "none" /\ retries = 0 /\ fetch = "none"
      /\ page = "away" /\ asks = 0 /\ generating = FALSE /\ threadId = FALSE
      /\ cached = "none" /\ thread = 0 /\ of = 0 /\ late = {} /\ again = FALSE
    BY DEF PageInit, Init
<1>2. TypeOK
    BY <1>1, MaxRetriesAssumption DEF TypeOK, Results, LastStage
<1>3. PageTypeOK
  <2>1. asks \in 0..MaxThreads /\ thread \in 0..MaxThreads /\ of \in 0..thread
      BY <1>1, MaxThreadsAssumption
  <2>2. {view.data, cached} \subseteq Profiles
      BY <1>1 DEF Profiles, Results, Outcomes
  <2>. QED
      BY <1>1, <1>2, <2>1, <2>2 DEF PageTypeOK
<1>. QED
    BY <1>1, <1>3, MaxThreadsAssumption
    DEF PageInv, OneVerdict, Listening, Numbered, StoredEnds

LEMMA PageNextKeepsInv == PageInv /\ [PageNext]_allvars => PageInv'
<1>. SUFFICES ASSUME PageInv, [PageNext]_allvars PROVE PageInv'
    OBVIOUS
<1>1. CASE Visit \/ Leave \/ Reload
    BY <1>1, FreshKeepsInv DEF Visit, Leave, Reload
<1>2. CASE Generate \/ HandleRefresh
    BY <1>2, GenerateKeepsInv
<1>3. CASE Generation
    BY <1>3, AnsweredKeepsInv, GenerateFailsKeepsInv DEF Generation
<1>4. CASE Task \/ (Kill /\ UNCHANGED state)
    BY <1>4, TaskKeepsInv DEF Task
<1>5. CASE Stream \/ (Lose /\ UNCHANGED state)
    BY <1>5, StreamKeepsInv DEF Stream
<1>6. CASE UNCHANGED allvars
  <2>1. UNCHANGED <<page, asks, generating, threadId, cached, thread, of, late, again>>
        /\ UNCHANGED <<task, result, inbox, es, retries, fetch, view>>
      BY <1>6 DEF allvars, hook, state
  <2>2. TypeOK'
      BY <2>1 DEF PageInv, PageTypeOK, TypeOK
  <2>3. PageTypeOK'
      BY <2>1, <2>2 DEF PageInv, PageTypeOK, Profiles, Results
  <2>4. OneVerdict' /\ Listening' /\ Numbered' /\ StoredEnds' /\ (InTurn => InTurn')
      BY <2>1 DEF PageInv, OneVerdict, Listening, Numbered, StoredEnds, InTurn
  <2>. QED
      BY <2>1, <2>3, <2>4 DEF PageInv
<1>. QED
    BY <1>1, <1>2, <1>3, <1>4, <1>5, <1>6, FetchKeepsInv, LateKeepsInv DEF PageNext

LEMMA PageInvariant == PageSpec => []PageInv
    BY PageInitInv, PageNextKeepsInv, PTL DEF PageSpec

\* The type invariant of hook and page: among others, retries are never more than the
\* code allows, and a page that knows a thread is shown and has not been answered.
THEOREM PageTypeCorrect == PageSpec => []PageTypeOK
<1>1. PageInv => PageTypeOK
    BY DEF PageInv
<1>. QED
    BY <1>1, PageInvariant, PTL

\* Once the page has heard "done", its stream is closed and no lost connection is
\* reported, in any number of generations on one page (useProfileStream.ts).
THEOREM OneVerdictAlways == PageSpec => []OneVerdict
<1>1. PageInv => OneVerdict
    BY DEF PageInv
<1>. QED
    BY <1>1, PageInvariant, PTL

\* The profile on the screen is the result of the thread given last (Profile.tsx).
THEOREM AlwaysShownIsLast == PageSpec => []ShownIsLast
<1>1. ASSUME PageInv, LoadedScreen, ~again
      PROVE  of = thread /\ profile = result /\ ~Refused
  <2>1. InTurn /\ page = "here"
      BY <1>1 DEF PageInv, LoadedScreen
  <2>2. profile # "none"
      BY <1>1, <2>1 DEF LoadedScreen, InitialScreen, LoadingScreen, ErrorScreen, profile
  <2>3. profile = view.data /\ view.data # "none"
      BY <2>1, <2>2 DEF InTurn, profile
  <2>4. view.data \notin {"none", "songs_too_few"}
      BY <1>1, <2>3 DEF PageInv, PageTypeOK, Profiles
  <2>. QED
      BY <2>1, <2>3, <2>4 DEF InTurn, Refused
<1>2. PageInv => ShownIsLast
    BY <1>1 DEF ShownIsLast
<1>. QED
    BY <1>2, PageInvariant, PTL

-----------------------------------------------------------------------------
(* Part 2.  The queue.                                                      *)

Names == Clusters \ EmptyClusters
Status == {"pending", "running", "done", "failed"}
Entry == [cluster : Names, status : Status]

\* What OneStart leaves open: a start on its way belongs to a running entry.
CallIsRunning ==
    calls # <<>> => \E i \in DOMAIN queue : /\ queue[i].status = "running"
                                            /\ queue[i].cluster = queue[calls[1]].cluster

\* The inductive invariant.
QueueInv == QueueTypeOK /\ OneStart /\ CallIsRunning /\ DoneWasStarted

\* The queue right after an entry has ended, or while none runs: nothing is called.
Resting(q) ==
    /\ q \in Seq(Entry) /\ Len(q) <= MaxQueue
    /\ \A i \in DOMAIN q : q[i].status # "running"

\* What it calls done was started, done being a set of places that holds the started.
DoneIn(q, done) ==
    \A i \in DOMAIN q :
        q[i].status = "done" => \E j \in done : q[j].cluster = q[i].cluster

-----------------------------------------------------------------------------
LEMMA MarkedType ==
    ASSUME NEW q \in Seq(Entry), NEW name \in Names, NEW status \in Status
    PROVE  /\ Marked(q, name, status) \in Seq(Entry)
           /\ Len(Marked(q, name, status)) = Len(q)
           /\ DOMAIN Marked(q, name, status) = DOMAIN q
           /\ \A i \in DOMAIN q :
                /\ Marked(q, name, status)[i].cluster = q[i].cluster
                /\ q[i].cluster = name => Marked(q, name, status)[i].status = status
                /\ q[i].cluster # name => Marked(q, name, status)[i].status = q[i].status
<1>. DEFINE m == Marked(q, name, status)
<1>1. \A i \in DOMAIN q : q[i] \in Entry
    OBVIOUS
<1>2. \A i \in DOMAIN q :
        /\ [q[i] EXCEPT !.status = status] \in Entry
        /\ [q[i] EXCEPT !.status = status].cluster = q[i].cluster
        /\ [q[i] EXCEPT !.status = status].status = status
    BY <1>1 DEF Entry
<1>3. DOMAIN q = 1..Len(q) /\ Len(q) \in Nat
    OBVIOUS
<1>4. DOMAIN m = DOMAIN q /\ \A i \in DOMAIN q : m[i] \in Entry
    BY <1>1, <1>2 DEF Marked
<1>5. m = [i \in 1..Len(q) |-> m[i]]
    BY <1>3 DEF Marked
<1>6. m \in Seq(Entry) /\ Len(m) = Len(q)
    BY <1>3, <1>4, <1>5
<1>7. \A i \in DOMAIN q : /\ m[i].cluster = q[i].cluster
                          /\ q[i].cluster = name => m[i].status = status
                          /\ q[i].cluster # name => m[i].status = q[i].status
    BY <1>2 DEF Marked
<1>. QED
    BY <1>4, <1>6, <1>7

\* From rest, the next pending entry is the only start there is.
LEMMA ProcessNextKeepsInv ==
    ASSUME NEW q, Resting(q), DoneIn(q, started'), ProcessNext(q, <<>>),
           here' \in BOOLEAN, daily' \in 0..MaxDaily + 1, hot' \in BOOLEAN,
           started' \subseteq DOMAIN q
    PROVE  QueueInv'
<1>1. CASE Pending(q) = {} /\ queue' = q /\ calls' = <<>>
  <2>1. \A i \in DOMAIN q : q[i].status # "pending"
      BY <1>1 DEF Pending
  <2>2. QueueTypeOK'
    <3>1. queue' \in Seq(Entry) /\ Len(queue') <= MaxQueue
          /\ calls' \in Seq(DOMAIN queue')
        BY <1>1 DEF Resting
    <3>2. started' \subseteq DOMAIN queue'
        BY <1>1
    <3>. QED
        BY <3>1, <3>2 DEF QueueTypeOK, Entry, Status, Names
  <2>3. OneStart' /\ CallIsRunning' /\ DoneWasStarted'
      BY <1>1, <2>1 DEF Resting, DoneIn, OneStart, CallIsRunning, DoneWasStarted
  <2>. QED
      BY <2>2, <2>3 DEF QueueInv
<1>2. ASSUME NEW i \in Pending(q),
             queue' = Marked(q, q[i].cluster, "running"),
             calls' = Append(<<>>, i)
      PROVE  QueueInv'
  <2>. DEFINE c == q[i].cluster
  <2>1. i \in DOMAIN q /\ c \in Names /\ q \in Seq(Entry)
    <3>1. i \in DOMAIN q /\ q \in Seq(Entry)
        BY DEF Pending, Resting
    <3>2. q[i] \in Entry
        BY <3>1, ElementOfSeq, LenProperties
    <3>. QED
        BY <3>1, <3>2 DEF Entry
  <2>2. calls' \in Seq(DOMAIN q) /\ Len(calls') = 1 /\ calls'[1] = i /\ calls' # <<>>
        /\ DOMAIN calls' = {1}
      BY <1>2, <2>1
  <2>3. /\ queue' \in Seq(Entry) /\ Len(queue') = Len(q) /\ DOMAIN queue' = DOMAIN q
        /\ \A j \in DOMAIN q :
              /\ queue'[j].cluster = q[j].cluster
              /\ q[j].cluster = c => queue'[j].status = "running"
              /\ q[j].cluster # c => queue'[j].status = q[j].status
    <3>1. "running" \in Status /\ queue' = Marked(q, c, "running")
        BY <1>2 DEF Status
    <3>. HIDE DEF c
    <3>. QED
        BY <2>1, <3>1, MarkedType, Zenon
  <2>4. queue'[i].cluster = c
      BY <2>1, <2>3
  <2>. HIDE DEF c
  <2>5. QueueTypeOK'
      BY <2>2, <2>3 DEF Resting, QueueTypeOK, Entry, Status, Names
  <2>6. \A j \in DOMAIN queue' : queue'[j].status = "running" => queue'[j].cluster = c
      BY <2>3 DEF Resting
  <2>7. OneStart'
      BY <2>2, <2>4, <2>6 DEF OneStart
  <2>8. CallIsRunning'
      BY <2>1, <2>2, <2>3, <2>4 DEF CallIsRunning, c
  <2>9. DoneWasStarted'
      BY <2>3 DEF DoneIn, DoneWasStarted
  <2>. QED
      BY <2>5, <2>7, <2>8, <2>9 DEF QueueInv
<1>. QED
    BY <1>1, <1>2 DEF ProcessNext

\* The start that is on its way ends: its entries are done or failed, the rest waits.
LEMMA EndedRests ==
    ASSUME QueueInv, calls # <<>>, NEW status \in {"done", "failed"},
           NEW done \in SUBSET DOMAIN queue,
           started \subseteq done, status = "done" => Head(calls) \in done
    PROVE  /\ Resting(Ended(status)) /\ DoneIn(Ended(status), done)
           /\ DOMAIN Ended(status) = DOMAIN queue
           /\ Tail(calls) = <<>> /\ Head(calls) \in DOMAIN queue
<1>. DEFINE k == Head(calls)
            c == queue[k].cluster
            q == Marked(queue, c, status)
<1>1. /\ queue \in Seq(Entry) /\ Len(queue) <= MaxQueue
      /\ calls \in Seq(DOMAIN queue) /\ Len(calls) <= 1
    BY DEF QueueInv, QueueTypeOK, OneStart, Entry, Status, Names
<1>2. Len(calls) = 1 /\ k \in DOMAIN queue /\ Tail(calls) = <<>> /\ k = calls[1]
      /\ DOMAIN calls = {1}
  <2>. DEFINE D == DOMAIN queue
  <2>0. calls \in Seq(D)
      BY <1>1
  <2>. HIDE DEF D
  <2>1. Len(calls) = 1 /\ DOMAIN calls = {1}
    <3>1. Len(calls) \in Nat /\ Len(calls) # 0 /\ DOMAIN calls = 1..Len(calls)
        BY <2>0, EmptySeq, LenProperties
    <3>2. Len(calls) = 1 /\ 1..1 = {1}
        BY <1>1, <3>1
    <3>. QED
        BY <3>1, <3>2
  <2>2. /\ Tail(calls) \in Seq(D) /\ Len(Tail(calls)) = 0
        /\ k \in D /\ k = calls[1]
      BY <2>0, <2>1, HeadTailProperties
  <2>. QED
      BY <2>1, <2>2, EmptySeq DEF D
<1>. HIDE DEF k
<1>3. c \in Names
  <2>1. queue[k] \in Entry
      BY <1>1, <1>2, ElementOfSeq, LenProperties
  <2>. QED
      BY <2>1 DEF Entry
<1>. HIDE DEF c
<1>4. /\ q \in Seq(Entry) /\ Len(q) = Len(queue) /\ DOMAIN q = DOMAIN queue
      /\ \A j \in DOMAIN queue :
            /\ q[j].cluster = queue[j].cluster
            /\ queue[j].cluster = c => q[j].status = status
            /\ queue[j].cluster # c => q[j].status = queue[j].status
  <2>1. status \in Status
      BY DEF Status
  <2>. QED
      BY <1>1, <1>3, <2>1, MarkedType, Zenon
<1>5. \A j \in DOMAIN queue : queue[j].status = "running" => queue[j].cluster = c
    BY <1>2 DEF QueueInv, OneStart, c
<1>6. q = Ended(status)
    BY DEF Ended, c, k
<1>. HIDE DEF q
<1>7. Resting(q)
    BY <1>1, <1>4, <1>5 DEF Resting
<1>8. DoneIn(q, done)
  <2>. SUFFICES ASSUME NEW i \in DOMAIN queue, q[i].status = "done"
                PROVE  \E j \in done : q[j].cluster = q[i].cluster
      BY <1>4 DEF DoneIn
  <2>1. CASE queue[i].cluster = c
    <3>1. k \in done
        BY <1>4, <2>1 DEF k
    <3>. QED
        BY <1>2, <1>4, <2>1, <3>1 DEF c
  <2>2. CASE queue[i].cluster # c
    <3>1. queue[i].status = "done"
        BY <1>4, <2>2
    <3>2. PICK j \in started : queue[j].cluster = queue[i].cluster
        BY <3>1 DEF QueueInv, DoneWasStarted
    <3>. QED
        BY <1>4, <3>2
  <2>. QED
      BY <2>1, <2>2
<1>. QED
    BY <1>2, <1>4, <1>6, <1>7, <1>8 DEF k

LEMMA LimitedType ==
    ASSUME QueueTypeOK, Limited
    PROVE  daily' \in 0..MaxDaily + 1 /\ hot' \in BOOLEAN
    BY QueueAssumption DEF QueueTypeOK, Limited, Counted, Passes

-----------------------------------------------------------------------------
LEMMA InitInv == QueueInit => QueueInv
<1>. SUFFICES ASSUME QueueInit PROVE QueueInv
    OBVIOUS
<1>1. queue \in Seq(Entry) /\ Len(queue) = 0 /\ calls \in Seq(DOMAIN queue)
      /\ DOMAIN queue = {} /\ Len(calls) = 0 /\ calls = <<>>
    BY EmptySeq DEF QueueInit
<1>2. 0 <= MaxQueue /\ 0 \in 0..MaxDaily + 1 /\ queue = <<>>
    BY QueueAssumption DEF QueueInit
<1>3. Len(queue) <= MaxQueue
    BY <1>1, <1>2
<1>4. QueueTypeOK
    BY <1>1, <1>2, <1>3 DEF QueueInit, QueueTypeOK, Entry, Status, Names
<1>5. OneStart /\ CallIsRunning /\ DoneWasStarted
    BY <1>1 DEF OneStart, CallIsRunning, DoneWasStarted
<1>. QED
    BY <1>4, <1>5 DEF QueueInv

LEMMA StartAnsweredKeepsInv == QueueInv /\ StartAnswered => QueueInv'
<1>. SUFFICES ASSUME QueueInv, StartAnswered PROVE QueueInv'
    OBVIOUS
<1>. DEFINE k == Head(calls)
            status == IF Passes THEN "done" ELSE "failed"
<1>1. calls # <<>> /\ Limited /\ here' \in BOOLEAN
    BY DEF StartAnswered, QueueInv, QueueTypeOK
<1>2. /\ started' = IF Passes THEN started \cup {k} ELSE started
      /\ started \subseteq started' /\ status \in {"done", "failed"}
      /\ status = "done" => k \in started'
    BY DEF StartAnswered
<1>3. k \in DOMAIN queue
    BY <1>1, EndedRests DEF QueueInv, QueueTypeOK
<1>4. started' \in SUBSET DOMAIN queue
    BY <1>2, <1>3 DEF QueueInv, QueueTypeOK
<1>. HIDE DEF status
<1>5. /\ Resting(Ended(status)) /\ DoneIn(Ended(status), started')
      /\ DOMAIN Ended(status) = DOMAIN queue /\ Tail(calls) = <<>>
    BY <1>1, <1>2, <1>4, EndedRests
<1>6. ProcessNext(Ended(status), <<>>)
    BY <1>5 DEF StartAnswered, status
<1>. QED
    BY <1>1, <1>4, <1>5, <1>6, LimitedType, ProcessNextKeepsInv DEF QueueInv

LEMMA LostKeepsInv == QueueInv /\ Lost => QueueInv'
<1>. SUFFICES ASSUME QueueInv, Lost PROVE QueueInv'
    OBVIOUS
<1>1. /\ calls # <<>> /\ here' \in BOOLEAN
      /\ \/ UNCHANGED <<daily, hot>>
         \/ Limited
      /\ started' \in {started, started \cup {Head(calls)}}
    BY DEF Lost, QueueInv, QueueTypeOK
<1>2. Head(calls) \in DOMAIN queue
    BY <1>1, EndedRests DEF QueueInv, QueueTypeOK
<1>3. started' \in SUBSET DOMAIN queue
    BY <1>1, <1>2 DEF QueueInv, QueueTypeOK
<1>4. /\ Resting(Ended("failed")) /\ DoneIn(Ended("failed"), started')
      /\ DOMAIN Ended("failed") = DOMAIN queue /\ Tail(calls) = <<>>
    BY <1>1, <1>3, EndedRests
<1>5. daily' \in 0..MaxDaily + 1 /\ hot' \in BOOLEAN
    BY <1>1, LimitedType DEF QueueInv, QueueTypeOK
<1>6. ProcessNext(Ended("failed"), <<>>)
    BY <1>4 DEF Lost
<1>. QED
    BY <1>1, <1>3, <1>4, <1>5, <1>6, ProcessNextKeepsInv

LEMMA EnqueueKeepsInv ==
    ASSUME QueueInv, NEW c \in Clusters, HandleOpenAsPlaylist(c)
    PROVE  QueueInv'
<1>. DEFINE new == [cluster |-> c, status |-> "pending"]
            q == Append(queue, new)
            hasRunning == \E i \in DOMAIN q : q[i].status = "running"
<1>1. new \in Entry /\ c \in Names
    BY DEF HandleOpenAsPlaylist, Entry, Status, Names
<1>2. queue \in Seq(Entry) /\ Len(queue) < MaxQueue /\ MaxQueue \in Nat
      /\ calls \in Seq(DOMAIN queue) /\ Len(calls) <= 1
    BY QueueAssumption
    DEF QueueInv, QueueTypeOK, OneStart, HandleOpenAsPlaylist, Entry, Status, Names
<1>3. /\ q \in Seq(Entry) /\ Len(q) = Len(queue) + 1 /\ Len(q) <= MaxQueue
      /\ DOMAIN q = DOMAIN queue \cup {Len(queue) + 1}
      /\ q[Len(queue) + 1] = new /\ \A i \in DOMAIN queue : q[i] = queue[i]
    BY <1>1, <1>2
<1>4. here' \in BOOLEAN /\ UNCHANGED <<daily, hot, started>> /\ Enqueue(c)
    BY DEF HandleOpenAsPlaylist
<1>. HIDE DEF q
<1>5. daily' \in 0..MaxDaily + 1 /\ hot' \in BOOLEAN /\ started' \subseteq DOMAIN q
    BY <1>3, <1>4 DEF QueueInv, QueueTypeOK
<1>6. DoneIn(q, started')
  <2>. SUFFICES ASSUME NEW i \in DOMAIN q, q[i].status = "done"
                PROVE  \E j \in started : q[j].cluster = q[i].cluster
      BY <1>4 DEF DoneIn
  <2>1. i \in DOMAIN queue /\ queue[i].status = "done"
      BY <1>3
  <2>2. PICK j \in started : queue[j].cluster = queue[i].cluster
      BY <2>1 DEF QueueInv, DoneWasStarted
  <2>3. j \in DOMAIN queue
      BY DEF QueueInv, QueueTypeOK
  <2>. QED
      BY <1>3, <2>1, <2>2, <2>3
<1>7. CASE hasRunning
  <2>1. queue' = q /\ calls' = calls
      BY <1>4, <1>7 DEF Enqueue, q
  <2>2. PICK k \in DOMAIN queue : queue[k].status = "running"
      BY <1>3, <1>7
  <2>3. calls # <<>>
      BY <2>2, <1>2 DEF QueueInv, OneStart
  <2>. DEFINE D == DOMAIN q
              D0 == DOMAIN queue
  <2>4. QueueTypeOK'
    <3>1. calls \in Seq(D)
      <4>1. calls \in Seq(D0) /\ D0 \subseteq D
          BY <1>2, <1>3
      <4>. HIDE DEF D, D0
      <4>2. \A i \in 1..Len(calls) : calls[i] \in D
          BY <4>1
      <4>. QED
          BY <4>1, <4>2
    <3>. QED
        BY <1>2, <1>3, <1>4, <1>5, <2>1, <3>1 DEF QueueTypeOK, Entry, Status, Names
  <2>8. \A i \in DOMAIN calls : calls[i] \in DOMAIN queue
    <3>1. calls \in Seq(D0)
        BY <1>2
    <3>. HIDE DEF D0
    <3>2. \A i \in DOMAIN calls : calls[i] \in D0
        BY <3>1
    <3>. QED
        BY <3>2 DEF D0
  <2>5. OneStart'
    <3>1. ASSUME NEW i \in DOMAIN q, q[i].status = "running"
          PROVE  \E j \in DOMAIN calls : q[calls[j]].cluster = q[i].cluster
      <4>1. i \in DOMAIN queue /\ queue[i].status = "running"
          BY <1>3, <3>1
      <4>2. PICK j \in DOMAIN calls : queue[calls[j]].cluster = queue[i].cluster
          BY <4>1 DEF QueueInv, OneStart
      <4>. QED
          BY <1>3, <2>8, <4>1, <4>2
    <3>. QED
        BY <1>2, <2>1, <2>3, <3>1 DEF OneStart
  <2>6. CallIsRunning'
    <3>1. PICK i \in DOMAIN queue : /\ queue[i].status = "running"
                                    /\ queue[i].cluster = queue[calls[1]].cluster
        BY <2>3 DEF QueueInv, CallIsRunning
    <3>2. 1 \in DOMAIN calls
        BY <2>2, <1>2, <2>3
    <3>. QED
        BY <1>3, <2>1, <2>8, <3>1, <3>2 DEF CallIsRunning
  <2>7. DoneWasStarted'
      BY <1>6, <2>1 DEF DoneIn, DoneWasStarted
  <2>. QED
      BY <2>4, <2>5, <2>6, <2>7 DEF QueueInv
<1>8. CASE ~hasRunning
  <2>1. calls = <<>>
      BY <1>3, <1>8 DEF QueueInv, CallIsRunning
  <2>2. ProcessNext(q, <<>>)
      BY <1>4, <1>8, <2>1 DEF Enqueue, q
  <2>3. Resting(q)
      BY <1>3, <1>8 DEF Resting
  <2>. QED
      BY <1>4, <1>5, <1>6, <2>2, <2>3, ProcessNextKeepsInv
<1>. QED
    BY <1>7, <1>8

LEMMA NextKeepsInv == QueueInv /\ [Next]_vars => QueueInv'
<1>. SUFFICES ASSUME QueueInv, [Next]_vars PROVE QueueInv'
    OBVIOUS
<1>1. ASSUME UNCHANGED <<queue, calls, started>>,
             here' \in BOOLEAN, daily' \in 0..MaxDaily + 1, hot' \in BOOLEAN
      PROVE  QueueInv'
    BY <1>1 DEF QueueInv, QueueTypeOK, OneStart, CallIsRunning, DoneWasStarted
<1>2. CASE UNCHANGED vars \/ ComeBack \/ IntervalExpires
    BY <1>1, <1>2 DEF vars, ComeBack, IntervalExpires, QueueInv, QueueTypeOK
<1>3. CASE NewDay
    BY <1>1, <1>3, QueueAssumption DEF NewDay, QueueInv, QueueTypeOK
<1>4. CASE StartElsewhere
    BY <1>1, <1>4, LimitedType DEF StartElsewhere, QueueInv, QueueTypeOK
<1>. QED
    BY <1>2, <1>3, <1>4, StartAnsweredKeepsInv, LostKeepsInv, EnqueueKeepsInv
    DEF Next, Start

-----------------------------------------------------------------------------
(* Theorems.                                                                *)

LEMMA AlwaysInv == Spec => []QueueInv
    BY InitInv, NextKeepsInv, PTL DEF Spec

\* The type invariant of queue, calls and limits.
THEOREM QueueTypeCorrect == Spec => []QueueTypeOK
<1>1. QueueInv => QueueTypeOK
    BY DEF QueueInv
<1>. QED
    BY <1>1, AlwaysInv, PTL

\* The queue has one start on its way at most, the one of its running entries, and
\* leaves no entry waiting for nothing, whatever is put in and whatever is refused.
THEOREM OneStartAlways == Spec => []OneStart
<1>1. QueueInv => OneStart
    BY DEF QueueInv
<1>. QED
    BY <1>1, AlwaysInv, PTL

\* Of every name that the queue calls done an entry was started, so that an entry that is
\* alone of its name was started itself; of entries that share a name one may be called
\* done for another (profileQueue.ts, processNext).
THEOREM DoneAlwaysStarted == Spec => []DoneWasStarted
<1>1. QueueInv => DoneWasStarted
    BY DEF QueueInv
<1>. QED
    BY <1>1, AlwaysInv, PTL

=============================================================================
