--------------------------- MODULE WorkbenchProofs ---------------------------
(***************************************************************************)
(* Proofs about Workbench, for every set of threads, songs and categories  *)
(* and every number of rounds and failed confirmations.                    *)
(***************************************************************************)
EXTENDS Workbench, TLAPS

-----------------------------------------------------------------------------
(* The values the actions build.                                            *)

LEMMA UsedIsCategories ==
    ASSUME NEW items \in Proposals
    PROVE  Used(items) \subseteq Categories
BY DEF Used, Proposals, NoItems

LEMMA NoItemsFacts ==
    NoItems \in Proposals /\ DOMAIN NoItems = {}
BY DEF Proposals, NoItems

LEMMA AbsentTyped ==
    /\ Absent \in StateResponse /\ Absent.status = "" /\ Absent.plan = NoItems
    /\ Classifying \in StateResponse /\ Classifying.status = "classifying"
<1>1. Absent \in StateResponse /\ Absent.status = "" /\ Absent.plan = NoItems
    BY WorkbenchAssumption, NoItemsFacts DEF Absent, StateResponse, Statuses
<1>. QED
    BY <1>1 DEF Classifying, StateResponse, Statuses

LEMMA InitialStoreTyped ==
    /\ InitialStore \in Store /\ InitialStore.threadId = "none"
    /\ InitialStore.status = "" /\ InitialStore.log = {}
    /\ InitialStore.results = NoResults /\ InitialStore.items = NoItems
BY WorkbenchAssumption, NoItemsFacts
DEF InitialStore, Store, Statuses, NoResults, Results

LEMMA AskFields ==
    ASSUME NEW op \in {"get", "stream", "feedback", "confirm", "cancel"},
           NEW t \in Threads
    PROVE  /\ Ask(op, t) \in Call
           /\ Ask(op, t).op = op /\ Ask(op, t).thread = t /\ Ask(op, t).mine
           /\ Ask(op, t).answer = Absent /\ Ask(op, t).drags = {}
           /\ Ask(op, t).todo = {}
BY AbsentTyped DEF Ask, Call

\* The call of the feedback button, and the results a confirmation leads to.
FeedbackCall(t, log) == [Ask("feedback", t) EXCEPT !.drags = log]
ShowResults(t, listed) == [store EXCEPT !.results = [of |-> t, listed |-> listed]]

LEMMA FeedbackCallFields ==
    ASSUME NEW t \in Threads, NEW log \in SUBSET DragFeedback
    PROVE  LET c == FeedbackCall(t, log)
           IN  /\ c \in Call /\ c.op = "feedback" /\ c.thread = t /\ c.mine
               /\ c.answer = Absent /\ c.drags = log
BY AbsentTyped DEF FeedbackCall, Ask, Call

LEMMA SetFromStateFields ==
    ASSUME store \in Store, NEW t \in Threads, NEW s \in StateResponse
    PROVE  LET new == SetFromState(t, s)
           IN  /\ new \in Store /\ new.threadId = t /\ new.status = s.status
               /\ new.items = s.proposal /\ new.log = store.log
               /\ new.results = store.results
BY DEF SetFromState, Store, StateResponse

LEMMA AnsweredFields ==
    ASSUME store \in Store, NEW t \in Threads, NEW s \in StateResponse
    PROVE  LET new == [SetFromState(t, s) EXCEPT !.log = {}]
           IN  /\ new \in Store /\ new.threadId = t /\ new.status = s.status
               /\ new.items = s.proposal /\ new.log = {}
               /\ new.results = store.results
BY DEF SetFromState, Store, StateResponse

LEMMA ErrorFields ==
    ASSUME store \in Store
    PROVE  LET new == [store EXCEPT !.error = TRUE]
           IN  /\ new \in Store /\ new.threadId = store.threadId
               /\ new.status = store.status /\ new.items = store.items
               /\ new.log = store.log /\ new.results = store.results
BY DEF Store

LEMMA ResultsFields ==
    ASSUME store \in Store, NEW t \in Threads, NEW listed \in SUBSET Categories
    PROVE  LET new == ShowResults(t, listed)
           IN  /\ new \in Store /\ new.threadId = store.threadId
               /\ new.status = store.status /\ new.items = store.items
               /\ new.log = store.log
               /\ new.results.of = t /\ new.results.listed = listed
               /\ new.results # NoResults
<1>1. [of |-> t, listed |-> listed] \in Results
    BY DEF Results
<1>2. [of |-> t, listed |-> listed].of # NoResults.of
    BY WorkbenchAssumption DEF NoResults
<1>. QED
    BY <1>1, <1>2 DEF ShowResults, Store

LEMMA MoveItemFields ==
    ASSUME store \in Store, NEW s \in Songs, NEW c \in Categories, page \in Threads,
           s \in DOMAIN store.items
    PROVE  /\ LET new == MoveItem(s, c)
              IN  /\ new \in Store /\ new.threadId = store.threadId
                  /\ new.status = store.status /\ new.results = store.results
                  /\ new.log = {d \in store.log : d.song # s} \cup {Moved(s, c)}
           /\ Moved(s, c) \in DragFeedback
           /\ Moved(s, c).song = s /\ Moved(s, c).on = page
<1>. DEFINE log == {d \in store.log : d.song # s} \cup {Moved(s, c)}
            items == [store.items EXCEPT ![s] = c]
<1>1. /\ Moved(s, c) \in DragFeedback
      /\ Moved(s, c).song = s /\ Moved(s, c).on = page
    BY DEF DragFeedback, Moved
<1>2. store.items \in [Songs -> Categories]
  <2>1. store.items \in Proposals
      BY DEF Store
  <2>. QED
      BY <2>1, NoItemsFacts DEF Proposals
<1>3. items \in Proposals
    BY <1>2 DEF Proposals
<1>4. log \in SUBSET DragFeedback
    BY <1>1 DEF Store
<1>5. MoveItem(s, c) = [store EXCEPT !.items = items, !.log = log]
    BY DEF MoveItem, Store
<1>. HIDE DEF log, items
<1>6. LET new == [store EXCEPT !.items = items, !.log = log]
      IN  /\ new \in Store /\ new.threadId = store.threadId
          /\ new.status = store.status /\ new.log = log
          /\ new.results = store.results
    BY <1>3, <1>4 DEF Store
<1>. QED
    BY <1>1, <1>5, <1>6 DEF log

\* A page that unmounts changes of a call only whose it is.
LEMMA UnmountedFields ==
    ASSUME NEW cs \in SUBSET Call
    PROVE  /\ Unmounted(cs) \subseteq Call
           /\ \A u \in Unmounted(cs) : \E c \in cs :
                 /\ u.op = c.op /\ u.thread = c.thread /\ u.answer = c.answer
                 /\ u.drags = c.drags /\ u.todo = c.todo
           /\ (\A c \in cs : c.op = "stream") => Unmounted(cs) = {}
<1>1. ASSUME NEW u \in Unmounted(cs)
      PROVE  /\ u \in Call
             /\ \E c \in cs :
                  /\ u.op = c.op /\ u.thread = c.thread /\ u.answer = c.answer
                  /\ u.drags = c.drags /\ u.todo = c.todo
  <2>1. PICK c \in cs : u = [c EXCEPT !.mine = FALSE]
      BY DEF Unmounted
  <2>2. c \in Call
      OBVIOUS
  <2>. QED
      BY <2>1, <2>2 DEF Call
<1>2. (\A c \in cs : c.op = "stream") => Unmounted(cs) = {}
    BY DEF Unmounted
<1>. QED
    BY <1>1, <1>2

LEMMA MountFacts ==
    ASSUME NEW t, Mount(t)
    PROVE  /\ page' = t
           /\ calls' \subseteq Unmounted(calls) \cup {Ask("get", t), Ask("stream", t)}
BY DEF Mount

\* Every way back to the list of songs resets the store.
LEMMA GoHomeFacts ==
    ASSUME TypeOK, NEW cs \in SUBSET calls, GoHome(cs)
    PROVE  /\ page' = "none" /\ store' = InitialStore /\ calls' = Unmounted(cs)
           /\ calls' \subseteq Call
           /\ \/ calls' = {} /\ disorder' = IF disorder = "now" THEN "over" ELSE disorder
              \/ disorder = "never" /\ disorder' = "now"
<1>1. cs \in SUBSET Call
    BY DEF TypeOK
<1>2. calls' = Unmounted(cs) /\ Ordered(cs)
    BY DEF GoHome
<1>3. Unmounted(cs) \subseteq Call /\ ((\A c \in cs : c.op = "stream") => Unmounted(cs) = {})
    BY <1>1, UnmountedFields
<1>. QED
    BY <1>2, <1>3 DEF GoHome, Reset, Ordered, Disorder

\* What a resume run makes of a thread.
LEMMA RefinedTyped ==
    ASSUME NEW s \in StateResponse, NEW r \in Refined(s)
    PROVE  /\ r \in StateResponse /\ (s.status # "" => r.status # "")
           /\ s.plan # NoItems => r = s
           /\ r.status = "finalized" =>
                 r = s \/ (r.plan = r.proposal /\ r.plan # NoItems)
<1>1. CASE s.plan # NoItems
    BY <1>1 DEF Refined
<1>2. CASE s.plan = NoItems /\ s.proposal = NoItems
  <2>1. PICK p \in [Songs -> Categories] :
            r = [s EXCEPT !.status = "awaiting_feedback", !.proposal = p]
      BY <1>2 DEF Refined
  <2>2. p \in Proposals
      BY DEF Proposals
  <2>. QED
      BY <1>2, <2>1, <2>2 DEF StateResponse, Statuses
<1>3. CASE s.plan = NoItems /\ s.proposal # NoItems /\ s.iteration = MaxIterations
  <2>1. r = [s EXCEPT !.status = "finalized", !.plan = s.proposal]
      BY <1>3 DEF Refined
  <2>. QED
      BY <1>3, <2>1 DEF StateResponse, Statuses
<1>4. CASE s.plan = NoItems /\ s.proposal # NoItems /\ s.iteration # MaxIterations
  <2>1. PICK p \in [Songs -> Categories] :
            r = [s EXCEPT !.status = "awaiting_feedback", !.iteration = @ + 1,
                          !.proposal = p]
      BY <1>4 DEF Refined
  <2>2. s.iteration + 1 \in 0..MaxIterations /\ p \in Proposals
      BY <1>4, WorkbenchAssumption DEF StateResponse, Proposals
  <2>. QED
      BY <1>4, <2>1, <2>2 DEF StateResponse, Statuses
<1>. QED
    BY <1>1, <1>2, <1>3, <1>4

\* What the end of the first run makes of a thread.
LEMMA ProposedTyped ==
    ASSUME NEW p \in [Songs -> Categories]
    PROVE  LET r == [Absent EXCEPT !.status = "awaiting_feedback", !.proposal = p]
           IN  r \in StateResponse /\ r.status = "awaiting_feedback"
BY AbsentTyped DEF StateResponse, Statuses, Proposals

LEMMA GivenUpTyped ==
    ASSUME NEW s \in StateResponse
    PROVE  LET r == [s EXCEPT !.status = "failed"]
           IN  r \in StateResponse /\ r.status = "failed"
BY DEF StateResponse, Statuses

LEMMA RefiningTyped ==
    ASSUME NEW s \in StateResponse
    PROVE  LET r == [s EXCEPT !.status = "refining"]
           IN  r \in StateResponse /\ r.status = "refining"
BY DEF StateResponse, Statuses

-----------------------------------------------------------------------------
(* Types.                                                                   *)

\* The history variable takes one way only.
LEMMA DisorderTyped ==
    ASSUME TypeOK
    PROVE  /\ Disorder => disorder = "never" /\ disorder' = "now"
           /\ Act => disorder # "now" /\ (disorder' = disorder \/ disorder' = "now")
BY DEF Disorder, Act

LEMMA UserTyped ==
    ASSUME TypeOK, User
    PROVE  TypeOK'
<1>. USE DEF TypeOK
<1>0. /\ Classifying \in StateResponse /\ page \in Threads \cup {"none"}
      /\ InitialStore \in Store /\ InitialStore.log = {}
    BY AbsentTyped, InitialStoreTyped
<1>1. ASSUME NEW t \in Threads, Mount(t)
      PROVE  page' \in Threads /\ calls' \subseteq Call
  <2>1. Unmounted(calls) \subseteq Call
      BY UnmountedFields
  <2>2. {Ask("get", t), Ask("stream", t)} \subseteq Call
      BY AskFields
  <2>. QED
      BY <1>1, <2>1, <2>2, MountFacts
<1>2. ASSUME NEW t \in Threads, Start(t)
      PROVE  TypeOK'
  <2>1. /\ Mount(t) /\ server' = [server EXCEPT ![t] = Classifying]
        /\ first' = [first EXCEPT ![t] = "alone"]
        /\ UNCHANGED <<built, failed, store, cache, disorder>>
      BY <1>2 DEF Start
  <2>2. page' \in Threads /\ calls' \subseteq Call
      BY <1>1, <2>1
  <2>3. server' \in [Threads -> StateResponse]
      BY <1>0, <2>1
  <2>. QED
      BY <2>1, <2>2, <2>3
<1>3. ASSUME NEW t \in Threads, Return(t)
      PROVE  TypeOK'
  <2>1. page' \in Threads /\ calls' \subseteq Call
      BY <1>1, <1>3 DEF Return
  <2>. QED
      BY <1>3, <2>1 DEF Return, Disorder
<1>4. CASE Leave
  <2>1. Unmounted(calls) \subseteq Call
      BY UnmountedFields
  <2>. QED
      BY <1>4, <2>1 DEF Leave, Disorder
<1>5. CASE Done \/ Dismiss
  <2>1. GoHome(calls) /\ UNCHANGED <<server, first, built, failed, cache>>
      BY <1>5 DEF Done, Dismiss
  <2>2. /\ page' = "none" /\ store' = InitialStore /\ calls' \subseteq Call
        /\ disorder' \in {"never", "now", "over"}
      BY <2>1, GoHomeFacts
  <2>. QED
      BY <1>0, <2>1, <2>2
<1>6. ASSUME NEW s \in Songs, NEW c \in Categories, Drag(s, c)
      PROVE  TypeOK'
  <2>1. /\ page \in Threads /\ s \in DOMAIN store.items /\ store' = MoveItem(s, c)
        /\ UNCHANGED <<server, first, built, failed, page, cache, calls>>
        /\ disorder' \in {"never", "now", "over"}
      BY <1>6, DisorderTyped DEF Drag, Board, SongCard
  <2>2. /\ store' \in Store /\ Moved(s, c).song = s
        /\ store'.log = {d \in store.log : d.song # s} \cup {Moved(s, c)}
      BY <2>1, MoveItemFields
  <2>3. \A d, e \in store'.log : d.song = e.song => d = e
      BY <2>2
  <2>. QED
      BY <2>1, <2>2, <2>3
<1>7. CASE SubmitFeedback
  <2>1. /\ page \in Threads /\ store.log \in SUBSET DragFeedback
        /\ calls' = calls \cup {FeedbackCall(page, store.log)}
        /\ UNCHANGED <<server, first, built, failed, page, store, cache>>
        /\ disorder' \in {"never", "now", "over"}
      BY <1>7, DisorderTyped DEF SubmitFeedback, FeedbackCall, Board, Store
  <2>2. calls' \subseteq Call
      BY <2>1, FeedbackCallFields
  <2>. QED
      BY <2>1, <2>2
<1>8. CASE Confirm \/ Cancel
  <2>1. /\ page \in Threads
        /\ calls' = calls \cup {Ask("confirm", page)} \/ calls' = calls \cup {Ask("cancel", page)}
        /\ UNCHANGED <<server, first, built, failed, page, store, cache>>
        /\ disorder' \in {"never", "now", "over"}
      BY <1>8, DisorderTyped DEF Confirm, Cancel, Board
  <2>2. calls' \subseteq Call
      BY <2>1, AskFields
  <2>. QED
      BY <2>1, <2>2
<1>. QED
    BY <1>2, <1>3, <1>4, <1>5, <1>6, <1>7, <1>8 DEF User

\* What a published state makes of the calls.
LEMMA PublishFacts ==
    ASSUME TypeOK, NEW t \in Threads, NEW s \in StateResponse, Publish(t, s)
    PROVE  /\ calls' \subseteq Call
           /\ \A u \in calls' : \E c \in calls :
                 /\ u.op = c.op /\ u.thread = c.thread /\ u.mine = c.mine
                 /\ u.drags = c.drags /\ u.todo = c.todo
                 /\ u.answer = c.answer \/ (u.op = "stream" /\ u.thread = t /\ u.answer = s)
                 /\ u.op # "stream" => u = c
           /\ \A c \in calls : c.op # "stream" => c \in calls'
<1>1. calls \subseteq Call
    BY DEF TypeOK
<1>2. PICK heard \in SUBSET {c \in calls : c.op = "stream" /\ c.thread = t} :
        calls' = (calls \ heard) \cup {[c EXCEPT !.answer = s] : c \in heard}
    BY DEF Publish
<1>3. ASSUME NEW u \in calls'
      PROVE  /\ u \in Call
             /\ \E c \in calls :
                 /\ u.op = c.op /\ u.thread = c.thread /\ u.mine = c.mine
                 /\ u.drags = c.drags /\ u.todo = c.todo
                 /\ u.answer = c.answer \/ (u.op = "stream" /\ u.thread = t /\ u.answer = s)
                 /\ u.op # "stream" => u = c
  <2>1. CASE u \in calls
      BY <1>1, <2>1
  <2>2. CASE u \notin calls
    <3>1. PICK c \in heard : u = [c EXCEPT !.answer = s]
        BY <1>2, <2>2
    <3>2. c \in calls /\ c \in Call /\ c.op = "stream" /\ c.thread = t
        BY <1>1
    <3>3. /\ u \in Call /\ u.op = "stream" /\ u.thread = t /\ u.answer = s
          /\ u.mine = c.mine /\ u.drags = c.drags /\ u.todo = c.todo
        BY <3>1, <3>2 DEF Call
    <3>. QED
        BY <3>2, <3>3
  <2>. QED
      BY <2>1, <2>2
<1>4. ASSUME NEW c \in calls, c.op # "stream"
      PROVE  c \in calls'
    BY <1>2, <1>4
<1>. QED
    BY <1>3, <1>4

\* What the end of the first run does to its thread.
LEMMA FirstRunEnds ==
    ASSUME TypeOK, NEW t \in Threads, Propose(t) \/ GiveUp(t)
    PROVE  /\ first[t] \in {"alone", "joined"}
           /\ first'[t] = IF first[t] = "alone" THEN "ended" ELSE "overtook"
           /\ first' \in [Threads -> {"none", "alone", "joined", "ended", "overtook"}]
           /\ \A r \in Threads \ {t} : first'[r] = first[r]
           /\ UNCHANGED <<built, failed, page, store, cache, disorder>>
           /\ \E s \in StateResponse :
                 /\ s.status \in {"awaiting_feedback", "failed"} /\ Publish(t, s)
                 /\ server' \in {server, [server EXCEPT ![t] = s]}
<1>1. server[t] \in StateResponse
    BY DEF TypeOK
<1>2. /\ Ends(t) /\ UNCHANGED <<built, failed, page, store, cache, disorder>>
    BY DEF Propose, GiveUp
<1>3. \E s \in StateResponse :
          /\ s.status \in {"awaiting_feedback", "failed"} /\ Publish(t, s)
          /\ server' \in {server, [server EXCEPT ![t] = s]}
    BY <1>1, ProposedTyped, GivenUpTyped DEF Propose, GiveUp
<1>. QED
    BY <1>2, <1>3 DEF Ends, TypeOK

\* What reading the checkpoint makes of a call.
LEMMA ReadFacts ==
    ASSUME TypeOK, NEW c \in calls, Read(c)
    PROVE  /\ UNCHANGED <<server, first, built, failed, page, store, cache, disorder>>
           /\ c.op # "feedback" /\ c.answer = Absent
           /\ \E u \in Call :
                 /\ calls' = (calls \ {c}) \cup {u}
                 /\ u.op = c.op /\ u.thread = c.thread /\ u.mine = c.mine
                 /\ u.drags = c.drags /\ u.answer = server[c.thread]
                 /\ u.op = "confirm" => u.todo = Used(server[c.thread].plan)
<1>. DEFINE s == server[c.thread]
            todo == IF c.op = "confirm" THEN Used(s.plan) ELSE {}
            u == [c EXCEPT !.answer = s, !.todo = todo]
<1>1. c \in Call /\ s \in StateResponse
    BY DEF TypeOK, Call
<1>2. todo \in SUBSET Categories
    BY <1>1, UsedIsCategories DEF StateResponse
<1>3. calls' = (calls \ {c}) \cup {u}
    BY DEF Read
<1>4. c.op = "confirm" => todo = Used(server[c.thread].plan)
    OBVIOUS
<1>5. s = server[c.thread]
    OBVIOUS
<1>. HIDE DEF s, todo
<1>6. /\ u \in Call /\ u.op = c.op /\ u.thread = c.thread /\ u.mine = c.mine
      /\ u.drags = c.drags /\ u.answer = s /\ u.todo = todo
    BY <1>1, <1>2 DEF Call
<1>. HIDE DEF u
<1>7. u.op = "confirm" => u.todo = Used(server[c.thread].plan)
    BY <1>4, <1>6
<1>. QED
    BY <1>3, <1>5, <1>6, <1>7 DEF Read

LEMMA ServerTyped ==
    ASSUME TypeOK, Server
    PROVE  TypeOK'
<1>. USE DEF TypeOK
<1>1. ASSUME NEW t \in Threads, Propose(t) \/ GiveUp(t)
      PROVE  TypeOK'
  <2>1. PICK s \in StateResponse :
            Publish(t, s) /\ server' \in {server, [server EXCEPT ![t] = s]}
      BY <1>1, FirstRunEnds
  <2>2. calls' \subseteq Call
      BY <2>1, PublishFacts
  <2>3. server' \in [Threads -> StateResponse]
      BY <2>1
  <2>. QED
      BY <1>1, <2>2, <2>3, FirstRunEnds
<1>2. ASSUME NEW t \in Threads, NextBatch(t)
      PROVE  TypeOK'
    BY <1>2, AbsentTyped DEF NextBatch
<1>5. ASSUME NEW c \in calls, Read(c)
      PROVE  TypeOK'
    BY <1>5, ReadFacts
<1>6. ASSUME NEW c \in calls, TakeFeedback(c)
      PROVE  TypeOK'
  <2>1. c \in Call /\ c.thread \in Threads /\ server[c.thread] \in StateResponse
      BY DEF Call
  <2>2. [server[c.thread] EXCEPT !.status = "refining"] \in StateResponse
      BY <2>1, RefiningTyped
  <2>3. server' \in [Threads -> StateResponse]
      BY <1>6, <2>1, <2>2 DEF TakeFeedback
  <2>. QED
      BY <1>6, <2>3 DEF TakeFeedback
<1>3. ASSUME NEW c \in calls, Refine(c)
      PROVE  TypeOK'
  <2>1. c \in Call /\ c.thread \in Threads /\ server[c.thread] \in StateResponse
      BY DEF Call
  <2>2. PICK s \in Refined(server[c.thread]) :
            /\ server' = [server EXCEPT ![c.thread] = s]
            /\ calls' = (calls \ {c}) \cup {[c EXCEPT !.answer = s]}
      BY <1>3 DEF Refine
  <2>3. s \in StateResponse
      BY <2>1, RefinedTyped
  <2>4. [c EXCEPT !.answer = s] \in Call
      BY <2>1, <2>3 DEF Call
  <2>5. server' \in [Threads -> StateResponse] /\ calls' \subseteq Call
      BY <2>1, <2>2, <2>3, <2>4
  <2>6. first' \in [Threads -> {"none", "alone", "joined", "ended", "overtook"}]
      BY <1>3, <2>1 DEF Refine
  <2>. QED
      BY <1>3, <2>5, <2>6 DEF Refine
<1>4. ASSUME NEW c \in calls, NEW k \in Categories, CreateSonglist(c, k)
      PROVE  TypeOK'
  <2>1. c \in Call /\ c.thread \in Threads /\ c.todo \ {k} \in SUBSET Categories
      BY DEF Call
  <2>2. [c EXCEPT !.todo = @ \ {k}] \in Call
      BY <2>1 DEF Call
  <2>3. built[c.thread][k] + 1 \in Nat
      BY <2>1
  <2>4. built' \in [Threads -> [Categories -> Nat]]
      BY <1>4, <2>1, <2>3 DEF CreateSonglist
  <2>5. calls' \subseteq Call
      BY <1>4, <2>2 DEF CreateSonglist
  <2>. QED
      BY <1>4, <2>4, <2>5 DEF CreateSonglist
<1>. QED
    BY <1>1, <1>2, <1>3, <1>4, <1>5, <1>6 DEF Server

LEMMA AnswerTyped ==
    ASSUME TypeOK, Answer
    PROVE  TypeOK'
<1>. USE DEF TypeOK
<1>. SUFFICES ASSUME NEW c \in calls,
                     \/ GetAnswered(c) \/ StreamEnds(c) \/ FeedbackAnswered(c)
                     \/ ConfirmAnswered(c) \/ ConfirmFails(c) \/ Fails(c)
                     \/ CancelAnswered(c)
              PROVE  TypeOK'
    BY DEF Answer
<1>0. /\ c.thread \in Threads /\ c.answer \in StateResponse
      /\ Used(c.answer.plan) \in SUBSET Categories
  <2>1. c \in Call
      OBVIOUS
  <2>. QED
      BY <2>1, UsedIsCategories DEF Call, StateResponse
<1>1. CASE GetAnswered(c)
    BY <1>0, <1>1, SetFromStateFields DEF GetAnswered
<1>2. CASE StreamEnds(c)
    BY <1>0, <1>2, SetFromStateFields, ErrorFields DEF StreamEnds
<1>3. CASE FeedbackAnswered(c)
  <2>1. /\ store' = [SetFromState(c.thread, c.answer) EXCEPT !.log = {}]
        /\ \/ cache' = [cache EXCEPT ![c.thread] = "stale"]
           \/ cache' = cache
        /\ \/ calls' = calls \ {c}
           \/ page \in Threads /\ calls' = (calls \ {c}) \cup {Ask("get", page)}
        /\ UNCHANGED <<server, first, built, failed, page, disorder>>
      BY <1>0, <1>3 DEF FeedbackAnswered
  <2>2. store' \in Store /\ store'.log = {}
      BY <1>0, <2>1, AnsweredFields
  <2>3. page \in Threads => Ask("get", page) \in Call
      BY AskFields
  <2>. QED
      BY <1>0, <2>1, <2>2, <2>3
<1>4. CASE ConfirmAnswered(c)
  <2>1. /\ store' = ShowResults(c.thread, Used(c.answer.plan)) /\ calls' = calls \ {c}
        /\ UNCHANGED <<server, first, built, failed, page, cache, disorder>>
      BY <1>4 DEF ConfirmAnswered, ShowResults
  <2>. QED
      BY <1>0, <2>1, ResultsFields
<1>5. CASE ConfirmFails(c)
  <2>1. failed[c.thread] + 1 \in 0..MaxFailures
      BY <1>0, <1>5, WorkbenchAssumption DEF ConfirmFails
  <2>. QED
      BY <1>0, <1>5, <2>1 DEF ConfirmFails
<1>6. CASE Fails(c)
    BY <1>6 DEF Fails
<1>7. CASE CancelAnswered(c)
  <2>1. GoHome(calls \ {c}) /\ UNCHANGED <<server, first, built, failed, cache>>
      BY <1>7 DEF CancelAnswered
  <2>2. /\ page' = "none" /\ store' = InitialStore /\ calls' \subseteq Call
        /\ disorder' \in {"never", "now", "over"}
      BY <2>1, GoHomeFacts
  <2>. QED
      BY <2>1, <2>2, InitialStoreTyped
<1>. QED
    BY <1>1, <1>2, <1>3, <1>4, <1>5, <1>6, <1>7

LEMMA WorkbenchTypeInit == Init => TypeOK
<1>. SUFFICES ASSUME Init PROVE TypeOK
    OBVIOUS
<1>1. server \in [Threads -> StateResponse] /\ store \in Store /\ store.log = {}
    BY AbsentTyped, InitialStoreTyped DEF Init
<1>2. /\ built \in [Threads -> [Categories -> Nat]]
      /\ failed \in [Threads -> 0..MaxFailures]
    BY WorkbenchAssumption DEF Init
<1>. QED
    BY <1>1, <1>2 DEF Init, TypeOK

\* Every variable keeps its type, and the drag log one entry for a song.
THEOREM WorkbenchTypeCorrect == Spec => []TypeOK
<1>1. TypeOK /\ [Next]_vars => TypeOK'
  <2>1. TypeOK /\ UNCHANGED vars => TypeOK'
      BY DEF TypeOK, vars
  <2>. QED
      BY <2>1, UserTyped, ServerTyped, AnswerTyped DEF Next
<1>. QED
    BY <1>1, WorkbenchTypeInit, PTL DEF Spec

-----------------------------------------------------------------------------
(* The inductive invariant.                                                 *)

\* Whatever the user does: nothing comes after "finalized" for a thread whose runs
\* did not race, nor for an answer that says so, however late it arrives.
Terminal ==
    /\ \A t \in Threads : first[t] = "alone" => server[t].status = "classifying"
    /\ \A t \in Threads : server[t].status = "" => first[t] = "none"
    /\ \A t \in Threads :
          server[t].status = "finalized" =>
              server[t].plan = server[t].proposal /\ server[t].plan # NoItems
    /\ \A c \in calls :
          ~Raced(c.thread) /\ c.answer.status = "finalized" => c.answer = server[c.thread]

\* What is recorded is sent with every feedback on its way, or came after it.
SentOrLate ==
    \A c \in calls : c.op = "feedback" => \A d \in store.log : d \in c.drags \/ d.late

\* In order, the store and all that is on its way belong to the page.
Own ==
    /\ page = "none" => calls = {} /\ store = InitialStore
    /\ page # "none" => server[page].status # ""
    /\ \A c \in calls :
          c.thread = page /\ c.mine /\ \A d \in c.drags : d.on = page
    /\ store.threadId \in {"none", page}
    /\ \A d \in store.log : d.on = page

Confirmations == {c \in calls : c.op = "confirm"}

\* In order and without a race, the board, a confirmation and its results speak of
\* the plan of the thread, and what is ticked off has a list.
Agreed ==
    /\ store.status = "finalized" =>
          /\ server[page].status = "finalized"
          /\ store.log = {} => store.items = server[page].plan
    /\ \A c \in Confirmations :
          /\ server[page].status = "finalized"
          /\ c.answer # Absent =>
                /\ c.answer = server[page]
                /\ \A k \in Used(c.answer.plan) \ c.todo : built[page][k] > 0
    /\ store.results # NoResults =>
          /\ server[page].status = "finalized" /\ store.results.of = page
          /\ store.results.listed = Used(server[page].plan)
          /\ \A k \in store.results.listed : built[page][k] > 0

\* As long as there was no disorder, one confirmation at a time works through its
\* categories, and there is none after a successful one.
Paid ==
    /\ \A t \in Threads, k \in Categories :
          /\ built[t][k] <= 1 + failed[t]
          /\ server[t].status = "" => built[t][k] = 0
    /\ \A c, d \in Confirmations : c = d
    /\ \A c \in Confirmations :
          /\ store.results = NoResults
          /\ c.answer = Absent => c.todo = {}
          /\ \A k \in Categories :
                k \in c.todo \/ c.answer = Absent => built[page][k] <= failed[page]
    /\ page # "none" /\ store.results = NoResults /\ Confirmations = {} =>
          \A k \in Categories : built[page][k] <= failed[page]

WorkbenchInv ==
    /\ TypeOK
    /\ Terminal
    /\ SentOrLate
    /\ disorder # "now" => Own /\ (~Raced(page) => Agreed)
    /\ disorder = "never" => Paid

-----------------------------------------------------------------------------
(* Nothing comes after "finalized".                                         *)

LEMMA TerminalKept ==
    ASSUME Terminal,
           \A t \in Threads : Raced(t) => Raced(t)',
           \A t \in Threads : first'[t] = "alone" => server'[t].status = "classifying",
           \A t \in Threads : server'[t].status = "" => first'[t] = "none",
           \A u \in calls' :
               \/ \E c \in calls : u.thread = c.thread /\ u.answer = c.answer
               \/ u.answer = server'[u.thread]
               \/ u.answer.status # "finalized",
           \A c \in calls : c.thread \in Threads,
           \A t \in Threads :
               \/ server'[t] = server[t]
               \/ /\ Raced(t)' \/ server[t].status # "finalized"
                  /\ server'[t].status = "finalized" =>
                        server'[t].plan = server'[t].proposal /\ server'[t].plan # NoItems
    PROVE  Terminal'
<1>1. ASSUME NEW u \in calls', ~Raced(u.thread)', u.answer.status = "finalized"
      PROVE  u.answer = server'[u.thread]
  <2>1. CASE \E c \in calls : u.thread = c.thread /\ u.answer = c.answer
    <3>1. PICK c \in calls : u.thread = c.thread /\ u.answer = c.answer
        BY <2>1
    <3>2. ~Raced(c.thread)' /\ c.thread \in Threads
        BY <1>1, <3>1
    <3>3. c.answer = server[c.thread]
        BY <1>1, <3>1, <3>2 DEF Terminal
    <3>. QED
        BY <1>1, <3>1, <3>2, <3>3
  <2>. QED
      BY <1>1, <2>1
<1>. HIDE DEF Raced
<1>. QED
    BY <1>1 DEF Terminal

\* Steps that leave server and first run alone.
LEMMA TerminalUnchanged ==
    ASSUME Terminal, UNCHANGED <<server, first>>,
           \A u \in calls' :
               \/ \E c \in calls : u.thread = c.thread /\ u.answer = c.answer
               \/ u.answer = server[u.thread]
               \/ u.answer.status # "finalized",
           \A c \in calls : c.thread \in Threads
    PROVE  Terminal'
BY TerminalKept DEF Terminal, Raced

LEMMA CallTyped ==
    ASSUME TypeOK, NEW c \in calls
    PROVE  /\ c \in Call /\ c.thread \in Threads /\ c.answer \in StateResponse
           /\ c.todo \in SUBSET Categories /\ server[c.thread] \in StateResponse
BY DEF TypeOK, Call

LEMMA UserTerminal ==
    ASSUME TypeOK, Terminal, User
    PROVE  Terminal'
<1>0. /\ \A c \in calls : c.thread \in Threads
      /\ calls \in SUBSET Call /\ server \in [Threads -> StateResponse]
    BY CallTyped DEF TypeOK
<1>1. ASSUME NEW t \in Threads, Mount(t)
      PROVE  \A u \in calls' :
               \/ \E c \in calls : u.thread = c.thread /\ u.answer = c.answer
               \/ u.answer.status # "finalized"
  <2>. TAKE u \in calls'
  <2>1. CASE u \in Unmounted(calls)
      BY <1>0, <2>1, UnmountedFields
  <2>2. CASE u \in {Ask("get", t), Ask("stream", t)}
    <3>1. u.answer = Absent
        BY <2>2 DEF Ask
    <3>. QED
        BY <3>1, AbsentTyped
  <2>. QED
      BY <1>1, <2>1, <2>2, MountFacts
<1>2. ASSUME NEW t \in Threads, Start(t)
      PROVE  Terminal'
  <2>1. /\ Mount(t) /\ server' = [server EXCEPT ![t] = Classifying] /\ server[t] = Absent
        /\ first' = [first EXCEPT ![t] = "alone"]
      BY <1>2 DEF Start
  <2>2. /\ server'[t] = Classifying /\ \A r \in Threads \ {t} : server'[r] = server[r]
        /\ \A r \in Threads \ {t} : first'[r] = first[r]
      BY <1>0, <2>1 DEF TypeOK
  <2>3. \A u \in calls' :
               \/ \E c \in calls : u.thread = c.thread /\ u.answer = c.answer
               \/ u.answer.status # "finalized"
      BY <1>1, <2>1
  <2>4. server[t].status = "" /\ server'[t].status = "classifying"
      BY <2>1, <2>2, AbsentTyped
  <2>5. ~Raced(t)
      BY <2>4 DEF Raced, Terminal
  <2>. QED
      BY <1>0, <2>2, <2>3, <2>4, <2>5, TerminalKept DEF Terminal, Raced
<1>3. CASE (\E t \in Threads : Return(t)) \/ Leave \/ Done \/ Dismiss
  <2>1. /\ UNCHANGED <<server, first>>
        /\ calls' = Unmounted(calls) \/ \E t \in Threads : Mount(t)
      BY <1>3 DEF Return, Leave, Done, Dismiss, GoHome
  <2>2. \A u \in calls' :
               \/ \E c \in calls : u.thread = c.thread /\ u.answer = c.answer
               \/ u.answer.status # "finalized"
      BY <1>0, <1>1, <2>1, UnmountedFields
  <2>. QED
      BY <1>0, <2>1, <2>2, TerminalUnchanged
<1>5. ASSUME NEW s \in Songs, NEW c \in Categories, Drag(s, c)
      PROVE  Terminal'
    BY <1>5 DEF Drag, Terminal, Raced
<1>6. CASE SubmitFeedback
  <2>1. /\ page \in Threads /\ store.log \in SUBSET DragFeedback
        /\ UNCHANGED <<server, first>>
        /\ calls' = calls \cup {FeedbackCall(page, store.log)}
      BY <1>6 DEF SubmitFeedback, FeedbackCall, Board, TypeOK, Store
  <2>2. FeedbackCall(page, store.log).answer = Absent
      BY <2>1, FeedbackCallFields
  <2>. QED
      BY <1>0, <2>1, <2>2, AbsentTyped, TerminalUnchanged
<1>7. CASE Confirm \/ Cancel
  <2>1. /\ UNCHANGED <<server, first>>
        /\ \E op \in {"confirm", "cancel"} : calls' = calls \cup {Ask(op, page)}
      BY <1>7 DEF Confirm, Cancel
  <2>2. \A op : Ask(op, page).answer = Absent
      BY DEF Ask
  <2>. QED
      BY <1>0, <2>1, <2>2, AbsentTyped, TerminalUnchanged
<1>. QED
    BY <1>2, <1>3, <1>5, <1>6, <1>7 DEF User

\* What a resume run does to its call and its thread.
LEMMA RefineFacts ==
    ASSUME TypeOK, NEW c \in calls, Refine(c)
    PROVE  /\ UNCHANGED <<built, failed, page, store, cache, disorder>>
           /\ c.op = "feedback" /\ c.thread \in Threads
           /\ first'[c.thread] = IF first[c.thread] = "alone" THEN "joined" ELSE first[c.thread]
           /\ \A r \in Threads \ {c.thread} : first'[r] = first[r]
           /\ \E s \in StateResponse, u \in Call :
                 /\ server' = [server EXCEPT ![c.thread] = s]
                 /\ calls' = (calls \ {c}) \cup {u}
                 /\ u.op = "feedback" /\ u.thread = c.thread /\ u.mine = c.mine
                 /\ u.drags = c.drags /\ u.answer = s
                 /\ server[c.thread].status # "" => s.status # ""
                 /\ server[c.thread].plan # NoItems => s = server[c.thread]
                 /\ s.status = "finalized" =>
                       s = server[c.thread] \/ (s.plan = s.proposal /\ s.plan # NoItems)
<1>1. PICK s \in Refined(server[c.thread]) :
          /\ server' = [server EXCEPT ![c.thread] = s]
          /\ calls' = (calls \ {c}) \cup {[c EXCEPT !.answer = s]}
    BY DEF Refine
<1>2. c \in Call /\ server[c.thread] \in StateResponse /\ c.op = "feedback"
    BY CallTyped DEF Refine
<1>3. /\ s \in StateResponse /\ (server[c.thread].status # "" => s.status # "")
      /\ server[c.thread].plan # NoItems => s = server[c.thread]
      /\ s.status = "finalized" =>
            s = server[c.thread] \/ (s.plan = s.proposal /\ s.plan # NoItems)
    BY <1>2, RefinedTyped
<1>. DEFINE u == [c EXCEPT !.answer = s]
<1>4. /\ u \in Call /\ u.op = "feedback" /\ u.thread = c.thread /\ u.mine = c.mine
      /\ u.drags = c.drags /\ u.answer = s
    BY <1>2, <1>3 DEF Call
<1>5. calls' = (calls \ {c}) \cup {u}
    BY <1>1
<1>. HIDE DEF u
<1>6. \E r \in StateResponse, v \in Call :
                 /\ server' = [server EXCEPT ![c.thread] = r]
                 /\ calls' = (calls \ {c}) \cup {v}
                 /\ v.op = "feedback" /\ v.thread = c.thread /\ v.mine = c.mine
                 /\ v.drags = c.drags /\ v.answer = r
                 /\ server[c.thread].status # "" => r.status # ""
                 /\ server[c.thread].plan # NoItems => r = server[c.thread]
                 /\ r.status = "finalized" =>
                       r = server[c.thread] \/ (r.plan = r.proposal /\ r.plan # NoItems)
    BY <1>1, <1>3, <1>4, <1>5
<1>7. /\ c.thread \in Threads
      /\ first'[c.thread] = IF first[c.thread] = "alone" THEN "joined" ELSE first[c.thread]
      /\ \A r \in Threads \ {c.thread} : first'[r] = first[r]
    BY CallTyped DEF Refine, TypeOK
<1>. QED
    BY <1>2, <1>6, <1>7 DEF Refine

\* What the taking of a feedback does to its thread.
LEMMA TakeFacts ==
    ASSUME TypeOK, NEW c \in calls, TakeFeedback(c)
    PROVE  /\ UNCHANGED <<first, built, failed, page, store, cache, calls, disorder>>
           /\ c.thread \in Threads
           /\ server[c.thread].status = "awaiting_feedback"
           /\ server'[c.thread].status = "refining"
           /\ \A r \in Threads \ {c.thread} : server'[r] = server[r]
<1>1. c.thread \in Threads /\ server[c.thread] \in StateResponse
    BY CallTyped
<1>2. server' = [server EXCEPT ![c.thread] = [server[c.thread] EXCEPT !.status = "refining"]]
    BY <1>1 DEF TakeFeedback, TypeOK
<1>3. server'[c.thread] = [server[c.thread] EXCEPT !.status = "refining"]
    BY <1>1, <1>2 DEF TypeOK
<1>4. server'[c.thread].status = "refining"
    BY <1>1, <1>3, RefiningTyped
<1>5. \A r \in Threads \ {c.thread} : server'[r] = server[r]
    BY <1>2 DEF TypeOK
<1>. QED
    BY <1>1, <1>4, <1>5 DEF TakeFeedback

\* The next batch of a first run that a resume run has joined.
LEMMA BatchFacts ==
    ASSUME TypeOK, NEW t \in Threads, NextBatch(t)
    PROVE  /\ UNCHANGED <<first, built, failed, page, store, cache, calls, disorder>>
           /\ first[t] = "joined" /\ server'[t].status = "classifying"
           /\ \A r \in Threads \ {t} : server'[r] = server[r]
BY AbsentTyped DEF NextBatch, TypeOK

\* What one category of a confirmation does to it.
LEMMA CreateFacts ==
    ASSUME TypeOK, NEW c \in calls, NEW k \in Categories, CreateSonglist(c, k)
    PROVE  /\ c.op = "confirm" /\ k \in c.todo /\ c.thread \in Threads
           /\ UNCHANGED <<server, first, failed, page, store, cache, disorder>>
           /\ built'[c.thread][k] = built[c.thread][k] + 1
           /\ \A t \in Threads, j \in Categories :
                 t # c.thread \/ j # k => built'[t][j] = built[t][j]
           /\ \E u \in Call :
                 /\ calls' = (calls \ {c}) \cup {u}
                 /\ u.op = "confirm" /\ u.thread = c.thread /\ u.mine = c.mine
                 /\ u.drags = c.drags /\ u.answer = c.answer /\ u.todo = c.todo \ {k}
<1>1. c \in Call /\ c.thread \in Threads /\ built \in [Threads -> [Categories -> Nat]]
    BY CallTyped DEF TypeOK
<1>. DEFINE u == [c EXCEPT !.todo = @ \ {k}]
<1>2. /\ u \in Call /\ u.op = c.op /\ u.thread = c.thread /\ u.mine = c.mine
      /\ u.drags = c.drags /\ u.answer = c.answer /\ u.todo = c.todo \ {k}
    BY <1>1 DEF Call
<1>3. c.op = "confirm" /\ k \in c.todo /\ calls' = (calls \ {c}) \cup {u}
    BY DEF CreateSonglist
<1>. HIDE DEF u
<1>4. built' = [built EXCEPT ![c.thread][k] = @ + 1]
    BY DEF CreateSonglist
<1>5. /\ built'[c.thread][k] = built[c.thread][k] + 1
      /\ \A t \in Threads, j \in Categories :
            t # c.thread \/ j # k => built'[t][j] = built[t][j]
    BY <1>1, <1>4
<1>. QED
    BY <1>1, <1>2, <1>3, <1>5 DEF CreateSonglist

LEMMA ServerTerminal ==
    ASSUME TypeOK, Terminal, Server
    PROVE  Terminal'
<1>0. /\ \A c \in calls : c.thread \in Threads
      /\ server \in [Threads -> StateResponse]
    BY CallTyped DEF TypeOK
<1>1. ASSUME NEW t \in Threads, Propose(t) \/ GiveUp(t)
      PROVE  Terminal'
  <2>1. PICK s \in StateResponse :
            /\ s.status \in {"awaiting_feedback", "failed"} /\ Publish(t, s)
            /\ server' \in {server, [server EXCEPT ![t] = s]}
      BY <1>1, FirstRunEnds
  <2>2. \A u \in calls' :
               \/ \E c \in calls : u.thread = c.thread /\ u.answer = c.answer
               \/ u.answer.status # "finalized"
      BY <2>1, PublishFacts
  <2>3. /\ first[t] \in {"alone", "joined"}
        /\ first'[t] = IF first[t] = "alone" THEN "ended" ELSE "overtook"
        /\ \A r \in Threads \ {t} : first'[r] = first[r] /\ server'[r] = server[r]
        /\ server'[t] = server[t] \/ server'[t].status \in {"awaiting_feedback", "failed"}
      BY <1>0, <1>1, <2>1, FirstRunEnds
  <2>4. \A r \in Threads : Raced(r) => Raced(r)'
      BY <2>3 DEF Raced
  <2>5. server[t].status # "" /\ (first[t] = "alone" => server[t].status = "classifying")
      BY <2>3 DEF Terminal
  <2>6. \A r \in Threads : first'[r] = "alone" => server'[r].status = "classifying"
      BY <2>3 DEF Terminal
  <2>7. \A r \in Threads : server'[r].status = "" => first'[r] = "none"
      BY <2>3, <2>5 DEF Terminal
  <2>8. Raced(t)' \/ server[t].status # "finalized"
      BY <2>3, <2>5 DEF Raced
  <2>. QED
      BY <1>0, <2>2, <2>3, <2>4, <2>6, <2>7, <2>8, TerminalKept
<1>2. ASSUME NEW t \in Threads, NextBatch(t)
      PROVE  Terminal'
  <2>1. \A r \in Threads : Raced(r) <=> Raced(r)'
      BY <1>2, BatchFacts DEF Raced
  <2>2. Raced(t)
      BY <1>2, BatchFacts DEF Raced
  <2>. QED
      BY <1>0, <1>2, <2>1, <2>2, BatchFacts, TerminalKept DEF Terminal
<1>3. ASSUME NEW c \in calls, Read(c)
      PROVE  Terminal'
    BY <1>0, <1>3, ReadFacts, TerminalUnchanged
<1>4. ASSUME NEW c \in calls, TakeFeedback(c)
      PROVE  Terminal'
  <2>1. \A r \in Threads : Raced(r) <=> Raced(r)'
      BY <1>4, TakeFacts DEF Raced
  <2>2. \A r \in Threads : first'[r] = "alone" => server'[r].status = "classifying"
      BY <1>4, TakeFacts DEF Terminal
  <2>3. \A r \in Threads : server'[r].status = "" => first'[r] = "none"
      BY <1>4, TakeFacts DEF Terminal
  <2>. QED
      BY <1>0, <1>4, <2>1, <2>2, <2>3, TakeFacts, TerminalKept
<1>5. ASSUME NEW c \in calls, Refine(c)
      PROVE  Terminal'
  <2>1. PICK s \in StateResponse, u \in Call :
              /\ server' = [server EXCEPT ![c.thread] = s]
              /\ calls' = (calls \ {c}) \cup {u}
              /\ u.thread = c.thread /\ u.answer = s
              /\ server[c.thread].status # "" => s.status # ""
              /\ server[c.thread].plan # NoItems => s = server[c.thread]
              /\ s.status = "finalized" =>
                    s = server[c.thread] \/ (s.plan = s.proposal /\ s.plan # NoItems)
      BY <1>5, RefineFacts
  <2>2. server'[c.thread] = s /\ \A r \in Threads \ {c.thread} : server'[r] = server[r]
      BY <1>0, <2>1
  <2>3. /\ c.thread \in Threads
        /\ first'[c.thread] = IF first[c.thread] = "alone" THEN "joined" ELSE first[c.thread]
        /\ \A r \in Threads \ {c.thread} : first'[r] = first[r]
      BY <1>5, RefineFacts
  <2>4. \A r \in Threads : Raced(r) => Raced(r)'
      BY <2>3 DEF Raced
  <2>5. \A r \in Threads : first'[r] = "alone" => server'[r].status = "classifying"
      BY <2>2, <2>3 DEF Terminal
  <2>6. \A r \in Threads : server'[r].status = "" => first'[r] = "none"
      BY <2>1, <2>2, <2>3 DEF Terminal
  <2>7. server[c.thread].status = "finalized" => s = server[c.thread]
      BY <2>1, <2>3 DEF Terminal
  <2>8. s.status = "finalized" => s.plan = s.proposal /\ s.plan # NoItems
      BY <2>1, <2>3 DEF Terminal
  <2>. QED
      BY <1>0, <2>1, <2>2, <2>4, <2>5, <2>6, <2>7, <2>8, TerminalKept
<1>6. ASSUME NEW c \in calls, NEW k \in Categories, CreateSonglist(c, k)
      PROVE  Terminal'
    BY <1>0, <1>6, CreateFacts, TerminalUnchanged
<1>. QED
    BY <1>1, <1>2, <1>3, <1>4, <1>5, <1>6 DEF Server

LEMMA AnswerTerminal ==
    ASSUME TypeOK, Terminal, Answer
    PROVE  Terminal'
<1>0. \A c \in calls : c.thread \in Threads
    BY CallTyped
<1>1. ASSUME NEW c \in calls,
             \/ GetAnswered(c) \/ StreamEnds(c) \/ ConfirmAnswered(c)
             \/ ConfirmFails(c) \/ Fails(c)
      PROVE  Terminal'
  <2>1. calls' = calls \ {c} /\ UNCHANGED <<server, first>>
      BY <1>1 DEF GetAnswered, StreamEnds, ConfirmAnswered, ConfirmFails, Fails
  <2>. QED
      BY <1>0, <2>1, TerminalUnchanged
<1>2. ASSUME NEW c \in calls, FeedbackAnswered(c)
      PROVE  Terminal'
  <2>1. /\ UNCHANGED <<server, first>>
        /\ calls' \subseteq calls \cup {Ask("get", page)}
      BY <1>2 DEF FeedbackAnswered
  <2>2. Ask("get", page).answer.status # "finalized"
      BY AbsentTyped DEF Ask
  <2>. QED
      BY <1>0, <2>1, <2>2, TerminalUnchanged
<1>3. ASSUME NEW c \in calls, CancelAnswered(c)
      PROVE  Terminal'
  <2>1. calls' = Unmounted(calls \ {c}) /\ UNCHANGED <<server, first>>
      BY <1>3 DEF CancelAnswered, GoHome
  <2>2. calls \ {c} \in SUBSET Call
      BY DEF TypeOK
  <2>. QED
      BY <1>0, <2>1, <2>2, UnmountedFields, TerminalUnchanged
<1>. QED
    BY <1>1, <1>2, <1>3 DEF Answer

-----------------------------------------------------------------------------
(* A feedback on its way has sent what is recorded, or it came later.       *)

\* The log grows only by a drag, and only feedbacks on their way stay on it.
LEMMA SentOrLateKept ==
    ASSUME SentOrLate, store'.log \subseteq store.log,
           \A u \in calls' : u.op = "feedback" =>
               \E c \in calls : c.op = "feedback" /\ u.drags = c.drags
    PROVE  SentOrLate'
BY DEF SentOrLate

LEMMA UserSends ==
    ASSUME TypeOK, SentOrLate, User
    PROVE  SentOrLate'
<1>0. calls \in SUBSET Call /\ store \in Store
    BY DEF TypeOK
<1>1. ASSUME store'.log \subseteq store.log,
             calls' = Unmounted(calls) \/ \E t \in Threads : Mount(t)
      PROVE  SentOrLate'
  <2>1. \A u \in Unmounted(calls) : \E c \in calls : u.op = c.op /\ u.drags = c.drags
      BY <1>0, UnmountedFields
  <2>2. \A t : Ask("get", t).op = "get" /\ Ask("stream", t).op = "stream"
      BY DEF Ask
  <2>3. \A u \in calls' : u.op = "feedback" => u \in Unmounted(calls)
      BY <1>1, <2>2, MountFacts
  <2>. QED
      BY <1>1, <2>1, <2>3, SentOrLateKept
<1>2. CASE (\E t \in Threads : Start(t) \/ Return(t)) \/ Leave
    BY <1>1, <1>2 DEF Start, Return, Leave
<1>3. CASE Done \/ Dismiss
  <2>1. store'.log = {} /\ calls' = Unmounted(calls)
      BY <1>3, InitialStoreTyped DEF Done, Dismiss, GoHome, Reset
  <2>. QED
      BY <1>1, <2>1
<1>4. ASSUME NEW s \in Songs, NEW c \in Categories, Drag(s, c)
      PROVE  SentOrLate'
  <2>1. page \in Threads /\ s \in DOMAIN store.items /\ store' = MoveItem(s, c) /\ calls' = calls
      BY <1>4 DEF Drag, Board, SongCard, TypeOK
  <2>2. store'.log = {d \in store.log : d.song # s} \cup {Moved(s, c)}
      BY <1>0, <2>1, MoveItemFields
  <2>3. (\E f \in calls : f.op = "feedback") => Moved(s, c).late
      BY DEF Moved
  <2>. QED
      BY <2>1, <2>2, <2>3 DEF SentOrLate
<1>5. CASE SubmitFeedback
  <2>1. /\ page \in Threads /\ store.log \in SUBSET DragFeedback /\ store' = store
        /\ calls' = calls \cup {FeedbackCall(page, store.log)}
      BY <1>0, <1>5 DEF SubmitFeedback, FeedbackCall, Board, TypeOK, Store
  <2>2. FeedbackCall(page, store.log).drags = store.log
      BY <2>1, FeedbackCallFields
  <2>. QED
      BY <2>1, <2>2 DEF SentOrLate
<1>6. CASE Confirm \/ Cancel
  <2>1. /\ store' = store
        /\ \E op \in {"confirm", "cancel"} : calls' = calls \cup {Ask(op, page)}
      BY <1>6 DEF Confirm, Cancel
  <2>2. \A op : Ask(op, page).op = op
      BY DEF Ask
  <2>. QED
      BY <2>1, <2>2, SentOrLateKept
<1>. QED
    BY <1>2, <1>3, <1>4, <1>5, <1>6 DEF User

LEMMA ServerSends ==
    ASSUME TypeOK, SentOrLate, Server
    PROVE  SentOrLate'
<1>1. ASSUME NEW t \in Threads, Propose(t) \/ GiveUp(t)
      PROVE  SentOrLate'
  <2>1. PICK s \in StateResponse : Publish(t, s)
      BY <1>1, FirstRunEnds
  <2>2. \A u \in calls' : \E c \in calls : u.op = c.op /\ u.drags = c.drags
      BY <2>1, PublishFacts
  <2>. QED
      BY <1>1, <2>2, FirstRunEnds, SentOrLateKept
<1>2. ASSUME NEW t \in Threads, NextBatch(t)
      PROVE  SentOrLate'
    BY <1>2, BatchFacts, SentOrLateKept
<1>3. ASSUME NEW c \in calls, Read(c)
      PROVE  SentOrLate'
    BY <1>3, ReadFacts, SentOrLateKept
<1>4. ASSUME NEW c \in calls, TakeFeedback(c)
      PROVE  SentOrLate'
    BY <1>4, TakeFacts, SentOrLateKept
<1>5. ASSUME NEW c \in calls, Refine(c)
      PROVE  SentOrLate'
  <2>1. PICK u \in Call :
            calls' = (calls \ {c}) \cup {u} /\ u.drags = c.drags
      BY <1>5, RefineFacts
  <2>2. c.op = "feedback" /\ store' = store
      BY <1>5, RefineFacts
  <2>. QED
      BY <2>1, <2>2, SentOrLateKept
<1>6. ASSUME NEW c \in calls, NEW k \in Categories, CreateSonglist(c, k)
      PROVE  SentOrLate'
    BY <1>6, CreateFacts, SentOrLateKept
<1>. QED
    BY <1>1, <1>2, <1>3, <1>4, <1>5, <1>6 DEF Server

LEMMA AnswerSends ==
    ASSUME TypeOK, SentOrLate, Answer
    PROVE  SentOrLate'
<1>. SUFFICES ASSUME NEW c \in calls,
                     \/ GetAnswered(c) \/ StreamEnds(c) \/ FeedbackAnswered(c)
                     \/ ConfirmAnswered(c) \/ ConfirmFails(c) \/ Fails(c)
                     \/ CancelAnswered(c)
              PROVE  SentOrLate'
    BY DEF Answer
<1>0. /\ c.thread \in Threads /\ c.answer \in StateResponse /\ store \in Store
      /\ Used(c.answer.plan) \in SUBSET Categories
    BY CallTyped, UsedIsCategories DEF StateResponse, TypeOK
<1>1. CASE GetAnswered(c) \/ StreamEnds(c)
  <2>1. /\ calls' = calls \ {c}
        /\ \/ store' = SetFromState(c.thread, c.answer)
           \/ store' = [store EXCEPT !.error = TRUE]
      BY <1>1 DEF GetAnswered, StreamEnds
  <2>2. /\ SetFromState(c.thread, c.answer).log = store.log
        /\ [store EXCEPT !.error = TRUE].log = store.log
    <3>1. SetFromState(c.thread, c.answer).log = store.log
        BY <1>0, SetFromStateFields
    <3>2. [store EXCEPT !.error = TRUE].log = store.log
        BY <1>0, ErrorFields
    <3>. QED
        BY <3>1, <3>2
  <2>3. store'.log = store.log
      BY <2>1, <2>2
  <2>. QED
      BY <2>1, <2>3, SentOrLateKept
<1>2. CASE FeedbackAnswered(c)
  <2>1. store' = [SetFromState(c.thread, c.answer) EXCEPT !.log = {}]
      BY <1>2 DEF FeedbackAnswered
  <2>2. store'.log = {}
      BY <1>0, <2>1, AnsweredFields
  <2>. QED
      BY <2>2 DEF SentOrLate
<1>3. CASE ConfirmAnswered(c)
  <2>1. /\ calls' = calls \ {c}
        /\ store' = ShowResults(c.thread, Used(c.answer.plan))
      BY <1>3 DEF ConfirmAnswered, ShowResults
  <2>2. store'.log = store.log
      BY <1>0, <2>1, ResultsFields
  <2>. QED
      BY <2>1, <2>2, SentOrLateKept
<1>4. CASE ConfirmFails(c) \/ Fails(c)
    BY <1>4, SentOrLateKept DEF ConfirmFails, Fails
<1>5. CASE CancelAnswered(c)
    BY <1>5, InitialStoreTyped DEF CancelAnswered, GoHome, Reset, SentOrLate
<1>. QED
    BY <1>1, <1>2, <1>3, <1>4, <1>5

-----------------------------------------------------------------------------
(* In order, everything belongs to the page.                                *)

LEMMA OwnKept ==
    ASSUME page \in Threads, page' = page, server'[page].status # "",
           \A u \in calls' :
               u.thread = page /\ u.mine /\ \A d \in u.drags : d.on = page,
           store'.threadId \in {"none", page},
           \A d \in store'.log : d.on = page
    PROVE  Own'
<1>1. page # "none"
    BY WorkbenchAssumption
<1>. QED
    BY <1>1 DEF Own

\* Steps that build nothing; a confirmation begins, or reads its checkpoint.
LEMMA AgreedKept ==
    ASSUME Agreed, page' = page, built' = built,
           server[page].status = "finalized" => server'[page] = server[page],
           \A c \in calls' : c.op = "confirm" =>
               \/ c \in calls
               \/ /\ server[page].status = "finalized"
                  /\ \/ c.answer = Absent
                     \/ c.answer = server[page] /\ c.todo = Used(server[page].plan),
           store'.status = "finalized" =>
               /\ server'[page].status = "finalized"
               /\ store'.log = {} => store'.items = server'[page].plan,
           store'.results = store.results
    PROVE  Agreed'
<1>1. ASSUME NEW c \in Confirmations'
      PROVE  /\ server'[page].status = "finalized"
             /\ c.answer # Absent =>
                   /\ c.answer = server'[page]
                   /\ \A k \in Used(c.answer.plan) \ c.todo : built[page][k] > 0
  <2>1. CASE c \in calls
    <3>1. c \in Confirmations
        BY <2>1 DEF Confirmations
    <3>. QED
        BY <3>1 DEF Agreed
  <2>2. CASE c \notin calls
    <3>1. c \in calls' /\ c.op = "confirm"
        BY DEF Confirmations
    <3>. QED
        BY <2>2, <3>1
  <2>. QED
      BY <2>1, <2>2
<1>2. store'.results # NoResults =>
          /\ server'[page].status = "finalized" /\ store'.results.of = page
          /\ store'.results.listed = Used(server'[page].plan)
          /\ \A k \in store'.results.listed : built[page][k] > 0
    BY DEF Agreed
<1>. HIDE DEF Confirmations
<1>. QED
    BY <1>1, <1>2 DEF Agreed

\* The store after a reset agrees with any page.
LEMMA ResetAgrees ==
    ASSUME store' = InitialStore, \A c \in calls' : c.op # "confirm"
    PROVE  Agreed'
<1>1. Confirmations' = {}
    BY DEF Confirmations
<1>2. store'.status # "finalized" /\ store'.results = NoResults
    BY InitialStoreTyped
<1>. QED
    BY <1>1, <1>2 DEF Agreed

LEMMA HomeInOrder ==
    ASSUME page' = "none", store' = InitialStore, calls' = {}
    PROVE  Own' /\ Agreed'
<1>1. Agreed'
    BY ResetAgrees
<1>2. store'.threadId = "none" /\ store'.log = {}
    BY InitialStoreTyped
<1>. QED
    BY <1>1, <1>2 DEF Own

\* A thread is started from the list of songs, where nothing is on its way.
LEMMA StartFacts ==
    ASSUME WorkbenchInv, disorder # "now", NEW t \in Threads, Start(t)
    PROVE  /\ page = "none" /\ page' = t /\ store = InitialStore /\ calls = {}
           /\ server[t].status = "" /\ server'[t].status = "classifying"
           /\ \A r \in Threads \ {t} : server'[r] = server[r]
           /\ UNCHANGED <<built, failed, store, cache, disorder>>
           /\ \A u \in calls' : /\ u.op \in {"get", "stream"} /\ u.thread = t /\ u.mine
                                 /\ u.drags = {}
<1>1. /\ Mount(t) /\ server' = [server EXCEPT ![t] = Classifying] /\ server[t] = Absent
      /\ page = "none" /\ UNCHANGED <<built, failed, store, cache, disorder>>
    BY DEF Start
<1>2. store = InitialStore /\ calls = {}
    BY <1>1 DEF WorkbenchInv, Own
<1>3. Unmounted(calls) = {}
    BY <1>2 DEF Unmounted
<1>4. page' = t /\ calls' \subseteq {Ask("get", t), Ask("stream", t)}
    BY <1>1, <1>3, MountFacts
<1>5. \A u \in {Ask("get", t), Ask("stream", t)} :
          u.op \in {"get", "stream"} /\ u.thread = t /\ u.mine /\ u.drags = {}
    BY DEF Ask
<1>6. server'[t] = Classifying /\ \A r \in Threads \ {t} : server'[r] = server[r]
    BY <1>1 DEF WorkbenchInv, TypeOK
<1>. QED
    BY <1>1, <1>2, <1>4, <1>5, <1>6, AbsentTyped

\* Going home in order leaves nothing behind.
LEMMA HomeFacts ==
    ASSUME TypeOK, disorder' # "now", NEW cs \in SUBSET calls, GoHome(cs)
    PROVE  page' = "none" /\ store' = InitialStore /\ calls' = {}
BY GoHomeFacts

LEMMA UserInOrder ==
    ASSUME WorkbenchInv, disorder # "now", disorder' # "now", User
    PROVE  Own' /\ (~Raced(page)' => Agreed')
<1>0. TypeOK /\ Own /\ (~Raced(page) => Agreed)
    BY DEF WorkbenchInv
<1>1. ASSUME NEW t \in Threads, Start(t)
      PROVE  Own' /\ (~Raced(page)' => Agreed')
  <2>1. Agreed'
      BY <1>1, StartFacts, ResetAgrees
  <2>2. /\ page' = t /\ t # "none" /\ store' = InitialStore
        /\ server'[t].status = "classifying"
        /\ \A u \in calls' : u.thread = t /\ u.mine /\ \A d \in u.drags : d.on = t
      BY <1>1, StartFacts, WorkbenchAssumption
  <2>. QED
      BY <2>1, <2>2, InitialStoreTyped DEF Own
<1>2. ASSUME NEW t \in Threads, Return(t)
      PROVE  FALSE
    BY <1>2 DEF Return, Disorder
<1>3. CASE Leave
    BY <1>3 DEF Leave, Disorder
<1>4. CASE Done \/ Dismiss
    BY <1>0, <1>4, HomeFacts, HomeInOrder DEF Done, Dismiss
<1>5. ASSUME NEW s \in Songs, NEW c \in Categories, Drag(s, c)
      PROVE  Own' /\ (~Raced(page)' => Agreed')
  <2>1. /\ page \in Threads /\ s \in DOMAIN store.items /\ store' = MoveItem(s, c)
        /\ UNCHANGED <<server, first, built, failed, page, cache, calls>>
      BY <1>0, <1>5 DEF Drag, Board, SongCard, TypeOK
  <2>2. /\ store'.threadId = store.threadId /\ store'.status = store.status
        /\ store'.log = {d \in store.log : d.song # s} \cup {Moved(s, c)}
        /\ store'.results = store.results /\ Moved(s, c).on = page
      BY <1>0, <2>1, MoveItemFields DEF TypeOK
  <2>3. server[page].status # "" /\ page # "none"
      BY <1>0, <2>1, WorkbenchAssumption DEF Own
  <2>4. Own'
      BY <1>0, <2>1, <2>2, <2>3, OwnKept DEF Own
  <2>5. ASSUME ~Raced(page)'
        PROVE  Agreed'
    <3>0. Agreed
        BY <1>0, <2>1, <2>5 DEF Raced
    <3>1. store'.status = "finalized" => server'[page].status = "finalized" /\ store'.log # {}
        BY <2>1, <2>2, <3>0 DEF Agreed
    <3>. QED
        BY <2>1, <2>2, <3>0, <3>1, AgreedKept
  <2>. QED
      BY <2>4, <2>5
<1>6. ASSUME NEW u \in Call, calls' = calls \cup {u}, page \in Threads,
             u.thread = page, u.mine, \A d \in u.drags : d.on = page,
             u.op = "confirm" => u.answer = Absent /\ CanConfirm,
             UNCHANGED <<server, first, built, failed, page, store, cache>>
      PROVE  Own' /\ (~Raced(page)' => Agreed')
  <2>1. server[page].status # "" /\ page # "none"
      BY <1>0, <1>6, WorkbenchAssumption DEF Own
  <2>2. Own'
      BY <1>0, <1>6, <2>1, OwnKept DEF Own
  <2>3. ASSUME ~Raced(page)'
        PROVE  Agreed'
    <3>1. Agreed
        BY <1>0, <1>6, <2>3 DEF Raced
    <3>2. store'.status = "finalized" =>
              /\ server'[page].status = "finalized"
              /\ store'.log = {} => store'.items = server'[page].plan
        BY <1>6, <3>1 DEF Agreed
    <3>3. \A c \in calls' : c.op = "confirm" =>
              c \in calls \/ (server[page].status = "finalized" /\ c.answer = Absent)
        BY <1>6, <3>1 DEF Agreed, CanConfirm
    <3>. QED
        BY <1>6, <3>1, <3>2, <3>3, AgreedKept
  <2>. QED
      BY <2>2, <2>3
<1>7. CASE SubmitFeedback
  <2>1. /\ page \in Threads /\ store.log \in SUBSET DragFeedback
        /\ calls' = calls \cup {FeedbackCall(page, store.log)}
        /\ UNCHANGED <<server, first, built, failed, page, store, cache>>
      BY <1>0, <1>7 DEF SubmitFeedback, FeedbackCall, Board, TypeOK, Store
  <2>. DEFINE u == FeedbackCall(page, store.log)
  <2>2. /\ u \in Call /\ u.op = "feedback" /\ u.thread = page /\ u.mine
        /\ u.drags = store.log
      BY <2>1, FeedbackCallFields
  <2>3. calls' = calls \cup {u}
      BY <2>1
  <2>. HIDE DEF u
  <2>. QED
      BY <1>0, <1>6, <2>1, <2>2, <2>3 DEF Own
<1>8. CASE Confirm \/ Cancel
  <2>1. /\ page \in Threads /\ UNCHANGED <<server, first, built, failed, page, store, cache>>
        /\ \/ calls' = calls \cup {Ask("cancel", page)}
           \/ CanConfirm /\ calls' = calls \cup {Ask("confirm", page)}
      BY <1>0, <1>8 DEF Confirm, Cancel, Board, TypeOK
  <2>2. PICK op \in {"confirm", "cancel"} :
            calls' = calls \cup {Ask(op, page)} /\ (op = "confirm" => CanConfirm)
      BY <2>1
  <2>. DEFINE u == Ask(op, page)
  <2>3. /\ u \in Call /\ u.op = op /\ u.thread = page /\ u.mine /\ u.drags = {}
        /\ u.answer = Absent
      BY <2>1, AskFields
  <2>4. calls' = calls \cup {u}
      BY <2>2
  <2>. HIDE DEF u
  <2>. QED
      BY <1>6, <2>1, <2>2, <2>3, <2>4
<1>. QED
    BY <1>1, <1>2, <1>3, <1>4, <1>5, <1>7, <1>8 DEF User

\* A call is on its way only for a page that is open.
LEMMA CallOfPage ==
    ASSUME TypeOK, Own, NEW c \in calls
    PROVE  /\ page \in Threads /\ c.thread = page /\ page # "none"
           /\ server[page].status # "" /\ server[page] \in StateResponse
<1>1. page # "none" /\ c.thread = page
    BY DEF Own
<1>. QED
    BY <1>1 DEF Own, TypeOK

\* Steps of the server that leave the store alone, whatever they do to the thread.
LEMMA ServerOwnKept ==
    ASSUME TypeOK, Own, UNCHANGED <<page, store>>,
           page # "none" => server'[page].status # "",
           \A u \in calls' : \E c \in calls :
               u.thread = c.thread /\ u.mine = c.mine /\ u.drags = c.drags
    PROVE  Own'
<1>1. CASE page = "none"
    BY <1>1 DEF Own
<1>2. CASE page # "none"
  <2>1. ASSUME NEW u \in calls'
        PROVE  u.thread = page /\ u.mine /\ \A d \in u.drags : d.on = page
    <3>1. PICK c \in calls :
              u.thread = c.thread /\ u.mine = c.mine /\ u.drags = c.drags
        OBVIOUS
    <3>2. c.thread = page /\ c.mine /\ \A d \in c.drags : d.on = page
        BY DEF Own
    <3>3. u.mine
        BY <3>1, <3>2, Zenon
    <3>. QED
        BY <3>1, <3>2, <3>3
  <2>2. store'.threadId \in {"none", page} /\ \A d \in store'.log : d.on = page
      BY DEF Own
  <2>3. page \in Threads
      BY <1>2 DEF TypeOK
  <2>. QED
      BY <1>2, <2>1, <2>2, <2>3, OwnKept
<1>. QED
    BY <1>1, <1>2

LEMMA ServerInOrder ==
    ASSUME WorkbenchInv, disorder # "now", disorder' # "now", Server
    PROVE  Own' /\ (~Raced(page)' => Agreed')
<1>0. /\ TypeOK /\ Terminal /\ Own /\ (~Raced(page) => Agreed)
      /\ server \in [Threads -> StateResponse]
      /\ page # "none" => page \in Threads /\ server[page].status # ""
    BY DEF WorkbenchInv, TypeOK, Own
\* Steps that do nothing to a finalized thread without a race.
<1>1. ASSUME UNCHANGED <<built, page, store>>, Raced(page) => Raced(page)',
             page # "none" => server'[page].status # "",
             page # "none" /\ ~Raced(page)' /\ server[page].status = "finalized" =>
                 server'[page] = server[page],
             \A u \in calls' : \E c \in calls :
                 /\ u.op = c.op /\ u.thread = c.thread /\ u.mine = c.mine
                 /\ u.drags = c.drags
                 /\ u.op = "confirm" =>
                       \/ u = c
                       \/ u.answer = server[page] /\ u.todo = Used(server[page].plan)
      PROVE  Own' /\ (~Raced(page)' => Agreed')
  <2>1. Own'
      BY <1>0, <1>1, ServerOwnKept
  <2>2. ASSUME ~Raced(page)', page # "none"
        PROVE  Agreed'
    <3>1. Agreed
        BY <1>0, <1>1, <2>2
    <3>2. server[page].status = "finalized" => server'[page] = server[page]
        BY <1>1, <2>2
    <3>3. ASSUME NEW u \in calls', u.op = "confirm"
          PROVE  \/ u \in calls
                 \/ /\ server[page].status = "finalized"
                    /\ u.answer = server[page] /\ u.todo = Used(server[page].plan)
      <4>1. PICK c \in calls :
                 /\ u.op = c.op
                 /\ u = c \/ (u.answer = server[page] /\ u.todo = Used(server[page].plan))
          BY <1>1, <3>3
      <4>2. c \in Confirmations
          BY <3>3, <4>1 DEF Confirmations
      <4>3. server[page].status = "finalized"
          BY <3>1, <4>2 DEF Agreed
      <4>. QED
          BY <4>1, <4>3
    <3>4. store'.status = "finalized" =>
              /\ server'[page].status = "finalized"
              /\ store'.log = {} => store'.items = server'[page].plan
        BY <1>1, <3>1, <3>2 DEF Agreed
    <3>. QED
        BY <1>1, <3>1, <3>2, <3>3, <3>4, AgreedKept
  <2>3. CASE page = "none"
    <3>1. calls' = {} /\ store' = InitialStore
        BY <1>0, <1>1, <2>3 DEF Own
    <3>. QED
        BY <2>1, <3>1, ResetAgrees
  <2>. QED
      BY <2>1, <2>2, <2>3
<1>2. ASSUME NEW t \in Threads, Propose(t) \/ GiveUp(t)
      PROVE  Own' /\ (~Raced(page)' => Agreed')
  <2>1. PICK s \in StateResponse :
            /\ s.status \in {"awaiting_feedback", "failed"} /\ Publish(t, s)
            /\ server' \in {server, [server EXCEPT ![t] = s]}
      BY <1>0, <1>2, FirstRunEnds
  <2>2. \A u \in calls' : \E c \in calls :
              /\ u.op = c.op /\ u.thread = c.thread /\ u.mine = c.mine
              /\ u.drags = c.drags /\ (u.op # "stream" => u = c)
    <3>1. TypeOK /\ Publish(t, s)
        BY <1>0, <2>1
    <3>2. \A u \in calls' : \E c \in calls :
                 /\ u.op = c.op /\ u.thread = c.thread /\ u.mine = c.mine
                 /\ u.drags = c.drags /\ u.todo = c.todo
                 /\ u.answer = c.answer \/ (u.op = "stream" /\ u.thread = t /\ u.answer = s)
                 /\ u.op # "stream" => u = c
        BY <3>1, PublishFacts, Zenon
    <3>. QED
        BY <3>2, Zenon
  <2>3. /\ first[t] \in {"alone", "joined"}
        /\ first'[t] = IF first[t] = "alone" THEN "ended" ELSE "overtook"
        /\ \A r \in Threads \ {t} : first'[r] = first[r] /\ server'[r] = server[r]
        /\ server'[t] = server[t] \/ server'[t].status \in {"awaiting_feedback", "failed"}
        /\ UNCHANGED <<built, page, store>>
      BY <1>0, <1>2, <2>1, FirstRunEnds
  <2>4. Raced(page) => Raced(page)'
      BY <2>3 DEF Raced
  <2>5. page # "none" => server'[page].status # ""
      BY <1>0, <2>3
  <2>6. Raced(t)' \/ server[t].status # "finalized"
      BY <1>0, <2>3 DEF Raced, Terminal
  <2>7. page # "none" /\ ~Raced(page)' /\ server[page].status = "finalized" =>
            server'[page] = server[page]
      BY <1>0, <2>3, <2>6
  <2>. QED
      BY <1>1, <2>2, <2>3, <2>4, <2>5, <2>7
<1>3. ASSUME NEW t \in Threads, NextBatch(t)
      PROVE  Own' /\ (~Raced(page)' => Agreed')
  <2>1. /\ UNCHANGED <<first, built, page, store, calls>>
        /\ first[t] = "joined" /\ server'[t].status = "classifying"
        /\ \A r \in Threads \ {t} : server'[r] = server[r]
      BY <1>0, <1>3, BatchFacts
  <2>2. (Raced(page) <=> Raced(page)') /\ Raced(t)'
      BY <2>1 DEF Raced
  <2>3. page # "none" => server'[page].status # ""
      BY <1>0, <2>1
  <2>4. page # "none" /\ ~Raced(page)' => server'[page] = server[page]
      BY <1>0, <2>1, <2>2
  <2>. QED
      BY <1>1, <2>1, <2>2, <2>3, <2>4
<1>4. ASSUME NEW c \in calls, Read(c)
      PROVE  Own' /\ (~Raced(page)' => Agreed')
  <2>1. page \in Threads /\ c.thread = page
      BY <1>0, CallOfPage
  <2>2. PICK u \in Call :
              /\ calls' = (calls \ {c}) \cup {u}
              /\ u.op = c.op /\ u.thread = c.thread /\ u.mine = c.mine
              /\ u.drags = c.drags /\ u.answer = server[page]
              /\ u.op = "confirm" => u.todo = Used(server[page].plan)
      BY <1>0, <1>4, <2>1, ReadFacts
  <2>3. UNCHANGED <<server, first, built, page, store>>
      BY <1>0, <1>4, ReadFacts
  <2>4. Raced(page) <=> Raced(page)'
      BY <2>3 DEF Raced
  <2>5. \A v \in calls' : \E d \in calls :
                 /\ v.op = d.op /\ v.thread = d.thread /\ v.mine = d.mine
                 /\ v.drags = d.drags
                 /\ v.op = "confirm" =>
                       \/ v = d
                       \/ v.answer = server[page] /\ v.todo = Used(server[page].plan)
      BY <2>2
  <2>. QED
      BY <1>0, <1>1, <2>3, <2>4, <2>5
<1>5. ASSUME NEW c \in calls, TakeFeedback(c)
      PROVE  Own' /\ (~Raced(page)' => Agreed')
  <2>1. /\ UNCHANGED <<first, built, page, store, calls>>
        /\ c.thread \in Threads /\ server[c.thread].status = "awaiting_feedback"
        /\ server'[c.thread].status = "refining"
        /\ \A r \in Threads \ {c.thread} : server'[r] = server[r]
      BY <1>0, <1>5, TakeFacts
  <2>2. Raced(page) <=> Raced(page)'
      BY <2>1 DEF Raced
  <2>3. page # "none" => server'[page].status # ""
      BY <1>0, <2>1
  <2>4. page # "none" /\ server[page].status = "finalized" => server'[page] = server[page]
      BY <1>0, <2>1
  <2>. QED
      BY <1>1, <2>1, <2>2, <2>3, <2>4
<1>6. ASSUME NEW c \in calls, Refine(c)
      PROVE  Own' /\ (~Raced(page)' => Agreed')
  <2>1. page \in Threads /\ c.thread = page /\ server[page].status # ""
      BY <1>0, CallOfPage
  <2>2. PICK s \in StateResponse, u \in Call :
              /\ server' = [server EXCEPT ![c.thread] = s]
              /\ calls' = (calls \ {c}) \cup {u}
              /\ u.op = "feedback" /\ u.thread = c.thread /\ u.mine = c.mine
              /\ u.drags = c.drags
              /\ server[c.thread].status # "" => s.status # ""
              /\ server[c.thread].plan # NoItems => s = server[c.thread]
      BY <1>0, <1>6, RefineFacts, Zenon
  <2>3. /\ server'[page] = s /\ UNCHANGED <<built, page, store>> /\ c.op = "feedback"
        /\ first'[page] = IF first[page] = "alone" THEN "joined" ELSE first[page]
      BY <1>0, <1>6, <2>1, <2>2, RefineFacts
  <2>4. Raced(page) => Raced(page)'
      BY <2>3 DEF Raced
  <2>5. server'[page].status # ""
      BY <2>1, <2>2, <2>3
  <2>6. server[page].status = "finalized" => server'[page] = server[page]
      BY <1>0, <2>1, <2>2, <2>3 DEF Terminal
  <2>7. \A v \in calls' : \E d \in calls :
                 /\ v.op = d.op /\ v.thread = d.thread /\ v.mine = d.mine
                 /\ v.drags = d.drags
                 /\ v.op = "confirm" => v = d
      BY <2>2, <2>3
  <2>. QED
      BY <1>1, <2>3, <2>4, <2>5, <2>6, <2>7
<1>7. ASSUME NEW c \in calls, NEW k \in Categories, CreateSonglist(c, k)
      PROVE  Own' /\ (~Raced(page)' => Agreed')
  <2>1. /\ page \in Threads /\ c.thread = page /\ page # "none"
        /\ server[page] \in StateResponse /\ c.answer \in StateResponse
      BY <1>0, CallOfPage, CallTyped
  <2>2. PICK u \in Call :
              /\ calls' = (calls \ {c}) \cup {u}
              /\ u.op = "confirm" /\ u.thread = c.thread /\ u.mine = c.mine
              /\ u.drags = c.drags /\ u.answer = c.answer /\ u.todo = c.todo \ {k}
      BY <1>0, <1>7, CreateFacts
  <2>3. /\ UNCHANGED <<server, first, failed, page, store>>
        /\ c.op = "confirm" /\ built'[page][k] = built[page][k] + 1
        /\ \A j \in Categories : j # k => built'[page][j] = built[page][j]
    <3>1. /\ UNCHANGED <<server, first, failed, page, store, disorder>>
          /\ c.op = "confirm" /\ built'[c.thread][k] = built[c.thread][k] + 1
          /\ \A t \in Threads, j \in Categories :
                t # c.thread \/ j # k => built'[t][j] = built[t][j]
        BY <1>0, <1>7, CreateFacts
    <3>. QED
        BY <2>1, <3>1
  <2>4. Own'
    <3>1. \A v \in calls' : \E d \in calls :
               v.thread = d.thread /\ v.mine = d.mine /\ v.drags = d.drags
        BY <2>2
    <3>. QED
        BY <1>0, <2>3, <3>1, ServerOwnKept
  <2>5. \A j \in Categories : /\ built[page][j] > 0 => built'[page][j] > 0
                              /\ built'[page][k] > 0
    <3>1. \A j \in Categories : built[page][j] \in Nat
        BY <1>0, <2>1 DEF TypeOK
    <3>. QED
        BY <2>3, <3>1
  <2>6. Used(server[page].plan) \subseteq Categories
      BY <2>1, UsedIsCategories DEF StateResponse
  <2>7. ASSUME Agreed, NEW d \in Confirmations'
        PROVE  /\ server[page].status = "finalized"
               /\ d.answer # Absent =>
                     /\ d.answer = server[page]
                     /\ \A j \in Used(d.answer.plan) \ d.todo : built'[page][j] > 0
    <3>1. c \in Confirmations
        BY <2>3 DEF Confirmations
    <3>2. CASE d = u
        BY <2>2, <2>5, <2>6, <2>7, <3>1, <3>2 DEF Agreed
    <3>3. CASE d # u
      <4>1. d \in Confirmations
          BY <2>2, <3>3 DEF Confirmations
      <4>. QED
          BY <2>5, <2>6, <2>7, <4>1 DEF Agreed
    <3>. QED
        BY <3>2, <3>3
  <2>8. ASSUME ~Raced(page)'
        PROVE  Agreed'
    <3>1. Agreed
        BY <1>0, <2>3, <2>8 DEF Raced
    <3>. QED
        BY <2>3, <2>5, <2>6, <2>7, <3>1 DEF Agreed
  <2>. QED
      BY <2>4, <2>8
<1>. QED
    BY <1>2, <1>3, <1>4, <1>5, <1>6, <1>7 DEF Server

\* An answer on the page is that of the thread; what it says of "finalized" is so.
LEMMA AnswerOnPage ==
    ASSUME WorkbenchInv, disorder # "now", NEW c \in calls, ~Raced(page),
           c.answer.status = "finalized"
    PROVE  /\ server[page].status = "finalized"
           /\ c.answer.proposal = server[page].plan
<1>1. page \in Threads /\ c.thread = page
    BY CallOfPage DEF WorkbenchInv
<1>. QED
    BY <1>1 DEF WorkbenchInv, Terminal

LEMMA AnswerInOrder ==
    ASSUME WorkbenchInv, disorder # "now", disorder' # "now", Answer
    PROVE  Own' /\ (~Raced(page)' => Agreed')
<1>0. TypeOK /\ Own /\ (~Raced(page) => Agreed) /\ store \in Store
    BY DEF WorkbenchInv, TypeOK
<1>. SUFFICES ASSUME NEW c \in calls,
                     \/ GetAnswered(c) \/ StreamEnds(c) \/ FeedbackAnswered(c)
                     \/ ConfirmAnswered(c) \/ ConfirmFails(c) \/ Fails(c)
                     \/ CancelAnswered(c)
              PROVE  Own' /\ (~Raced(page)' => Agreed')
    BY DEF Answer
<1>1. /\ page \in Threads /\ c.thread = page /\ server[page].status # ""
      /\ c.answer \in StateResponse /\ server[page] \in StateResponse
    BY <1>0, CallOfPage, CallTyped
\* An answer that leaves the board, or replaces it.
<1>2. ASSUME calls' \subseteq calls \cup {Ask("get", page)},
             UNCHANGED <<server, first, built, page>>,
             store' \in {SetFromState(page, c.answer),
                         [SetFromState(page, c.answer) EXCEPT !.log = {}],
                         [store EXCEPT !.error = TRUE], store}
      PROVE  Own' /\ (~Raced(page)' => Agreed')
  <2>. DEFINE u == Ask("get", page)
  <2>1. u.op = "get" /\ u.thread = page /\ u.mine /\ u.drags = {}
      BY DEF Ask
  <2>2. \A d \in calls' : d \in calls \/ d = u
      BY <1>2
  <2>. HIDE DEF u
  <2>3. /\ store'.threadId \in {"none", page} /\ store'.results = store.results
        /\ store'.log \in {store.log, {}}
        /\ \/ store'.status = c.answer.status /\ store'.items = c.answer.proposal
           \/ /\ store'.status = store.status /\ store'.items = store.items
              /\ store'.log = store.log
    <3>1. CASE store' = SetFromState(page, c.answer)
        BY <1>0, <1>1, <3>1, SetFromStateFields
    <3>2. CASE store' = [SetFromState(page, c.answer) EXCEPT !.log = {}]
        BY <1>0, <1>1, <3>2, AnsweredFields
    <3>3. CASE store' = [store EXCEPT !.error = TRUE] \/ store' = store
        BY <1>0, <3>3, ErrorFields DEF Own
    <3>. QED
        BY <1>2, <3>1, <3>2, <3>3
  <2>4. Own'
      BY <1>0, <1>1, <1>2, <2>1, <2>2, <2>3, OwnKept DEF Own
  <2>5. \A d \in calls' : d.op = "confirm" => d \in calls
      BY <2>1, <2>2
  <2>6. ASSUME ~Raced(page)'
        PROVE  Agreed'
    <3>1. ~Raced(page) /\ Agreed
        BY <1>0, <1>2, <2>6 DEF Raced
    <3>2. store'.status = "finalized" =>
              /\ server'[page].status = "finalized"
              /\ store'.log = {} => store'.items = server'[page].plan
        BY <1>2, <2>3, <3>1, AnswerOnPage DEF Agreed
    <3>. QED
        BY <1>2, <2>3, <2>5, <3>1, <3>2, AgreedKept
  <2>. QED
      BY <2>4, <2>6
<1>3. CASE GetAnswered(c) \/ StreamEnds(c)
    BY <1>1, <1>2, <1>3 DEF GetAnswered, StreamEnds
<1>4. CASE FeedbackAnswered(c)
  <2>1. /\ store' = [SetFromState(page, c.answer) EXCEPT !.log = {}]
        /\ UNCHANGED <<server, first, built, page>>
        /\ calls' \subseteq calls \cup {Ask("get", page)}
      BY <1>1, <1>4 DEF FeedbackAnswered
  <2>. QED
      BY <1>2, <2>1
<1>5. CASE ConfirmFails(c) \/ Fails(c)
    BY <1>2, <1>5 DEF ConfirmFails, Fails
<1>6. CASE ConfirmAnswered(c)
  <2>. DEFINE listed == Used(c.answer.plan)
  <2>1. /\ store' = ShowResults(page, listed) /\ calls' = calls \ {c}
        /\ UNCHANGED <<server, first, built, failed, page, cache, disorder>>
        /\ c.op = "confirm" /\ c.todo = {} /\ c.answer # Absent
      BY <1>1, <1>6, AbsentTyped DEF ConfirmAnswered, ShowResults
  <2>2. listed \in SUBSET Categories
      BY <1>1, UsedIsCategories DEF StateResponse
  <2>3. c \in Confirmations /\ Confirmations' \subseteq Confirmations
      BY <2>1 DEF Confirmations
  <2>4. Agreed =>
            /\ server[page].status = "finalized" /\ listed = Used(server[page].plan)
            /\ \A k \in listed : built[page][k] > 0
      BY <2>1, <2>3 DEF Agreed
  <2>. HIDE DEF listed
  <2>5. /\ store'.threadId = store.threadId /\ store'.status = store.status
        /\ store'.items = store.items /\ store'.log = store.log
        /\ store'.results.of = page /\ store'.results.listed = listed
      BY <1>0, <1>1, <2>1, <2>2, ResultsFields
  <2>6. Own'
      BY <1>0, <1>1, <2>1, <2>5, OwnKept DEF Own
  <2>7. ASSUME ~Raced(page)'
        PROVE  Agreed'
    <3>1. Agreed
        BY <1>0, <2>1, <2>7 DEF Raced
    <3>. QED
        BY <2>1, <2>3, <2>4, <2>5, <3>1 DEF Agreed
  <2>. QED
      BY <2>6, <2>7
<1>7. CASE CancelAnswered(c)
    BY <1>0, <1>7, HomeFacts, HomeInOrder DEF CancelAnswered
<1>. QED
    BY <1>3, <1>4, <1>5, <1>6, <1>7

-----------------------------------------------------------------------------
(* Without disorder, a category is paid for once.                           *)

LEMMA PaidKept ==
    ASSUME Paid, page' = page, built' = built, failed' = failed,
           \A t \in Threads : server'[t].status = "" => server[t].status = "",
           \A c : c \in Confirmations' <=> c \in Confirmations,
           store'.results = store.results
    PROVE  Paid'
<1>1. Confirmations' = Confirmations
    OBVIOUS
<1>. HIDE DEF Confirmations
<1>. QED
    BY <1>1 DEF Paid

LEMMA BuiltTyped ==
    ASSUME TypeOK
    PROVE  \A t \in Threads : /\ failed[t] \in Nat
                              /\ \A k \in Categories : built[t][k] \in Nat
BY WorkbenchAssumption DEF TypeOK

\* Back on the list of songs, nothing is on its way.
LEMMA PaidAtHome ==
    ASSUME Paid, page' = "none", calls' = {}, UNCHANGED <<server, first, built, failed>>
    PROVE  Paid'
<1>1. Confirmations' = {}
    BY DEF Confirmations
<1>. HIDE DEF Confirmations
<1>. QED
    BY <1>1 DEF Paid

LEMMA PaidUser ==
    ASSUME WorkbenchInv, disorder = "never", disorder' = "never", User
    PROVE  Paid'
<1>0. TypeOK /\ Own /\ Paid
    BY DEF WorkbenchInv
<1>1. ASSUME NEW t \in Threads, Start(t)
      PROVE  Paid'
  <2>1. /\ page' = t /\ server[t].status = "" /\ server'[t].status = "classifying"
        /\ \A r \in Threads \ {t} : server'[r] = server[r]
        /\ UNCHANGED <<built, failed>>
        /\ \A u \in calls' : u.op \in {"get", "stream"}
      BY <1>1, StartFacts
  <2>2. Confirmations' = {}
      BY <2>1 DEF Confirmations
  <2>3. \A k \in Categories : built[t][k] <= failed[t]
    <3>1. failed[t] \in Nat /\ \A k \in Categories : built[t][k] = 0
        BY <1>0, <2>1, BuiltTyped DEF Paid
    <3>. QED
        BY <3>1
  <2>4. \A r \in Threads, k \in Categories :
          /\ built[r][k] <= 1 + failed[r]
          /\ server'[r].status = "" => built[r][k] = 0
      BY <1>0, <2>1 DEF Paid
  <2>. HIDE DEF Confirmations
  <2>. QED
      BY <2>1, <2>2, <2>3, <2>4 DEF Paid
<1>2. CASE \E t \in Threads : Return(t)
    BY <1>2 DEF Return, Disorder
<1>3. CASE Leave
    BY <1>3 DEF Leave, Disorder
<1>4. CASE Done \/ Dismiss
  <2>1. GoHome(calls) /\ UNCHANGED <<server, first, built, failed>>
      BY <1>4 DEF Done, Dismiss
  <2>. QED
      BY <1>0, <2>1, HomeFacts, PaidAtHome
<1>5. ASSUME NEW s \in Songs, NEW c \in Categories, Drag(s, c)
      PROVE  Paid'
  <2>1. /\ page \in Threads /\ s \in DOMAIN store.items /\ store' = MoveItem(s, c)
        /\ UNCHANGED <<server, first, built, failed, page, calls>>
      BY <1>0, <1>5 DEF Drag, Board, SongCard, TypeOK
  <2>2. store'.results = store.results
      BY <1>0, <2>1, MoveItemFields DEF TypeOK
  <2>. QED
      BY <1>0, <2>1, <2>2, PaidKept DEF Confirmations
<1>6. ASSUME NEW u, calls' = calls \cup {u}, u.op # "confirm",
             UNCHANGED <<server, first, built, failed, page, store>>
      PROVE  Paid'
    BY <1>0, <1>6, PaidKept DEF Confirmations
<1>7. CASE SubmitFeedback
  <2>1. /\ page \in Threads /\ store.log \in SUBSET DragFeedback
        /\ calls' = calls \cup {FeedbackCall(page, store.log)}
        /\ UNCHANGED <<server, first, built, failed, page, store, cache>>
      BY <1>0, <1>7 DEF SubmitFeedback, FeedbackCall, Board, TypeOK, Store
  <2>2. FeedbackCall(page, store.log).op = "feedback"
      BY <2>1, FeedbackCallFields
  <2>. QED
      BY <1>6, <2>1, <2>2
<1>8. CASE Confirm
  <2>1. /\ page \in Threads /\ calls' = calls \cup {Ask("confirm", page)}
        /\ UNCHANGED <<server, first, built, failed, page, store, cache>>
        /\ ~Submitting /\ store.results = NoResults
      BY <1>0, <1>8 DEF Confirm, Board, ResultsScreen, TypeOK
  <2>. DEFINE u == Ask("confirm", page)
  <2>2. u.op = "confirm" /\ u.todo = {}
      BY <2>1, AskFields
  <2>3. Confirmations = {}
      BY <1>0, <2>1 DEF Confirmations, Submitting, Pending, Own
  <2>4. calls' = calls \cup {u}
      BY <2>1
  <2>. HIDE DEF u
  <2>5. Confirmations' = {u}
      BY <2>2, <2>3, <2>4 DEF Confirmations
  <2>6. \A k \in Categories : built[page][k] <= failed[page]
      BY <1>0, <2>1, <2>3, WorkbenchAssumption DEF Paid
  <2>. HIDE DEF Confirmations
  <2>. QED
      BY <1>0, <2>1, <2>2, <2>5, <2>6 DEF Paid
<1>9. CASE Cancel
  <2>1. /\ calls' = calls \cup {Ask("cancel", page)}
        /\ UNCHANGED <<server, first, built, failed, page, store, cache>>
      BY <1>9 DEF Cancel
  <2>2. Ask("cancel", page).op = "cancel"
      BY DEF Ask
  <2>. QED
      BY <1>6, <2>1, <2>2
<1>. QED
    BY <1>1, <1>2, <1>3, <1>4, <1>5, <1>7, <1>8, <1>9 DEF User

LEMMA PaidServer ==
    ASSUME WorkbenchInv, disorder = "never", disorder' = "never", Server
    PROVE  Paid'
<1>0. TypeOK /\ Own /\ Paid /\ server \in [Threads -> StateResponse]
    BY DEF WorkbenchInv, TypeOK
<1>1. ASSUME NEW t \in Threads, Propose(t) \/ GiveUp(t)
      PROVE  Paid'
  <2>1. PICK s \in StateResponse :
            /\ s.status \in {"awaiting_feedback", "failed"} /\ Publish(t, s)
            /\ server' \in {server, [server EXCEPT ![t] = s]}
      BY <1>0, <1>1, FirstRunEnds
  <2>2. /\ \A u \in calls' : \E c \in calls :
              u.op = c.op /\ (u.op # "stream" => u = c)
        /\ \A c \in calls : c.op # "stream" => c \in calls'
      BY <1>0, <2>1, PublishFacts
  <2>3. UNCHANGED <<built, failed, page, store>>
      BY <1>0, <1>1, FirstRunEnds
  <2>4. \A r \in Threads : server'[r].status = "" => server[r].status = ""
      BY <1>0, <2>1
  <2>5. \A c : c \in Confirmations' <=> c \in Confirmations
      BY <2>2 DEF Confirmations
  <2>. QED
      BY <1>0, <2>3, <2>4, <2>5, PaidKept
<1>2. ASSUME NEW c \in calls, Refine(c)
      PROVE  Paid'
  <2>1. PICK s \in StateResponse, u \in Call :
              /\ server' = [server EXCEPT ![c.thread] = s]
              /\ calls' = (calls \ {c}) \cup {u}
              /\ u.op = "feedback"
              /\ server[c.thread].status # "" => s.status # ""
      BY <1>0, <1>2, RefineFacts, Zenon
  <2>2. c.op = "feedback" /\ UNCHANGED <<built, failed, page, store>>
      BY <1>0, <1>2, RefineFacts
  <2>3. \A r \in Threads : server'[r].status = "" => server[r].status = ""
      BY <1>0, <2>1
  <2>4. \A d : d \in Confirmations' <=> d \in Confirmations
      BY <2>1, <2>2 DEF Confirmations
  <2>. QED
      BY <1>0, <2>2, <2>3, <2>4, PaidKept
<1>4. ASSUME NEW t \in Threads, NextBatch(t)
      PROVE  Paid'
  <2>1. \A r \in Threads : server'[r].status = "" => server[r].status = ""
      BY <1>0, <1>4, BatchFacts
  <2>2. \A d : d \in Confirmations' <=> d \in Confirmations
      BY <1>0, <1>4, BatchFacts DEF Confirmations
  <2>. QED
      BY <1>0, <1>4, <2>1, <2>2, BatchFacts, PaidKept
<1>5. ASSUME NEW c \in calls, TakeFeedback(c)
      PROVE  Paid'
  <2>1. \A r \in Threads : server'[r].status = "" => server[r].status = ""
      BY <1>0, <1>5, TakeFacts
  <2>2. \A d : d \in Confirmations' <=> d \in Confirmations
      BY <1>0, <1>5, TakeFacts DEF Confirmations
  <2>. QED
      BY <1>0, <1>5, <2>1, <2>2, TakeFacts, PaidKept
<1>6. ASSUME NEW c \in calls, Read(c)
      PROVE  Paid'
  <2>1. PICK u \in Call :
              /\ calls' = (calls \ {c}) \cup {u} /\ u.op = c.op
              /\ u.answer = server[c.thread]
      BY <1>0, <1>6, ReadFacts
  <2>2. c.answer = Absent /\ UNCHANGED <<server, built, failed, page, store>>
      BY <1>0, <1>6, ReadFacts
  <2>3. page \in Threads /\ c.thread = page /\ page # "none"
      BY <1>0, CallOfPage
  <2>4. CASE c.op # "confirm"
    <3>1. \A d : d \in Confirmations' <=> d \in Confirmations
        BY <2>1, <2>4 DEF Confirmations
    <3>. QED
        BY <1>0, <2>2, <3>1, PaidKept
  <2>5. CASE c.op = "confirm"
    <3>1. c \in Confirmations /\ \A d \in Confirmations : d = c
        BY <1>0, <2>5 DEF Confirmations, Paid
    <3>2. Confirmations' = {u}
        BY <2>1, <2>5, <3>1 DEF Confirmations
    <3>3. /\ store.results = NoResults
          /\ \A k \in Categories : built[page][k] <= failed[page]
        BY <1>0, <2>2, <3>1 DEF Paid
    <3>4. u.answer # Absent
      <4>1. server[page].status # ""
          BY <1>0, CallOfPage
      <4>. QED
          BY <2>1, <2>3, <4>1, AbsentTyped
    <3>. HIDE DEF Confirmations
    <3>. QED
        BY <1>0, <2>2, <2>3, <3>2, <3>3, <3>4 DEF Paid
  <2>. QED
      BY <2>4, <2>5
<1>3. ASSUME NEW c \in calls, NEW k \in Categories, CreateSonglist(c, k)
      PROVE  Paid'
  <2>1. page \in Threads /\ c.thread = page /\ c.todo \in SUBSET Categories
      BY <1>0, CallOfPage, CallTyped
  <2>2. PICK u \in Call :
              /\ calls' = (calls \ {c}) \cup {u}
              /\ u.op = "confirm" /\ u.todo = c.todo \ {k} /\ u.answer = c.answer
      BY <1>0, <1>3, CreateFacts
  <2>3. /\ UNCHANGED <<server, first, failed, page, store>>
        /\ c.op = "confirm" /\ k \in c.todo
        /\ built'[c.thread][k] = built[c.thread][k] + 1
        /\ \A t \in Threads, j \in Categories :
              t # c.thread \/ j # k => built'[t][j] = built[t][j]
      BY <1>0, <1>3, CreateFacts
  <2>4. c \in Confirmations /\ \A d \in Confirmations : d = c
      BY <1>0, <2>3 DEF Confirmations, Paid
  <2>5. Confirmations' = {u}
      BY <2>2, <2>4 DEF Confirmations
  <2>6. /\ store.results = NoResults /\ built[page][k] <= failed[page]
        /\ c.answer # Absent
        /\ \A j \in c.todo : built[page][j] <= failed[page]
    <3>. HIDE DEF Confirmations
    <3>1. /\ store.results = NoResults
          /\ c.answer = Absent => c.todo = {}
          /\ \A j \in Categories : j \in c.todo => built[page][j] <= failed[page]
        BY <1>0, <2>4 DEF Paid
    <3>. QED
        BY <2>1, <2>3, <3>1
  <2>. HIDE DEF Confirmations
  <2>7. ASSUME NEW t \in Threads, NEW j \in Categories
        PROVE  /\ built'[t][j] <= 1 + failed[t]
               /\ server[t].status = "" => built'[t][j] = 0
    <3>1. CASE t = page /\ j = k
      <4>1. built[page][k] \in Nat /\ failed[page] \in Nat
          BY <1>0, <2>1, BuiltTyped
      <4>2. server[page].status # ""
          BY <1>0, CallOfPage
      <4>3. built'[page][k] = built[page][k] + 1
          BY <2>1, <2>3
      <4>4. built'[page][k] <= 1 + failed[page]
          BY <2>6, <4>1, <4>3
      <4>. QED
          BY <3>1, <4>2, <4>4
    <3>2. CASE t # page \/ j # k
        BY <1>0, <2>1, <2>3, <3>2 DEF Paid
    <3>. QED
        BY <3>1, <3>2
  <2>8. u.answer # Absent /\ \A j \in u.todo : built'[page][j] <= failed[page]
      BY <2>1, <2>2, <2>3, <2>6
  <2>9. \A j \in Categories :
            j \in u.todo \/ u.answer = Absent => built'[page][j] <= failed[page]
      BY <2>8
  <2>. QED
      BY <2>1, <2>3, <2>5, <2>6, <2>7, <2>8, <2>9 DEF Paid
<1>. QED
    BY <1>1, <1>2, <1>3, <1>4, <1>5, <1>6 DEF Server

LEMMA PaidAnswer ==
    ASSUME WorkbenchInv, disorder = "never", disorder' = "never", Answer
    PROVE  Paid'
<1>0. TypeOK /\ Own /\ Paid /\ store \in Store
    BY DEF WorkbenchInv, TypeOK
<1>. SUFFICES ASSUME NEW c \in calls,
                     \/ GetAnswered(c) \/ StreamEnds(c) \/ FeedbackAnswered(c)
                     \/ ConfirmAnswered(c) \/ ConfirmFails(c) \/ Fails(c)
                     \/ CancelAnswered(c)
              PROVE  Paid'
    BY DEF Answer
<1>1. /\ page \in Threads /\ page # "none" /\ c.thread = page
      /\ c.answer \in StateResponse
    BY <1>0, CallOfPage, CallTyped
<1>2. ASSUME store'.results = store.results, c.op # "confirm",
             \/ calls' = calls \ {c}
             \/ calls' = (calls \ {c}) \cup {Ask("get", page)},
             UNCHANGED <<server, first, built, failed, page>>
      PROVE  Paid'
  <2>1. Ask("get", page).op = "get"
      BY DEF Ask
  <2>2. \A d : d \in Confirmations' <=> d \in Confirmations
      BY <1>2, <2>1 DEF Confirmations
  <2>. QED
      BY <1>0, <1>2, <2>2, PaidKept
<1>3. CASE GetAnswered(c)
    BY <1>0, <1>1, <1>2, <1>3, SetFromStateFields DEF GetAnswered
<1>4. CASE StreamEnds(c)
    BY <1>0, <1>1, <1>2, <1>4, SetFromStateFields, ErrorFields DEF StreamEnds
<1>5. CASE FeedbackAnswered(c)
  <2>1. /\ store' = [SetFromState(page, c.answer) EXCEPT !.log = {}]
        /\ c.op = "feedback"
        /\ \/ calls' = calls \ {c}
           \/ calls' = (calls \ {c}) \cup {Ask("get", page)}
        /\ UNCHANGED <<server, first, built, failed, page>>
      BY <1>1, <1>5 DEF FeedbackAnswered
  <2>2. store'.results = store.results
      BY <1>0, <1>1, <2>1, AnsweredFields
  <2>. QED
      BY <1>2, <2>1, <2>2
<1>6. CASE Fails(c)
    BY <1>2, <1>6 DEF Fails
<1>7. ASSUME c.op = "confirm", calls' = calls \ {c}
      PROVE  Confirmations' = {}
  <2>1. c \in Confirmations
      BY <1>7 DEF Confirmations
  <2>2. \A d \in Confirmations : d = c
      BY <1>0, <2>1 DEF Paid
  <2>. QED
      BY <1>7, <2>2 DEF Confirmations
<1>8. CASE ConfirmAnswered(c)
  <2>. DEFINE listed == Used(c.answer.plan)
  <2>1. /\ store' = ShowResults(page, listed) /\ calls' = calls \ {c}
        /\ UNCHANGED <<server, first, built, failed, page>> /\ c.op = "confirm"
      BY <1>1, <1>8 DEF ConfirmAnswered, ShowResults
  <2>2. listed \in SUBSET Categories
      BY <1>1, UsedIsCategories DEF StateResponse
  <2>. HIDE DEF listed
  <2>3. store'.results # NoResults
      BY <1>0, <1>1, <2>1, <2>2, ResultsFields
  <2>4. Confirmations' = {}
      BY <1>7, <2>1
  <2>. HIDE DEF Confirmations
  <2>. QED
      BY <1>0, <2>1, <2>3, <2>4 DEF Paid
<1>9. CASE ConfirmFails(c)
  <2>1. /\ failed' = [failed EXCEPT ![page] = @ + 1] /\ calls' = calls \ {c}
        /\ UNCHANGED <<server, first, built, page, store>> /\ c.op = "confirm"
      BY <1>1, <1>9 DEF ConfirmFails
  <2>2. Confirmations' = {}
      BY <1>7, <2>1
  <2>3. failed'[page] = failed[page] + 1 /\ \A t \in Threads \ {page} : failed'[t] = failed[t]
      BY <1>0, <1>1, <2>1 DEF TypeOK
  <2>4. \A k \in Categories : built[page][k] <= failed'[page]
    <3>1. \A k \in Categories : built[page][k] <= 1 + failed[page] /\ built[page][k] \in Nat
        BY <1>0, <1>1, BuiltTyped DEF Paid
    <3>. QED
        BY <1>0, <1>1, <2>3, <3>1, BuiltTyped
  <2>5. \A t \in Threads, k \in Categories : built[t][k] <= 1 + failed'[t]
    <3>1. \A t \in Threads, k \in Categories :
              built[t][k] <= 1 + failed[t] /\ built[t][k] \in Nat /\ failed[t] \in Nat
        BY <1>0, BuiltTyped DEF Paid
    <3>. QED
        BY <2>3, <3>1
  <2>. HIDE DEF Confirmations
  <2>. QED
      BY <1>0, <2>1, <2>2, <2>4, <2>5 DEF Paid
<1>10. CASE CancelAnswered(c)
  <2>1. GoHome(calls \ {c}) /\ UNCHANGED <<server, first, built, failed>>
      BY <1>10 DEF CancelAnswered
  <2>. QED
      BY <1>0, <2>1, HomeFacts, PaidAtHome
<1>. QED
    BY <1>3, <1>4, <1>5, <1>6, <1>8, <1>9, <1>10

-----------------------------------------------------------------------------
(* Every step keeps the invariant.                                          *)

\* Disorder does not heal; it is over when the user goes home in order.
LEMMA HistoryFacts ==
    ASSUME TypeOK, Next
    PROVE  /\ disorder' = "never" => disorder = "never"
           /\ disorder = "now" /\ disorder' # "now" =>
                 page' = "none" /\ store' = InitialStore /\ calls' = {}
<1>1. ASSUME NEW cs \in SUBSET calls, GoHome(cs)
      PROVE  /\ disorder' = "never" => disorder = "never"
             /\ disorder = "now" /\ disorder' # "now" =>
                   page' = "none" /\ store' = InitialStore /\ calls' = {}
  <2>1. /\ page' = "none" /\ store' = InitialStore
        /\ \/ calls' = {} /\ disorder' = IF disorder = "now" THEN "over" ELSE disorder
           \/ disorder = "never" /\ disorder' = "now"
      BY <1>1, GoHomeFacts
  <2>. QED
      BY <2>1
<1>2. CASE Done \/ Dismiss \/ \E c \in calls : CancelAnswered(c)
    BY <1>1, <1>2 DEF Done, Dismiss, CancelAnswered
<1>3. CASE (\E t \in Threads : Start(t)) \/ Cancel
    BY <1>3 DEF Start, Cancel
<1>4. CASE (\E t \in Threads : Return(t)) \/ Leave
    BY <1>4, DisorderTyped DEF Return, Leave
<1>5. CASE \/ \E s \in Songs, c \in Categories : Drag(s, c)
           \/ SubmitFeedback \/ Confirm
  <2>1. Act
      BY <1>5 DEF Drag, SubmitFeedback, Confirm
  <2>. QED
      BY <2>1, DisorderTyped
<1>6. CASE Server
    BY <1>6 DEF Server, Propose, NextBatch, GiveUp, Read, TakeFeedback, Refine,
                CreateSonglist
<1>7. CASE \E c \in calls : \/ GetAnswered(c) \/ StreamEnds(c) \/ FeedbackAnswered(c)
                            \/ ConfirmAnswered(c) \/ ConfirmFails(c) \/ Fails(c)
  <2>1. disorder' = disorder
      BY <1>7 DEF GetAnswered, StreamEnds, FeedbackAnswered, ConfirmAnswered,
                  ConfirmFails, Fails
  <2>. QED
      BY <2>1
<1>. QED
    BY <1>2, <1>3, <1>4, <1>5, <1>6, <1>7 DEF Next, User, Answer

LEMMA WorkbenchInvInit == Init => WorkbenchInv
<1>. SUFFICES ASSUME Init PROVE WorkbenchInv
    OBVIOUS
<1>1. Terminal
    BY AbsentTyped DEF Init, Terminal
<1>2. /\ page = "none" /\ calls = {} /\ store = InitialStore
      /\ store.threadId = "none" /\ store.log = {} /\ store.status = ""
      /\ store.results = NoResults /\ Confirmations = {}
    BY InitialStoreTyped DEF Init, Confirmations
<1>6. SentOrLate
    BY <1>2 DEF SentOrLate
<1>3. Own
    BY <1>2 DEF Own
<1>4. Agreed
    BY <1>2 DEF Agreed
<1>5. Paid
  <2>1. \A t \in Threads, k \in Categories : built[t][k] = 0 /\ failed[t] = 0
      BY DEF Init
  <2>2. \A t \in Threads, k \in Categories : built[t][k] <= 1 + failed[t]
      BY <2>1
  <2>. HIDE DEF Confirmations
  <2>. QED
      BY <1>2, <2>1, <2>2 DEF Paid
<1>. QED
    BY <1>1, <1>3, <1>4, <1>5, <1>6, WorkbenchTypeInit DEF WorkbenchInv

LEMMA WorkbenchInvStep == WorkbenchInv /\ [Next]_vars => WorkbenchInv'
<1>. SUFFICES ASSUME WorkbenchInv, [Next]_vars PROVE WorkbenchInv'
    OBVIOUS
<1>1. CASE UNCHANGED vars
    BY <1>1 DEF vars, WorkbenchInv, TypeOK, Terminal, SentOrLate, Own, Agreed, Paid,
                Confirmations, Raced
<1>2. CASE Next
  <2>1. TypeOK /\ Terminal /\ SentOrLate
      BY DEF WorkbenchInv
  <2>2. TypeOK'
      BY <1>2, <2>1, UserTyped, ServerTyped, AnswerTyped DEF Next
  <2>3. Terminal'
      BY <1>2, <2>1, UserTerminal, ServerTerminal, AnswerTerminal DEF Next
  <2>6. SentOrLate'
      BY <1>2, <2>1, UserSends, ServerSends, AnswerSends DEF Next
  <2>4. ASSUME disorder' # "now"
        PROVE  Own' /\ (~Raced(page)' => Agreed')
    <3>1. CASE disorder = "now"
      <4>1. page' = "none" /\ store' = InitialStore /\ calls' = {}
          BY <1>2, <2>1, <2>4, <3>1, HistoryFacts
      <4>. QED
          BY <4>1, HomeInOrder
    <3>2. CASE disorder # "now"
        BY <1>2, <2>4, <3>2, UserInOrder, ServerInOrder, AnswerInOrder DEF Next
    <3>. QED
        BY <3>1, <3>2
  <2>5. ASSUME disorder' = "never"
        PROVE  Paid'
    <3>1. disorder = "never"
        BY <1>2, <2>1, <2>5, HistoryFacts
    <3>. QED
        BY <1>2, <2>5, <3>1, PaidUser, PaidServer, PaidAnswer DEF Next
  <2>. QED
      BY <2>2, <2>3, <2>4, <2>5, <2>6 DEF WorkbenchInv
<1>. QED
    BY <1>1, <1>2

LEMMA WorkbenchInvariant == Spec => []WorkbenchInv
BY WorkbenchInvInit, WorkbenchInvStep, PTL DEF Spec

-----------------------------------------------------------------------------
(* What follows for the user.                                               *)

\* One store serves all threads and every answer writes it, and yet, in order, the
\* board shows the thread in the URL, and a feedback carries drags of its own board.
THEOREM BoardShowsItsThread == Spec => []StoreOfPage
<1>1. WorkbenchInv => StoreOfPage
  <2>. SUFFICES ASSUME WorkbenchInv, disorder # "now" PROVE StoreMatchesPage
      BY DEF StoreOfPage
  <2>1. Own
      BY DEF WorkbenchInv
  <2>. QED
      BY <2>1 DEF Own, StoreMatchesPage
<1>. QED
    BY <1>1, WorkbenchInvariant, PTL

\* In order, what the confirm button builds is what the user sees, if nothing was
\* dragged and no feedback overtook the first run.
THEOREM ConfirmsWhatIsShown == Spec => []ConfirmBuildsBoard
<1>1. WorkbenchInv => ConfirmBuildsBoard
    BY DEF WorkbenchInv, ConfirmBuildsBoard, CanConfirm, Agreed
<1>. QED
    BY <1>1, WorkbenchInvariant, PTL

\* In order and without a race of runs, the results screen names the categories of
\* the plan, and every one has a list.
THEOREM ResultsTellTruth == Spec => []ResultsAreBuilt
<1>1. WorkbenchInv => ResultsAreBuilt
    BY DEF WorkbenchInv, ResultsAreBuilt, ResultsScreen, Agreed
<1>. QED
    BY <1>1, WorkbenchInvariant, PTL

\* A category has more lists than one only if confirmations failed.
THEOREM CategoriesBuiltOnce == Spec => []BuiltOnce
<1>1. WorkbenchInv => BuiltOnce
    BY DEF WorkbenchInv, BuiltOnce, Paid
<1>. QED
    BY <1>1, WorkbenchInvariant, PTL

\* Wherever the user goes and whatever fails: a drag leaves the log by a reset of
\* the store, by a later move of the song, or with the answer of a feedback that
\* had sent it, or that was on its way when the song was dragged.
THEOREM DragsNeverLost == Spec => DragsKept
<1>. DEFINE Kept(d) ==
          \/ store' = InitialStore
          \/ \E e \in store'.log : e.song = d.song
          \/ \E c \in calls \ calls' :
                c.op = "feedback" /\ c.answer # Absent /\ (d \in c.drags \/ d.late)
<1>1. ASSUME WorkbenchInv, Next, NEW d \in store.log \ store'.log
      PROVE  Kept(d)
  <2>1. TypeOK /\ SentOrLate /\ store \in Store
      BY <1>1 DEF WorkbenchInv, TypeOK
  <2>2. store'.log # store.log
      OBVIOUS
  <2>3. CASE User
    <3>1. ASSUME NEW s \in Songs, NEW c \in Categories, Drag(s, c)
          PROVE  Kept(d)
      <4>1. page \in Threads /\ s \in DOMAIN store.items /\ store' = MoveItem(s, c)
          BY <2>1, <3>1 DEF Drag, Board, SongCard, TypeOK
      <4>2. /\ store'.log = {e \in store.log : e.song # s} \cup {Moved(s, c)}
            /\ Moved(s, c).song = s
          BY <2>1, <4>1, MoveItemFields
      <4>3. d.song = s /\ Moved(s, c) \in store'.log
          BY <4>2
      <4>. QED
          BY <4>2, <4>3
    <3>2. CASE Done \/ Dismiss
        BY <3>2 DEF Done, Dismiss, GoHome, Reset
    <3>3. CASE \/ \E t \in Threads : Start(t) \/ Return(t)
               \/ Leave \/ SubmitFeedback \/ Confirm \/ Cancel
        BY <2>2, <3>3 DEF Start, Return, Leave, SubmitFeedback, Confirm, Cancel
    <3>. QED
        BY <2>3, <3>1, <3>2, <3>3 DEF User
  <2>4. CASE Server
    <3>1. store' = store
        BY <2>4 DEF Server, Propose, NextBatch, GiveUp, Read, TakeFeedback, Refine,
                    CreateSonglist
    <3>. QED
        BY <2>2, <3>1
  <2>5. ASSUME NEW c \in calls,
               \/ GetAnswered(c) \/ StreamEnds(c) \/ FeedbackAnswered(c)
               \/ ConfirmAnswered(c) \/ ConfirmFails(c) \/ Fails(c)
               \/ CancelAnswered(c)
        PROVE  Kept(d)
    <3>1. /\ c.thread \in Threads /\ c.answer \in StateResponse
          /\ Used(c.answer.plan) \in SUBSET Categories
        BY <2>1, CallTyped, UsedIsCategories DEF StateResponse
    <3>2. CASE GetAnswered(c) \/ StreamEnds(c)
      <4>1. \/ store' = SetFromState(c.thread, c.answer)
            \/ store' = [store EXCEPT !.error = TRUE]
          BY <3>2 DEF GetAnswered, StreamEnds
      <4>2. SetFromState(c.thread, c.answer).log = store.log
          BY <2>1, <3>1, SetFromStateFields
      <4>3. [store EXCEPT !.error = TRUE].log = store.log
          BY <2>1, ErrorFields
      <4>. QED
          BY <2>2, <4>1, <4>2, <4>3
    <3>3. CASE FeedbackAnswered(c)
      <4>1. /\ c.op = "feedback" /\ c.answer # Absent
            /\ calls' \subseteq (calls \ {c}) \cup {Ask("get", page)}
          BY <3>3 DEF FeedbackAnswered
      <4>2. Ask("get", page).op = "get"
          BY DEF Ask
      <4>3. c \in calls \ calls'
          BY <4>1, <4>2
      <4>4. d \in c.drags \/ d.late
          BY <2>1, <4>1 DEF SentOrLate
      <4>. QED
          BY <4>1, <4>3, <4>4
    <3>4. CASE ConfirmAnswered(c)
      <4>1. store' = ShowResults(c.thread, Used(c.answer.plan))
          BY <3>4 DEF ConfirmAnswered, ShowResults
      <4>. QED
          BY <2>1, <2>2, <3>1, <4>1, ResultsFields
    <3>5. CASE ConfirmFails(c) \/ Fails(c)
        BY <2>2, <3>5 DEF ConfirmFails, Fails
    <3>6. CASE CancelAnswered(c)
        BY <3>6 DEF CancelAnswered, GoHome, Reset
    <3>. QED
        BY <2>5, <3>2, <3>3, <3>4, <3>5, <3>6
  <2>. QED
      BY <1>1, <2>3, <2>4, <2>5 DEF Next, Answer
<1>2. WorkbenchInv /\ [Next]_vars => [\A d \in store.log \ store'.log : Kept(d)]_vars
    BY <1>1
<1>. QED
    BY <1>2, WorkbenchInvariant, PTL DEF Spec, DragsKept

=============================================================================
