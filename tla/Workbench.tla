------------------------------ MODULE Workbench ------------------------------
(***************************************************************************)
(* The workbench page (frontend/src/pages/ClassifyWorkbench.tsx) on one    *)
(* store for all threads (stores/classify.ts), with the calls it makes     *)
(* (hooks/queries.ts) and the confirm endpoint (backend/app/api/           *)
(* classify.py), as one user walks from thread to thread.                  *)
(*                                                                         *)
(* A run of a thread is taken in few steps here (ClassifyWorkflow has them *)
(* node by node): the first run, and a resume run that a feedback may start*)
(* while the first is still at work.  Answers outlive the page that asked: *)
(* they write the store whatever page is mounted when they arrive.         *)
(***************************************************************************)
EXTENDS Naturals

CONSTANTS Threads, Songs, Categories,
          MaxIterations,   \* config.classifyMaxIterations
          MaxFailures,     \* bound on the confirmations of a thread that fail
          Wide             \* FALSE: more bounds on what the user goes through (Smooth,
                           \* Only), for TLC

ASSUME WorkbenchAssumption == /\ MaxIterations \in Nat /\ MaxFailures \in Nat
                              /\ "none" \notin Threads /\ Wide \in BOOLEAN

VARIABLES
    server,   \* of each thread: its checkpoint as GET answers it
    first,    \* of each thread its first run: at work ("alone", or "joined": a
              \* resume run has worked on the thread too), or at its end
    built,    \* of each thread and category: the lists made on QQ Music
    failed,   \* of each thread: the confirmations that raised (history)
    page,     \* the thread in the URL of the workbench, or "none": /songlist
    store,    \* useClassifyStore
    cache,    \* of each thread: has TanStack Query an answer of GET, and is it
              \* invalidated ("stale")?
    calls,    \* requests and streams on their way
    disorder  \* history: has the user left a workbench other than by its buttons,
              \* or by one with answers on their way, or come back to one, or
              \* used it after "cancel"?  "over": and then left one in order.

vars == <<server, first, built, failed, page, store, cache, calls, disorder>>

NoItems == [s \in {} |-> ""]
Proposals == [Songs -> Categories] \cup {NoItems}
Used(items) == {items[s] : s \in DOMAIN items}

\* "classifying" is a checkpoint that has no status yet.
Statuses == {"", "classifying", "awaiting_feedback", "refining", "failed", "finalized"}
StateResponse == [status : Statuses, iteration : 0..MaxIterations,
                  proposal : Proposals, plan : Proposals]
Absent == [status |-> "", iteration |-> 0, proposal |-> NoItems, plan |-> NoItems]
Classifying == [Absent EXCEPT !.status = "classifying"]

\* History: the page on which the song was dragged, and whether a feedback was
\* on its way then.
DragFeedback == [song : Songs, to : Categories, on : Threads, late : BOOLEAN]

\* Results: for which thread (history), and the categories that have a list.
Results == [of : Threads \cup {"none"}, listed : SUBSET Categories]
NoResults == [of |-> "none", listed |-> {}]

Store == [threadId : Threads \cup {"none"}, status : Statuses,
          iteration : 0..MaxIterations, items : Proposals,
          log : SUBSET DragFeedback, results : Results, error : BOOLEAN]

InitialStore == [threadId |-> "none", status |-> "", iteration |-> 0,
                 items |-> NoItems, log |-> {},
                 results |-> NoResults, error |-> FALSE]

\* "answer" is Absent until the server has one; "mine": asked by the page that
\* is mounted, whose isPending it is.
Call == [op : {"get", "stream", "feedback", "confirm", "cancel"}, thread : Threads,
         mine : BOOLEAN, answer : StateResponse, drags : SUBSET DragFeedback,
         todo : SUBSET Categories]
Ask(op, t) == [op |-> op, thread |-> t, mine |-> TRUE, answer |-> Absent,
               drags |-> {}, todo |-> {}]

\* The drag log has one entry for a song, its last move.
TypeOK ==
    /\ server \in [Threads -> StateResponse]
    /\ first \in [Threads -> {"none", "alone", "joined", "ended", "overtook"}]
    /\ built \in [Threads -> [Categories -> Nat]]
    /\ failed \in [Threads -> 0..MaxFailures]
    /\ page \in Threads \cup {"none"}
    /\ store \in Store
    /\ cache \in [Threads -> {"none", "read", "stale"}]
    /\ calls \subseteq Call
    /\ disorder \in {"never", "now", "over"}
    /\ \A d, e \in store.log : d.song = e.song => d = e

Init ==
    /\ server = [t \in Threads |-> Absent]
    /\ first = [t \in Threads |-> "none"]
    /\ built = [t \in Threads |-> [c \in Categories |-> 0]]
    /\ failed = [t \in Threads |-> 0]
    /\ page = "none"
    /\ store = InitialStore
    /\ cache = [t \in Threads |-> "none"]
    /\ calls = {}
    /\ disorder = "never"

-----------------------------------------------------------------------------
(* The store.                                                               *)

\* The page does not read the plan, which is left out.
SetFromState(t, s) ==
    [store EXCEPT !.threadId = t, !.items = s.proposal,
                  !.iteration = s.iteration, !.status = s.status]

Moved(s, c) == [song |-> s, to |-> c, on |-> page,
                late |-> \E f \in calls : f.op = "feedback"]

\* Fault: the entry of an earlier move is kept.
MoveItemAppends(s, c) ==
    [store EXCEPT !.items[s] = c, !.log = @ \cup {Moved(s, c)}]

MoveItem(s, c) ==
    [store EXCEPT !.items[s] = c,
                  !.log = {d \in @ : d.song # s} \cup {Moved(s, c)}]

\* Fault: what the user did is forgotten, what the server said is kept.
ResetLogOnly == [store EXCEPT !.log = {}, !.results = NoResults]

Reset == InitialStore

-----------------------------------------------------------------------------
(* What the page shows, and which controls it enables.                      *)

Pending(op) == \E c \in calls : c.op = op /\ c.mine

\* Fault: a confirmation that runs does not disable the buttons.
SubmittingFeedbackOnly == Pending("feedback")

Submitting == Pending("feedback") \/ Pending("confirm")

ResultsScreen == page # "none" /\ store.results # NoResults
FailedScreen == page # "none" /\ ~ResultsScreen /\ store.error
\* No answer has this status, so progress is never shown.
RunningScreen == store.status = "running"
Loading == /\ cache[page] = "none" /\ store.items = NoItems
           /\ \E c \in calls : c.op = "get" /\ c.thread = page
Board == /\ page # "none"
         /\ ~ResultsScreen /\ ~FailedScreen /\ ~RunningScreen
         /\ ~Loading
CanConfirm == store.status = "finalized"

\* A card for every category that has a song; its songs can be dragged.
Category(c) == c \in Used(store.items)
SongCard(s) == s \in DOMAIN store.items

\* A thread whose first run went on after a feedback had made a resume run of it:
\* the two overwrite each other.
Raced(t) == t \in Threads /\ first[t] \in {"joined", "overtook"}

\* Bounds, unless Wide: runs race and confirmations fail for a user of one thread.
Smooth(t) == Wide \/ (failed[t] = 0 /\ ~Raced(t))
Only(t) == Wide \/ \A u \in Threads \ {t} : server[u] = Absent

\* Bounds: one disorder, before the first round unless Wide, and until it is over
\* the user opens threads and leaves them, but neither drags nor submits.
Disorder ==
    /\ disorder = "never" /\ disorder' = "now"
    /\ \A u \in Threads : Smooth(u) /\ (Wide \/ server[u].iteration = 0)

\* The stream closes with the page, so it need not be waited for.
Ordered(cs) ==
    IF \A c \in cs : c.op = "stream"
    THEN disorder' = IF disorder = "now" THEN "over" ELSE disorder
    ELSE Disorder

Act == /\ disorder # "now"
       /\ IF Pending("cancel") THEN Disorder ELSE UNCHANGED disorder

-----------------------------------------------------------------------------
(* Coming and going.  A page that unmounts closes its stream; its requests  *)
(* go on.                                                                   *)

Unmounted(cs) == {[c EXCEPT !.mine = FALSE] : c \in {d \in cs : d.op # "stream"}}

\* useQuery asks unless its data is on its way or no older than 30 s.
Mount(t) ==
    LET asked == \E c \in calls : c.op = "get" /\ c.thread = t
    IN  /\ page' = t
        /\ \E fresh \in IF cache[t] = "read" THEN BOOLEAN ELSE {FALSE} :
             calls' = Unmounted(calls) \cup {Ask("stream", t)}
                      \cup IF fresh \/ asked THEN {} ELSE {Ask("get", t)}

\* SonglistInput starts a thread and navigates to it.
Start(t) ==
    /\ page = "none" /\ server[t] = Absent
    /\ \A u \in Threads : Smooth(u)
    /\ server' = [server EXCEPT ![t] = Classifying]
    /\ first' = [first EXCEPT ![t] = "alone"]
    /\ Mount(t)
    /\ UNCHANGED <<built, failed, store, cache, disorder>>

\* By the history of the browser, or a link.
Return(t) ==
    /\ Disorder
    /\ page # t /\ server[t] # Absent
    /\ Mount(t)
    /\ UNCHANGED <<server, first, built, failed, store, cache>>

Leave ==
    /\ Disorder
    /\ page # "none"
    /\ page' = "none"
    /\ calls' = Unmounted(calls)
    /\ UNCHANGED <<server, first, built, failed, store, cache>>

\* The buttons that leave: reset, then navigate, with what is still on its way.
GoHome(cs) ==
    /\ page' = "none"
    /\ store' = Reset
    /\ calls' = Unmounted(cs)
    /\ Ordered(cs)

Done ==
    /\ ResultsScreen
    /\ GoHome(calls)
    /\ UNCHANGED <<server, first, built, failed, cache>>

Dismiss ==
    /\ FailedScreen
    /\ GoHome(calls)
    /\ UNCHANGED <<server, first, built, failed, cache>>

-----------------------------------------------------------------------------
(* What the user does on the board.                                         *)

Drag(s, c) ==
    /\ Board /\ Act
    /\ SongCard(s) /\ Category(c) /\ store.items[s] # c
    /\ store' = MoveItem(s, c)
    /\ UNCHANGED <<server, first, built, failed, page, cache, calls>>

\* Fault: the drag log is cleared when it is sent, not when it was taken.
SubmitFeedbackClears ==
    /\ Board /\ Act
    /\ ~Submitting /\ ~CanConfirm
    /\ first[page] # "alone" \/ Only(page)
    /\ calls' = calls \cup {[Ask("feedback", page) EXCEPT !.drags = store.log]}
    /\ store' = [store EXCEPT !.log = {}]
    /\ UNCHANGED <<server, first, built, failed, page, cache>>

SubmitFeedback ==
    /\ Board /\ Act
    /\ ~Submitting /\ ~CanConfirm
    /\ first[page] # "alone" \/ Only(page)
    /\ calls' = calls \cup {[Ask("feedback", page) EXCEPT !.drags = store.log]}
    /\ UNCHANGED <<server, first, built, failed, page, store, cache>>

Confirm ==
    /\ Board /\ Act
    /\ ~Submitting /\ CanConfirm
    /\ calls' = calls \cup {Ask("confirm", page)}
    /\ UNCHANGED <<server, first, built, failed, page, store, cache>>

Cancel ==
    /\ Board /\ UNCHANGED disorder
    /\ ~Submitting
    /\ calls' = calls \cup {Ask("cancel", page)}
    /\ UNCHANGED <<server, first, built, failed, page, store, cache>>

-----------------------------------------------------------------------------
(* The server.                                                              *)

\* What a run publishes reaches a stream that listens by then.
Publish(t, event) ==
    \E heard \in SUBSET {c \in calls : c.op = "stream" /\ c.thread = t} :
        calls' = (calls \ heard) \cup {[c EXCEPT !.answer = event] : c \in heard}

Ends(t) ==
    /\ first[t] \in {"alone", "joined"}
    /\ first' = [first EXCEPT ![t] = IF @ = "alone" THEN "ended" ELSE "overtook"]

\* The first run knows of no resume run: it writes a checkpoint of its own.
Propose(t) ==
    /\ Ends(t)
    /\ \E p \in [Songs -> Categories] :
         LET s == [Absent EXCEPT !.status = "awaiting_feedback", !.proposal = p]
         IN  server' = [server EXCEPT ![t] = s] /\ Publish(t, s)
    /\ UNCHANGED <<built, failed, page, store, cache, disorder>>

NextBatch(t) ==
    /\ first[t] = "joined"
    /\ server' = [server EXCEPT ![t] = Classifying]
    /\ UNCHANGED <<first, built, failed, page, store, cache, calls, disorder>>

\* The status goes into the latest checkpoint, if that can be written.
GiveUp(t) ==
    /\ Ends(t)
    /\ LET s == [server[t] EXCEPT !.status = "failed"]
       IN  /\ server' \in {server, [server EXCEPT ![t] = s]}
           /\ Publish(t, s)
    /\ UNCHANGED <<built, failed, page, store, cache, disorder>>

\* The checkpoint is read: by GET and confirm, and by a stream when it connects
\* (again, if it was cut), which has something to say of these two only.
Read(c) ==
    /\ c.op \in {"get", "stream", "confirm"} /\ c.answer = Absent
    /\ LET s == server[c.thread]
       IN  /\ c.op = "stream" => s.status \in {"awaiting_feedback", "failed"}
           /\ calls' = (calls \ {c}) \cup
                 {[c EXCEPT !.answer = s,
                            !.todo = IF c.op = "confirm" THEN Used(s.plan) ELSE {}]}
    /\ UNCHANGED <<server, first, built, failed, page, store, cache, disorder>>

\* A resume run.  await_feedback takes the feedback; the run may end there, as a
\* reclassification that raises does.
TakeFeedback(c) ==
    /\ c.op = "feedback" /\ c.answer = Absent
    /\ server[c.thread].status = "awaiting_feedback"
    /\ server' = [server EXCEPT ![c.thread].status = "refining"]
    /\ UNCHANGED <<first, built, failed, page, store, cache, calls, disorder>>

\* What the pending node and those after it make of a checkpoint: nothing when it
\* has ended, a first proposal when it has none, else the plan or another round.
Refined(s) ==
    IF s.plan # NoItems THEN {s}
    ELSE IF s.proposal = NoItems
    THEN {[s EXCEPT !.status = "awaiting_feedback", !.proposal = p] :
              p \in [Songs -> Categories]}
    ELSE IF s.iteration = MaxIterations
    THEN {[s EXCEPT !.status = "finalized", !.plan = s.proposal]}
    ELSE {[s EXCEPT !.status = "awaiting_feedback", !.iteration = @ + 1, !.proposal = p] :
              p \in [Songs -> Categories]}

Refine(c) ==
    /\ c.op = "feedback" /\ c.answer = Absent
    /\ server[c.thread].status # "awaiting_feedback"
    /\ \E s \in Refined(server[c.thread]) :
        /\ server' = [server EXCEPT ![c.thread] = s]
        /\ calls' = (calls \ {c}) \cup {[c EXCEPT !.answer = s]}
    /\ first' = [first EXCEPT ![c.thread] = IF @ = "alone" THEN "joined" ELSE @]
    /\ UNCHANGED <<built, failed, page, store, cache, disorder>>

\* confirm: a list per category, one after the other.
CreateSonglist(c, k) ==
    /\ c.op = "confirm" /\ k \in c.todo
    /\ built' = [built EXCEPT ![c.thread][k] = @ + 1]
    /\ calls' = (calls \ {c}) \cup {[c EXCEPT !.todo = @ \ {k}]}
    /\ UNCHANGED <<server, first, failed, page, store, cache, disorder>>

-----------------------------------------------------------------------------
(* Answers.                                                                 *)

GetAnswered(c) ==
    /\ c.op = "get" /\ c.answer # Absent
    /\ store' = SetFromState(c.thread, c.answer)
    /\ cache' = [cache EXCEPT ![c.thread] = "read"]
    /\ calls' = calls \ {c}
    /\ UNCHANGED <<server, first, built, failed, page, disorder>>

StreamEnds(c) ==
    /\ c.op = "stream" /\ c.answer # Absent
    /\ store' = IF c.answer.status = "failed" THEN [store EXCEPT !.error = TRUE]
                ELSE SetFromState(c.thread, c.answer)
    /\ calls' = calls \ {c}
    /\ UNCHANGED <<server, first, built, failed, page, cache, disorder>>

\* Fault: of the answer only the status reaches the store.
FeedbackAnsweredStatus(c) ==
    /\ c.op = "feedback" /\ c.answer # Absent
    /\ store' = [store EXCEPT !.status = c.answer.status, !.log = {}]
    /\ calls' = calls \ {c}
    /\ UNCHANGED <<server, first, built, failed, page, cache, disorder>>

\* onSuccess runs whatever is mounted; invalidating asks again if it is this page.
FeedbackAnswered(c) ==
    /\ c.op = "feedback" /\ c.answer # Absent
    /\ store' = [SetFromState(c.thread, c.answer) EXCEPT !.log = {}]
    /\ LET final == c.answer.status = "finalized"
       IN  /\ cache' = IF final /\ cache[c.thread] = "read"
                       THEN [cache EXCEPT ![c.thread] = "stale"] ELSE cache
           /\ calls' = (calls \ {c})
                       \cup IF final /\ page = c.thread
                            THEN {Ask("get", page)} ELSE {}
    /\ UNCHANGED <<server, first, built, failed, page, disorder>>

\* Fault: the answer does not wait for the last category.
ConfirmAnsweredEarly(c) ==
    /\ c.op = "confirm" /\ c.answer.plan # NoItems
    /\ store' = [store EXCEPT !.results =
                    [of |-> c.thread, listed |-> Used(c.answer.plan) \ c.todo]]
    /\ calls' = calls \ {c}
    /\ UNCHANGED <<server, first, built, failed, page, cache, disorder>>

ConfirmAnswered(c) ==
    /\ c.op = "confirm" /\ c.todo = {} /\ c.answer.plan # NoItems
    /\ store' = [store EXCEPT !.results =
                    [of |-> c.thread, listed |-> Used(c.answer.plan)]]
    /\ calls' = calls \ {c}
    /\ UNCHANGED <<server, first, built, failed, page, cache, disorder>>

\* QQ Music, or the lack of a plan, raises; what was built stays.
ConfirmFails(c) ==
    /\ c.op = "confirm" /\ (c.todo # {} \/ c.answer.plan = NoItems)
    /\ failed[c.thread] < MaxFailures /\ Only(c.thread)
    /\ failed' = [failed EXCEPT ![c.thread] = @ + 1]
    /\ calls' = calls \ {c}
    /\ UNCHANGED <<server, first, built, page, store, cache, disorder>>

\* A toast, at any time; a feedback may have been taken all the same.
Fails(c) ==
    /\ c.op \in {"get", "feedback"}
    /\ calls' = calls \ {c}
    /\ UNCHANGED <<server, first, built, failed, page, store, cache, disorder>>

\* Success and failure alike, wherever the user is by then.
CancelAnswered(c) ==
    /\ c.op = "cancel"
    /\ GoHome(calls \ {c})
    /\ UNCHANGED <<server, first, built, failed, cache>>

-----------------------------------------------------------------------------
User == \/ \E t \in Threads : Start(t) \/ Return(t)
        \/ Leave \/ Done \/ Dismiss
        \/ \E s \in Songs, c \in Categories : Drag(s, c)
        \/ SubmitFeedback \/ Confirm \/ Cancel

Server == \/ \E t \in Threads : Propose(t) \/ NextBatch(t) \/ GiveUp(t)
          \/ \E c \in calls : \/ Read(c) \/ TakeFeedback(c) \/ Refine(c)
                             \/ \E k \in Categories : CreateSonglist(c, k)

Answer == \E c \in calls : \/ GetAnswered(c) \/ StreamEnds(c)
                           \/ FeedbackAnswered(c) \/ ConfirmAnswered(c)
                           \/ ConfirmFails(c) \/ Fails(c) \/ CancelAnswered(c)

Next == User \/ Server \/ Answer
Spec == Init /\ [][Next]_vars

-----------------------------------------------------------------------------
(* Properties.                                                              *)

\* The board of a thread shows that thread and not the one before it, and what
\* is sent to a thread are drags made on its own board, although the store is
\* one for all threads and every answer writes it.  Not claimed from where a
\* workbench was left without reset, or with requests on their way, to where one
\* is left by a button with none: late answers do write the next board then.
StoreMatchesPage ==
    /\ page # "none" /\ store.threadId # "none" => store.threadId = page
    /\ \A d \in store.log : d.on = page
    /\ \A c \in calls : c.op = "feedback" => \A d \in c.drags : d.on = c.thread

StoreOfPage == disorder # "now" => StoreMatchesPage

\* The confirm button, on a board without drags, builds the grouping on the
\* board, although drags, feedback answers, GET and stream come in any order;
\* with the exception of StoreOfPage, and of threads whose runs raced.
ConfirmBuildsBoard ==
    disorder # "now" /\ ~Raced(page) /\ Board /\ CanConfirm /\ store.log = {}
        => store.items = server[page].plan

\* The results on the page are of its thread and name every category of the
\* plan, and each of them has a list on QQ Music, with the same exceptions.
ResultsAreBuilt ==
    disorder # "now" /\ ~Raced(page) /\ ResultsScreen =>
        /\ store.results.of = page
        /\ store.results.listed = Used(server[page].plan)
        /\ \A k \in store.results.listed : built[page][k] > 0

\* A category gets a second list only when a confirmation failed half-way.
BuiltOnce ==
    disorder = "never" =>
        \A t \in Threads, k \in Categories : built[t][k] <= 1 + failed[t]

\* A recorded drag is forgotten only when the store is reset, when the song is
\* moved again, or when a feedback is answered that had sent it; a drag made
\* while a feedback is on its way is forgotten, unsent, when that is answered
\* (queries.ts:106 clears the whole log).  A feedback that fails keeps them.
DragsKept ==
    [][\A d \in store.log \ store'.log :
          \/ store' = InitialStore
          \/ \E e \in store'.log : e.song = d.song
          \/ \E c \in calls \ calls' :
                c.op = "feedback" /\ c.answer # Absent /\ (d \in c.drags \/ d.late)]_vars

=============================================================================
