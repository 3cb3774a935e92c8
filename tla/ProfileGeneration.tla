-------------------------- MODULE ProfileGeneration --------------------------
(***************************************************************************)
(* One listening profile of tuneset: the Celery task that makes it         *)
(* (backend/app/tasks/profile_task.py), the SSE endpoint and the result    *)
(* endpoint (backend/app/api/profile.py) and the hook of the page that     *)
(* waits for it (frontend/src/hooks/useProfileStream.ts).  ProfilePage puts *)
(* the page around it.                                                     *)
(*                                                                         *)
(* Nothing is kept of an event: a page that subscribes after "done" has    *)
(* only the end of its own retries.  The result is stored for one hour,    *)
(* longer than all retries take, so its expiry is left out.                *)
(***************************************************************************)
EXTENDS Naturals, Sequences

CONSTANT
    MaxRetries      \* reconnections of the EventSource (3 in the code)

ASSUME MaxRetriesAssumption == MaxRetries \in Nat

VARIABLES
    task,       \* the task: where it is, the progress events it has published,
                \* how it ends
    result,     \* profile:result:<thread_id>
    inbox,      \* events sent to the subscriber of profile:progress:<thread_id>
    es,         \* the EventSource of the page
    retries,    \* retriesRef
    fetch,      \* fetchResult: not called, request sent, answered 404/400 and
                \* waiting 2 s, done
    view        \* state of the hook

hook == <<task, result, inbox, es, retries, fetch, view>>

Outcomes == {"complete", "songs_too_few", "ai_failed", "exception"}
Results == {"none"} \cup Outcomes
Stages == {"progress", "done"}
LastStage == 4      \* fetch_labels twice, aggregating, ai_personality

TypeOK ==
    /\ task \in [pc : {"idle", "queued", "running", "ending", "over", "dead"},
                 stage : 0..LastStage, outcome : Results]
    /\ result \in Results
    /\ inbox \in Seq(Stages)
    /\ es \in {"none", "connecting", "open", "timer", "closed"}
    /\ retries \in 0..MaxRetries
    /\ fetch \in {"none", "asked", "timer", "done"}
    /\ view \in [loading : BOOLEAN, done : BOOLEAN, error : BOOLEAN,
                 data : Results]

Init ==
    /\ task = [pc |-> "idle", stage |-> 0, outcome |-> "none"]
    /\ result = "none"
    /\ inbox = <<>>
    /\ es = "none"
    /\ retries = 0
    /\ fetch = "none"
    /\ view = [loading |-> FALSE, done |-> FALSE, error |-> FALSE,
               data |-> "none"]

-----------------------------------------------------------------------------
(* The task.                                                                *)

\* Only an endpoint that is listening gets it.
Publish(stage) == inbox' = IF es = "open" THEN Append(inbox, stage) ELSE inbox

\* useProfileStream runs with a new thread id: its task, and a clean hook.
NewThread ==
    /\ task' = [pc |-> "queued", stage |-> 0, outcome |-> "none"]
    /\ result' = "none"
    /\ inbox' = <<>>
    /\ es' = "connecting"
    /\ retries' = 0
    /\ fetch' = "none"
    /\ view' = [loading |-> TRUE, done |-> FALSE, error |-> FALSE, data |-> "none"]

Progress ==
    /\ task.pc \in {"queued", "running"}
    /\ task.stage < LastStage
    /\ task' = [task EXCEPT !.pc = "running", !.stage = @ + 1]
    /\ Publish("progress")
    /\ UNCHANGED <<result, es, retries, fetch, view>>

\* A complete profile is stored first and announced afterwards,
StoreComplete ==
    /\ task.pc = "running" /\ task.stage = LastStage
    /\ result' = "complete"
    /\ task' = [task EXCEPT !.pc = "ending", !.outcome = "complete"]
    /\ UNCHANGED <<inbox, es, retries, fetch, view>>

\* every other end is announced first and stored afterwards: fewer than ten
\* songs, an AI that fails or answers no JSON, an exception at any point.
AnnounceOther ==
    /\ task.pc = "running"
    /\ \/ task.stage = 1
          /\ task' = [task EXCEPT !.pc = "ending", !.outcome = "songs_too_few"]
       \/ task.stage = LastStage
          /\ task' = [task EXCEPT !.pc = "ending", !.outcome = "ai_failed"]
       \/ task' = [task EXCEPT !.pc = "ending", !.outcome = "exception"]
    /\ Publish("done")
    /\ UNCHANGED <<result, es, retries, fetch, view>>

\* Fault: the except branch only announces.
FinishForgetsException ==
    /\ task.pc = "ending"
    /\ task' = [task EXCEPT !.pc = "over"]
    /\ IF task.outcome = "complete"
       THEN Publish("done") /\ UNCHANGED result
       ELSE /\ result' = IF task.outcome = "exception" THEN result
                         ELSE task.outcome
            /\ UNCHANGED inbox
    /\ UNCHANGED <<es, retries, fetch, view>>

Finish ==
    /\ task.pc = "ending"
    /\ task' = [task EXCEPT !.pc = "over"]
    /\ IF task.outcome = "complete"
       THEN Publish("done") /\ UNCHANGED result
       ELSE result' = task.outcome /\ UNCHANGED inbox
    /\ UNCHANGED <<es, retries, fetch, view>>

\* task_time_limit, or the death of the worker.
Kill ==
    /\ task.pc \in {"running", "ending"}
    /\ task' = [task EXCEPT !.pc = "dead"]
    /\ UNCHANGED <<result, inbox, es, retries, fetch, view>>

-----------------------------------------------------------------------------
(* The stream.                                                              *)

Subscribe ==
    /\ es = "connecting"
    /\ es' = "open"
    /\ inbox' = <<>>
    /\ UNCHANGED <<task, result, retries, fetch, view>>

\* Fault: the stream stays open after "done".
DeliverKeepsStream ==
    /\ es = "open" /\ inbox # <<>>
    /\ inbox' = Tail(inbox)
    /\ fetch' = IF Head(inbox) = "done" THEN "asked" ELSE fetch
    /\ view' = [view EXCEPT !.loading = TRUE]
    /\ UNCHANGED <<task, result, es, retries>>

Deliver ==
    /\ es = "open" /\ inbox # <<>>
    /\ IF Head(inbox) = "done"
       THEN es' = "closed" /\ inbox' = <<>> /\ fetch' = "asked"
       ELSE inbox' = Tail(inbox) /\ UNCHANGED <<es, fetch>>
    /\ view' = [view EXCEPT !.loading = TRUE]
    /\ UNCHANGED <<task, result, retries>>

\* Fault: one retry too many.
OnErrorOnceMore ==
    /\ inbox' = <<>>
    /\ IF retries <= MaxRetries
       THEN retries' = retries + 1 /\ es' = "timer" /\ UNCHANGED view
       ELSE /\ es' = "closed"
            /\ view' = [view EXCEPT !.error = TRUE, !.loading = FALSE]
            /\ UNCHANGED retries
    /\ UNCHANGED <<task, result, fetch>>

\* onerror: what was under way is lost; the stream is opened again after 2 s,
\* MaxRetries times.
OnError ==
    /\ inbox' = <<>>
    /\ IF retries < MaxRetries
       THEN retries' = retries + 1 /\ es' = "timer" /\ UNCHANGED view
       ELSE /\ es' = "closed"
            /\ view' = [view EXCEPT !.error = TRUE, !.loading = FALSE]
            /\ UNCHANGED retries
    /\ UNCHANGED <<task, result, fetch>>

\* The connection is lost, or not made.
Lose == es \in {"connecting", "open"} /\ OnError

\* nginx closes a stream that is silent for 300 s.
Cut == es = "open" /\ inbox = <<>> /\ OnError

Reconnect ==
    /\ es = "timer"
    /\ es' = "connecting"
    /\ UNCHANGED <<task, result, inbox, retries, fetch, view>>

-----------------------------------------------------------------------------
(* fetchResult: GET /result answers 404 without a result and 400 for too few *)
(* songs; the hook takes both for "not ready yet".                          *)

Refused == result \in {"none", "songs_too_few"}

FetchResult ==
    /\ fetch = "asked"
    /\ IF Refused
       THEN fetch' = "timer" /\ UNCHANGED view
       ELSE /\ fetch' = "done"
            /\ view' = [view EXCEPT !.data = result, !.done = TRUE,
                                    !.loading = FALSE]
    /\ UNCHANGED <<task, result, inbox, es, retries>>

FetchAgain ==
    /\ fetch = "timer"
    /\ fetch' = "asked"
    /\ UNCHANGED <<task, result, inbox, es, retries, view>>

-----------------------------------------------------------------------------
TaskStep == Progress \/ StoreComplete \/ AnnounceOther \/ Finish
StreamStep == Subscribe \/ Deliver \/ Cut \/ Reconnect
FetchStep == FetchResult \/ FetchAgain

-----------------------------------------------------------------------------
(* Properties.                                                              *)

\* The page does not report a lost connection once it has heard "done": the
\* stream and the fetch of the result never both go on.
OneVerdict == fetch # "none" => ~view.error /\ es = "closed"

\* The worker died after it had announced an end and before it stored it.
LostAfterDone ==
    task.pc = "dead" /\ task.outcome \notin {"none", "complete"}

=============================================================================
