--------------------------- MODULE ClassifyStream ---------------------------
(***************************************************************************)
(* The workbench of one browser tab on top of ClassifyWorkflow: the SSE    *)
(* endpoint GET /api/classify/{thread_id}/stream (backend/app/api/         *)
(* classify.py), the EventSource and the query that read the thread        *)
(* (frontend/src/hooks/queries.ts) and the store they both write           *)
(* (frontend/src/stores/classify.ts).                                      *)
(*                                                                         *)
(* The endpoint reads the checkpoint first and subscribes to the channel   *)
(* later; the page reads the state by GET and by SSE at the same time.     *)
(***************************************************************************)
EXTENDS ClassifyWorkflow

CONSTANT IdleTimeout    \* does a proxy close a silent stream (nginx.conf,
                        \* proxy_read_timeout), after which the EventSource
                        \* connects again?

ASSUME IdleTimeoutAssumption == IdleTimeout \in BOOLEAN

VARIABLES
    es,     \* the EventSource: "none", "snapshot" (the server has read the
            \* checkpoint), "listening", "dropped" (to be reopened), "closed"
    snap,   \* the checkpoint the endpoint read
    get,    \* useClassifyState: "idle", "sent" (the server has read), "done"
    got,    \* the checkpoint that GET read
    view    \* useClassifyStore

ui == <<es, snap, get, got, view>>
streamVars == <<vars, ui>>

NoProgress == [shown |-> FALSE, completed |-> 0]
StreamInit ==
    /\ Init
    /\ es = "none" /\ snap = EmptyState
    /\ get = "idle" /\ got = EmptyState
    /\ view = [status |-> "", iteration |-> 0, proposal |-> NoProposal,
               plan |-> NoProposal, error |-> FALSE, progress |-> NoProgress]

-----------------------------------------------------------------------------
(* The store.                                                               *)

\* Fault: the proposal already on the page is kept.
SetFromStateKeepsItems(status, iteration, proposal, plan) ==
    [view EXCEPT !.status = status, !.iteration = iteration, !.plan = plan]

SetFromState(status, iteration, proposal, plan) ==
    [view EXCEPT !.status = status, !.iteration = iteration,
                 !.proposal = proposal, !.plan = plan]

\* classify_ready: StateResponse without a plan; the page closes the stream.
OnReady(proposal, iteration) ==
    /\ view' = [SetFromState("awaiting_feedback", iteration, proposal,
                             NoProposal) EXCEPT !.progress = NoProgress]
    /\ es' = "closed"

OnFailed ==
    /\ view' = [view EXCEPT !.error = TRUE, !.progress = NoProgress]
    /\ es' = "closed"

OnProgress(completed) ==
    [view EXCEPT !.progress = [shown |-> TRUE, completed |-> completed]]

-----------------------------------------------------------------------------
(* GET /{thread_id}/stream.                                                 *)

workflow == <<ckpt, runs, api, http, audit, refines>>

Unsubscribed == [subscribed |-> FALSE, inbox |-> <<>>]

\* Fault: a dropped stream is not opened again.
OpenStreamOnce ==
    /\ api = "ok"
    /\ es = "none"
    /\ es' = "snapshot"
    /\ snap' = ckpt
    /\ UNCHANGED <<workflow, channel, get, got, view>>

\* The page mounts, or the browser reconnects: the endpoint reads the state.
OpenStream ==
    /\ api = "ok"
    /\ es \in {"none", "dropped"}
    /\ es' = "snapshot"
    /\ snap' = ckpt
    /\ UNCHANGED <<workflow, channel, get, got, view>>

\* event_generator starts on what was read.
SnapshotReady ==
    /\ es = "snapshot" /\ snap.status = "awaiting_feedback"
    /\ OnReady(snap.proposal, snap.iteration)
    /\ snap' = EmptyState
    /\ UNCHANGED <<workflow, channel, get, got>>

SnapshotFailed ==
    /\ es = "snapshot" /\ snap.status = "failed"
    /\ OnFailed
    /\ snap' = EmptyState
    /\ UNCHANGED <<workflow, channel, get, got>>

\* Any other status is taken as running: the progress so far, then subscribe.
Subscribe ==
    /\ es = "snapshot" /\ snap.status \notin {"awaiting_feedback", "failed"}
    /\ view' = IF snap.total_batches > 0 THEN OnProgress(snap.completed)
               ELSE view
    /\ channel' = [subscribed |-> TRUE, inbox |-> <<>>]
    /\ es' = "listening"
    /\ snap' = EmptyState
    /\ UNCHANGED <<workflow, get, got>>

\* pubsub.listen: ready and failed end the generator, which unsubscribes.
Deliver ==
    /\ es = "listening"
    /\ channel.inbox # <<>>
    /\ LET m == Head(channel.inbox)
       IN  CASE m.kind = "ready" ->
                    /\ OnReady(m.proposal, m.iteration)
                    /\ channel' = Unsubscribed
             [] m.kind = "failed" ->
                    /\ OnFailed
                    /\ channel' = Unsubscribed
             [] m.kind = "progress" ->
                    /\ view' = OnProgress(m.completed)
                    /\ channel' = [channel EXCEPT !.inbox = Tail(@)]
                    /\ UNCHANGED es
    /\ UNCHANGED <<workflow, snap, get, got>>

\* The proxy times out a silent stream; the EventSource will reconnect.
Drop ==
    /\ IdleTimeout
    /\ es = "listening" /\ channel.inbox = <<>>
    /\ es' = "dropped"
    /\ channel' = Unsubscribed
    /\ UNCHANGED <<workflow, snap, get, got, view>>

-----------------------------------------------------------------------------
(* GET /{thread_id} and POST /{thread_id}/feedback as the page uses them.   *)

GetRead ==
    /\ api = "ok"
    /\ get = "idle"
    /\ get' = "sent"
    /\ got' = ckpt
    /\ UNCHANGED <<workflow, channel, es, snap, view>>

\* A 404 is shown as a toast and leaves the store as it is.
GetArrives ==
    /\ get = "sent"
    /\ get' = "done"
    /\ view' = IF got.next = "absent" THEN view
               ELSE SetFromState(got.status, got.iteration, got.proposal,
                                 got.plan)
    /\ got' = EmptyState
    /\ UNCHANGED <<workflow, channel, es, snap>>

\* The button is disabled while a submission is pending and once finalized;
\* the failure dialog replaces the page.
Submit(f) ==
    /\ Feedback(f)
    /\ \A g \in Feedbacks : http[g] # "waiting"
    /\ view.status # "finalized" /\ ~view.error
    /\ UNCHANGED ui

\* Fault: only the status of the answer reaches the store.
AnsweredStatusOnly(f) ==
    /\ FeedbackAnswered(f)
    /\ view' = [view EXCEPT !.status = runs[f].st.status]
    /\ UNCHANGED <<es, snap, get, got>>

\* onSuccess: the answer has no plan, so "finalized" makes the query stale.
Answered(f) ==
    /\ FeedbackAnswered(f)
    /\ LET s == runs[f].st
       IN  /\ view' = SetFromState(s.status, s.iteration, s.proposal,
                                   NoProposal)
           /\ get' = IF s.status = "finalized" THEN "idle" ELSE get
           /\ got' = IF s.status = "finalized" THEN EmptyState ELSE got
    /\ UNCHANGED <<es, snap>>

-----------------------------------------------------------------------------
WorkflowStep ==
    \/ \E n \in 0..(MaxSongs + 1) : Start(n)
    \/ StartAudit
    \/ \E f \in Feedbacks : FeedbackFails(f)
    \/ \E r \in Runs : RunStep(r) \/ Kill(r)

PageStep == OpenStream \/ SnapshotReady \/ SnapshotFailed \/ Subscribe
            \/ Deliver \/ Drop \/ GetRead \/ GetArrives

StreamNext ==
    \/ WorkflowStep /\ UNCHANGED ui
    \/ PageStep
    \/ \E f \in Feedbacks : Submit(f) \/ Answered(f)

StreamSpec == StreamInit /\ [][StreamNext]_streamVars

\* The server and the browser keep working; a stream that stays silent is
\* closed by the proxy if there is one; workers keep consuming the queue, and every
\* AI call ends: it answers, raises, or the time limit kills the run.
StreamFairness ==
    /\ \A r \in Runs : WF_streamVars(RunStep(r) /\ UNCHANGED ui)
    /\ WF_streamVars(StartAudit /\ UNCHANGED ui)
    /\ WF_streamVars(OpenStream)
    /\ WF_streamVars(SnapshotReady \/ SnapshotFailed \/ Subscribe)
    /\ WF_streamVars(Deliver)
    /\ WF_streamVars(Drop)
    /\ WF_streamVars(GetArrives)

FairStreamSpec == StreamSpec /\ StreamFairness

-----------------------------------------------------------------------------
(* Properties.                                                              *)

\* The page never asks the user about part of the selection, nor shows a round
\* other than that of the proposal, whichever of GET, SSE and the feedback
\* answer wrote the store last.
ShownProposalWhole ==
    view.status = "awaiting_feedback" =>
        /\ view.proposal.covers = AllBatches(NumBatches(ckpt.songs))
        /\ view.iteration = Len(view.proposal.applied)

\* The confirm button is enabled in "finalized" only; the plan it will build is
\* then the proposal on the page, although plan and page come by different ways.
ConfirmBuildsWhatIsShown ==
    view.status = "finalized" => ckpt.plan = view.proposal

\* Once the checkpoint keeps asking for feedback, the stream gets the page out
\* of waiting, although the events sent before it subscribed are lost.
StreamEnds ==
    [](api = "ok" /\ ckpt.status = "awaiting_feedback" =>
         <>(es = "closed" \/ ckpt.status # "awaiting_feedback"))

=============================================================================
