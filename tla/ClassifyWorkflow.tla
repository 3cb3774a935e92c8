-------------------------- MODULE ClassifyWorkflow --------------------------
(***************************************************************************)
(* One classification thread of tuneset: the LangGraph workflow of         *)
(* backend/app/workflow, the Celery tasks that drive it                    *)
(* (backend/app/tasks/classify_task.py) and the HTTP endpoints that        *)
(* enqueue those tasks (start and feedback of backend/app/api/classify.py).*)
(*                                                                         *)
(* The thread has ONE latest checkpoint in Redis.  Every task run loads it,*)
(* works on its own copy and writes a whole new checkpoint after each node,*)
(* so two runs of the same thread overwrite each other.                    *)
(***************************************************************************)
EXTENDS Naturals, Sequences

CONSTANTS
    Feedbacks,      \* the feedback requests; each one names its own resume run
    StartTask,      \* the run of classify_task (there is one per thread)
    NoFeedback,     \* feedback_text and feedback_drag not yet set
    MaxSongs,       \* settings.classify_max_songs
    BatchSize,      \* settings.classify_batch_size
    MaxIterations,  \* settings.classify_max_iterations
    Overlap         \* may a feedback be posted while a run of the thread is
                    \* active (a second tab, the 120 s timeout of the request,
                    \* the workbench opened while the first run still works)?

ASSUME FeedbacksAssumption == /\ StartTask \notin Feedbacks
                              /\ NoFeedback \notin Feedbacks
ASSUME SizesAssumption == /\ MaxSongs \in Nat \ {0}
                          /\ BatchSize \in Nat \ {0}
                          /\ MaxIterations \in Nat
ASSUME OverlapAssumption == Overlap \in BOOLEAN

VARIABLES
    ckpt,       \* the latest checkpoint of the thread
    runs,       \* the Celery runs: label, local copy of the state, attempt
    api,        \* POST /start: "idle", "enqueued", "ok" or "error"
    http,       \* POST /feedback, per request: "idle", "waiting", "ok", "error"
    channel,    \* Redis channel classify:progress:<thread_id>: has it the
                \* subscriber of an SSE stream, and what waits there to be read
    audit,      \* the statuses written to the audit log for this thread
    refines     \* the runs that asked the AI to reclassify, in order (history)

vars == <<ckpt, runs, api, http, channel, audit, refines>>

-----------------------------------------------------------------------------
(* The workflow state.  A proposal is known by what the AI saw to make it:  *)
(* the batches of songs it covers and the feedbacks applied since.          *)

Runs == Feedbacks \cup {StartTask}

Nodes == {"split", "batch_propose", "merge", "await_feedback",
          "refine", "finalize"}
Statuses == {"", "awaiting_feedback", "refining", "finalized", "failed"}

Proposals == [covers : Seq(Nat), applied : Seq(Feedbacks)]
NoProposal == [covers |-> <<>>, applied |-> <<>>]

\* ClassifyState and the node the checkpoint makes pending; before the first
\* checkpoint "next" is "absent", after the last node it is "END".
ClassifyState ==
    [next           : Nodes \cup {"absent", "END"},
     status         : Statuses,
     songs          : Nat,
     total_batches  : Nat,
     batch_index    : Nat,
     completed      : Nat,
     batch_proposals : Seq(Nat),
     proposal       : Proposals,
     iteration      : Nat,
     feedback       : Feedbacks \cup {NoFeedback},
     plan           : Proposals]

EmptyState ==
    [next |-> "absent", status |-> "", songs |-> 0, total_batches |-> 0,
     batch_index |-> 0, completed |-> 0, batch_proposals |-> <<>>,
     proposal |-> NoProposal, iteration |-> 0, feedback |-> NoFeedback,
     plan |-> NoProposal]

Labels == {"idle", "queued", "node", "published", "asked", "reporting",
           "announcing", "handling", "failing", "done", "failed", "killed"}
Run == [pc : Labels, st : ClassifyState, attempt : 0..2, resume : BOOLEAN]

Progress(s) == [kind |-> "progress", completed |-> s.completed,
                total |-> s.total_batches]
Ready(s) == [kind |-> "ready", proposal |-> s.proposal,
             iteration |-> s.iteration]
Failed == [kind |-> "failed"]
Messages == [kind : {"progress"}, completed : Nat, total : Nat]
            \cup [kind : {"ready"}, proposal : Proposals, iteration : Nat]
            \cup {Failed}

TypeOK ==
    /\ ckpt \in ClassifyState
    /\ runs \in [Runs -> Run]
    /\ api \in {"idle", "enqueued", "ok", "error"}
    /\ http \in [Feedbacks -> {"idle", "waiting", "ok", "error"}]
    /\ channel \in [subscribed : BOOLEAN, inbox : Seq(Messages)]
    /\ audit \subseteq {"running", "awaiting_feedback"}
    /\ refines \in Seq(Runs)

Active(r) == runs[r].pc \notin {"idle", "done", "failed", "killed"}

-----------------------------------------------------------------------------
(* The nodes, as functions from the state a node reads to the state the     *)
(* checkpoint after it holds.                                               *)

NumBatches(n) == (n + BatchSize - 1) \div BatchSize
AllBatches(n) == [i \in 1..n |-> i - 1]

\* Fault: the last batch is proposed once more.
RouteAfterBatchTooLong(s) ==
    IF s.batch_index <= s.total_batches THEN "batch_propose"
    ELSE IF s.total_batches > 1 THEN "merge"
    ELSE "await_feedback"

\* Fault: the merge is skipped.
RouteAfterBatchNoMerge(s) ==
    IF s.batch_index < s.total_batches THEN "batch_propose"
    ELSE "await_feedback"

\* route_after_batch reads the state the node has just updated.
RouteAfterBatch(s) ==
    IF s.batch_index < s.total_batches THEN "batch_propose"
    ELSE IF s.total_batches > 1 THEN "merge"
    ELSE "await_feedback"

\* Fault: one round too many.
RouteAfterFeedbackLate(s) ==
    IF s.iteration > MaxIterations THEN "finalize" ELSE "refine"

\* route_after_feedback: its test for "finalized" comes right after the node
\* that sets "refining".
RouteAfterFeedback(s) ==
    IF s.status = "finalized" \/ s.iteration >= MaxIterations
    THEN "finalize" ELSE "refine"

SplitNode(s) ==
    [s EXCEPT !.total_batches = NumBatches(s.songs), !.batch_index = 0,
              !.completed = 0, !.batch_proposals = <<>>,
              !.next = "batch_propose"]

\* One batch classified; the only batch of a small selection is the proposal.
BatchProposeNode(s) ==
    LET added == [s EXCEPT
                    !.batch_proposals = Append(@, s.batch_index),
                    !.completed = @ + 1,
                    !.batch_index = @ + 1]
        result == IF s.total_batches = 1
                  THEN [added EXCEPT
                          !.proposal = [covers |-> <<s.batch_index>>,
                                        applied |-> <<>>],
                          !.status = "awaiting_feedback",
                          !.iteration = 0]
                  ELSE added
    IN  [result EXCEPT !.next = RouteAfterBatch(result)]

MergeNode(s) ==
    [s EXCEPT !.proposal = [covers |-> s.batch_proposals, applied |-> <<>>],
              !.status = "awaiting_feedback", !.iteration = 0,
              !.next = "await_feedback"]

\* Fault: the status still says that the user is asked.
AwaitFeedbackNodeNoStatus(s, f) ==
    LET result == [s EXCEPT !.feedback = f]
    IN  [result EXCEPT !.next = RouteAfterFeedback(result)]

\* interrupt() returns the feedback f the run was resumed with.
AwaitFeedbackNode(s, f) ==
    LET result == [s EXCEPT !.feedback = f, !.status = "refining"]
    IN  [result EXCEPT !.next = RouteAfterFeedback(result)]

\* Fault: the current proposal is left out of the prompt.
RefineNodeForgets(s) ==
    [s EXCEPT !.proposal = [covers |-> AllBatches(s.total_batches),
                            applied |-> <<s.feedback>>],
              !.iteration = @ + 1, !.status = "awaiting_feedback",
              !.next = "await_feedback"]

\* All songs are classified again, given the current proposal and feedback.
RefineNode(s) ==
    [s EXCEPT !.proposal = [covers |-> AllBatches(s.total_batches),
                            applied |-> Append(s.proposal.applied, s.feedback)],
              !.iteration = @ + 1, !.status = "awaiting_feedback",
              !.next = "await_feedback"]

\* Fault: the thread is opened for another series of rounds.
FinalizeNodeReopens(s) ==
    [s EXCEPT !.status = "finalized", !.plan = s.proposal, !.iteration = 0,
              !.next = "await_feedback"]

\* The plan regroups the proposal by category: it is known by the proposal.
FinalizeNode(s) ==
    [s EXCEPT !.status = "finalized", !.plan = s.proposal, !.next = "END"]

-----------------------------------------------------------------------------
(* POST /start: the task is enqueued before its audit row is committed; a   *)
(* failing audit answers 500 although the task will run.                    *)

Init ==
    /\ ckpt = EmptyState
    /\ runs = [r \in Runs |-> [pc |-> "idle", st |-> EmptyState,
                               attempt |-> 0, resume |-> FALSE]]
    /\ api = "idle"
    /\ http = [f \in Feedbacks |-> "idle"]
    /\ channel = [subscribed |-> FALSE, inbox |-> <<>>]
    /\ audit = {}
    /\ refines = <<>>

Start(n) ==
    /\ api = "idle"
    /\ n > 0 /\ n <= MaxSongs
    /\ api' = "enqueued"
    /\ runs' = [runs EXCEPT ![StartTask].pc = "queued",
                            ![StartTask].st.songs = n]
    /\ UNCHANGED <<ckpt, http, channel, audit, refines>>

StartAudit ==
    /\ api = "enqueued"
    /\ \/ api' = "ok" /\ audit' = audit \cup {"running"}
       \/ api' = "error" /\ UNCHANGED audit
    /\ UNCHANGED <<ckpt, runs, http, channel, refines>>

\* POST /{thread_id}/feedback: enqueue the resume run, then wait for it.
Feedback(f) ==
    /\ api = "ok"
    /\ http[f] = "idle"
    /\ Overlap \/ \A r \in Runs : ~Active(r)
    /\ http' = [http EXCEPT ![f] = "waiting"]
    /\ runs' = [runs EXCEPT ![f].pc = "queued"]
    /\ UNCHANGED <<ckpt, api, channel, audit, refines>>

\* .get(timeout=120) returns the run's result,
FeedbackAnswered(f) ==
    /\ http[f] = "waiting"
    /\ runs[f].pc = "done"
    /\ http' = [http EXCEPT ![f] = "ok"]
    /\ UNCHANGED <<ckpt, runs, api, channel, audit, refines>>

\* raises the run's exception, or times out while the run goes on.
FeedbackFails(f) ==
    /\ http[f] = "waiting"
    /\ runs[f].pc \in {"failed", "killed"} \/ Overlap
    /\ http' = [http EXCEPT ![f] = "error"]
    /\ UNCHANGED <<ckpt, runs, api, channel, audit, refines>>

-----------------------------------------------------------------------------
(* graph.invoke: load the latest checkpoint, then run node after node.      *)

\* Redis pub/sub keeps nothing for those who subscribe later.
Publish(m) ==
    channel' = IF channel.subscribed
               THEN [channel EXCEPT !.inbox = Append(@, m)] ELSE channel

Move(r, label) == runs' = [runs EXCEPT ![r].pc = label]

\* The run ends without a result, and its copy of the state is gone.
Abort(r, label) ==
    runs' = [runs EXCEPT ![r] = [pc |-> label, st |-> EmptyState,
                                 attempt |-> 0, resume |-> FALSE]]

\* Fault: the resume value outlives the superstep.
CommitKeepsResume(r, s) ==
    /\ ckpt' = s
    /\ runs' = [runs EXCEPT ![r].pc = "node", ![r].st = s, ![r].attempt = 0]

\* A superstep ends: the local state becomes the latest checkpoint, and a
\* resume value that no interrupt has taken is dropped.
Commit(r, s) ==
    /\ ckpt' = s
    /\ runs' = [runs EXCEPT ![r] = [pc |-> "node", st |-> s, attempt |-> 0,
                                    resume |-> FALSE]]

\* classify_task: the input makes the first checkpoint of the thread.
BeginClassify ==
    /\ runs[StartTask].pc = "queued"
    /\ Commit(StartTask, [runs[StartTask].st EXCEPT !.next = "split"])
    /\ UNCHANGED <<api, http, channel, audit, refines>>

\* Fault: feedback on a finished thread starts it afresh.
BeginResumeRestarts(f) ==
    /\ runs[f].pc = "queued"
    /\ ckpt.next # "absent"
    /\ IF ckpt.next = "END"
       THEN Commit(f, [EmptyState EXCEPT !.songs = ckpt.songs,
                                         !.next = "split"])
       ELSE /\ runs' = [runs EXCEPT ![f] = [pc |-> "node", st |-> ckpt,
                                            attempt |-> 0, resume |-> TRUE]]
            /\ UNCHANGED ckpt
    /\ UNCHANGED <<api, http, channel, audit, refines>>

\* classify_resume_task: Command(resume=...) on the latest checkpoint.  With
\* no checkpoint invoke raises; a finished thread is returned as it is.
BeginResume(f) ==
    /\ runs[f].pc = "queued"
    /\ runs' = [runs EXCEPT
                  ![f] = [pc |-> CASE ckpt.next = "absent" -> "failed"
                                   [] ckpt.next = "END" -> "done"
                                   [] OTHER -> "node",
                          st |-> ckpt, attempt |-> 0, resume |-> TRUE]]
    /\ UNCHANGED <<ckpt, api, http, channel, audit, refines>>

At(r, node) == runs[r].pc = "node" /\ runs[r].st.next = node

Split(r) ==
    /\ At(r, "split")
    /\ Commit(r, SplitNode(runs[r].st))
    /\ UNCHANGED <<api, http, channel, audit, refines>>

\* The progress message goes out before the superstep is checkpointed.
BatchPropose(r) ==
    /\ At(r, "batch_propose")
    /\ Publish(Progress(BatchProposeNode(runs[r].st)))
    /\ Move(r, "published")
    /\ UNCHANGED <<ckpt, api, http, audit, refines>>

\* Fault: one attempt more than range(3).
BatchRetryTooOften(r) ==
    /\ At(r, "batch_propose")
    /\ runs[r].attempt <= 2
    /\ runs' = [runs EXCEPT ![r].attempt = @ + 1]
    /\ UNCHANGED <<ckpt, api, http, channel, audit, refines>>

BatchRetry(r) ==
    /\ At(r, "batch_propose")
    /\ runs[r].attempt < 2
    /\ runs' = [runs EXCEPT ![r].attempt = @ + 1]
    /\ UNCHANGED <<ckpt, api, http, channel, audit, refines>>

\* merge_node publishes the proposal before it is checkpointed, too.
Merge(r) ==
    /\ At(r, "merge")
    /\ Publish(Ready(MergeNode(runs[r].st)))
    /\ Move(r, "published")
    /\ UNCHANGED <<ckpt, api, http, audit, refines>>

Checkpoint(r) ==
    /\ runs[r].pc = "published"
    /\ Commit(r, IF runs[r].st.next = "merge" THEN MergeNode(runs[r].st)
                 ELSE BatchProposeNode(runs[r].st))
    /\ UNCHANGED <<api, http, channel, audit, refines>>

\* Fault: an answer that cannot be parsed is asked for again, as in batch_propose.
AskRefineRetries(r) ==
    /\ At(r, "refine") \/ runs[r].pc = "asked"
    /\ refines' = Append(refines, r)
    /\ Move(r, "asked")
    /\ UNCHANGED <<ckpt, api, http, channel, audit>>

\* The AI is asked, and paid, whatever becomes of its answer.
AskRefine(r) ==
    /\ At(r, "refine")
    /\ refines' = Append(refines, r)
    /\ Move(r, "asked")
    /\ UNCHANGED <<ckpt, api, http, channel, audit>>

Refine(r) ==
    /\ runs[r].pc = "asked"
    /\ Commit(r, RefineNode(runs[r].st))
    /\ UNCHANGED <<api, http, channel, audit, refines>>

Resume(f) ==
    /\ At(f, "await_feedback")
    /\ runs[f].resume
    /\ Commit(f, AwaitFeedbackNode(runs[f].st, f))
    /\ UNCHANGED <<api, http, channel, audit, refines>>

\* The interrupt ends invoke: a resume run returns, classify_task reports.
Interrupt(r) ==
    /\ At(r, "await_feedback")
    /\ ~runs[r].resume
    /\ Move(r, IF r = StartTask THEN "reporting" ELSE "done")
    /\ UNCHANGED <<ckpt, api, http, channel, audit, refines>>

Finalize(r) ==
    /\ At(r, "finalize")
    /\ Commit(r, FinalizeNode(runs[r].st))
    /\ UNCHANGED <<api, http, channel, audit, refines>>

Finish(r) ==
    /\ At(r, "END")
    /\ Move(r, IF r = StartTask THEN "reporting" ELSE "done")
    /\ UNCHANGED <<ckpt, api, http, channel, audit, refines>>

\* The AI call or the parse of its answer raises out of the node: at the third
\* attempt in batch_propose, at once in merge and refine.
NodeFails(r) ==
    /\ \/ At(r, "batch_propose") /\ runs[r].attempt = 2
       \/ At(r, "merge")
       \/ At(r, "refine") \/ runs[r].pc = "asked"
    /\ Abort(r, IF r = StartTask THEN "handling" ELSE "failed")
    /\ UNCHANGED <<ckpt, api, http, channel, audit, refines>>

-----------------------------------------------------------------------------
(* What classify_task does after invoke.                                    *)

\* log_audit is outside the try: if it raises, nothing more is published.
ReportAudit ==
    /\ runs[StartTask].pc = "reporting"
    /\ \/ Move(StartTask, "announcing")
          /\ audit' = audit \cup {"awaiting_feedback"}
       \/ Abort(StartTask, "failed") /\ UNCHANGED audit
    /\ UNCHANGED <<ckpt, api, http, channel, refines>>

Announce ==
    /\ runs[StartTask].pc = "announcing"
    /\ Publish(Ready(runs[StartTask].st))
    /\ Move(StartTask, "done")
    /\ UNCHANGED <<ckpt, api, http, audit, refines>>

\* Fault: the except branch does not raise and falls through to the report.
HandleFailureGoesOn ==
    /\ runs[StartTask].pc = "handling"
    /\ ckpt' = [ckpt EXCEPT !.status = "failed"]
    /\ Move(StartTask, "reporting")
    /\ UNCHANGED <<api, http, channel, audit, refines>>

\* The except branch: update_state on the latest checkpoint, whose pending node
\* stays; its own failure is swallowed.  Then publish and raise.
HandleFailure ==
    /\ runs[StartTask].pc = "handling"
    /\ \/ ckpt' = [ckpt EXCEPT !.status = "failed"]
       \/ UNCHANGED ckpt
    /\ Move(StartTask, "failing")
    /\ UNCHANGED <<api, http, channel, audit, refines>>

AnnounceFailure ==
    /\ runs[StartTask].pc = "failing"
    /\ Publish(Failed)
    /\ Move(StartTask, "failed")
    /\ UNCHANGED <<ckpt, api, http, audit, refines>>

\* task_time_limit, or the death of the worker: no handler runs.
Kill(r) ==
    /\ Active(r) /\ runs[r].pc # "queued"
    /\ Abort(r, "killed")
    /\ UNCHANGED <<ckpt, api, http, channel, audit, refines>>

-----------------------------------------------------------------------------
ApiNext ==
    \/ \E n \in 0..(MaxSongs + 1) : Start(n)
    \/ StartAudit
    \/ \E f \in Feedbacks : \/ Feedback(f)
                            \/ FeedbackAnswered(f)
                            \/ FeedbackFails(f)

\* The steps a run takes while its worker is alive.
RunStep(r) ==
    \/ r = StartTask /\ (\/ BeginClassify \/ ReportAudit \/ Announce
                         \/ HandleFailure \/ AnnounceFailure)
    \/ r \in Feedbacks /\ (BeginResume(r) \/ Resume(r))
    \/ Split(r) \/ BatchPropose(r) \/ BatchRetry(r) \/ Merge(r)
    \/ Checkpoint(r) \/ AskRefine(r) \/ Refine(r) \/ Interrupt(r)
    \/ Finalize(r) \/ Finish(r) \/ NodeFails(r)

Next ==
    \/ ApiNext
    \/ \E r \in Runs : RunStep(r) \/ Kill(r)

Spec == Init /\ [][Next]_vars

-----------------------------------------------------------------------------
(* Properties.  A state of the thread is its latest checkpoint or the copy  *)
(* some run works on.                                                       *)

States == {ckpt} \cup {runs[r].st : r \in Runs}

\* batch_propose classifies each batch once and in order, and never indexes
\* past the last one (state["batches"][batch_index] would raise), although a
\* resume may re-execute the node another run is still in.
BatchesInOrder ==
    \A s \in States :
        /\ s.batch_proposals = AllBatches(s.batch_index)
        /\ s.completed = s.batch_index
        /\ s.batch_index <= s.total_batches
        /\ s.next = "batch_propose" => s.batch_index < s.total_batches

\* Whenever the user is asked, or a proposal is reworked or finalized, it was
\* made from every batch of the songs: no overwritten checkpoint and no
\* re-executed node leaves a proposal for a part of the selection.
ProposalCoversSelection ==
    \A s \in States :
        s.status = "awaiting_feedback"
            \/ s.next \in {"await_feedback", "refine", "finalize", "END"}
        => s.proposal.covers = AllBatches(NumBatches(s.songs))

\* The round the workbench shows is the number of feedbacks in the proposal it
\* shows, and the limit bounds both, even when runs overwrite each other.
RoundsMatchProposal ==
    \A s \in States :
        /\ s.iteration = Len(s.proposal.applied)
        /\ s.iteration <= MaxIterations

\* No feedback is applied twice, however often a failed or overtaken refine is
\* executed again.
FeedbackAppliedOnce ==
    \A s \in States : \A i, j \in DOMAIN s.proposal.applied :
        s.proposal.applied[i] = s.proposal.applied[j] => i = j

\* confirm builds song lists from "plan": it exists exactly when the workflow
\* has ended, also in the copies of the runs, and it is the proposal the thread
\* shows.
PlanIsFinalProposal ==
    \A s \in States :
        IF s.next = "END"
        THEN s.plan = s.proposal /\ s.status \in {"finalized", "failed"}
        ELSE s.plan = NoProposal /\ s.status # "finalized"

\* The audit log says "awaiting_feedback" only of a thread whose checkpoint has
\* a proposal (log_audit and the checkpoint are written by different systems).
AuditedHasProposal ==
    "awaiting_feedback" \in audit => ckpt.proposal.covers # <<>>

\* A feedback costs one AI reclassification at most: the run that is resumed at
\* a refine some other run has left behind does not go on to a second one with
\* the feedback it brought.
OneCallPerFeedback ==
    \A i, j \in DOMAIN refines : refines[i] = refines[j] => i = j

\* The plan the user is about to confirm does not change under him.
PlanStable == [][ckpt.plan # NoProposal => ckpt'.plan = ckpt.plan]_vars

\* Feedback already in the proposal is never lost by a later checkpoint.
ProposalExtends ==
    [][/\ Len(ckpt.proposal.applied) <= Len(ckpt'.proposal.applied)
       /\ \A i \in DOMAIN ckpt.proposal.applied :
              ckpt'.proposal.applied[i] = ckpt.proposal.applied[i]]_vars

-----------------------------------------------------------------------------
(* What GET /api/classify/{thread_id} shows of the checkpoint.              *)

Promise == INSTANCE ClassifyPromise WITH
    status <- CASE ckpt.next = "absent" -> "absent"
                [] ckpt.next # "absent" /\ ckpt.status = "" -> "running"
                [] OTHER -> ckpt.status,
    round <- ckpt.iteration,
    plan <- ckpt.plan # NoProposal

\* The statuses, rounds and plans that polling sees follow the promised order:
\* no status is skipped or repeated, no round is lost, no plan is taken back.
KeepsPromise == Promise!Spec

=============================================================================
