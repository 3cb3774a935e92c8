--------------------------- MODULE ClassifyPromise ---------------------------
(***************************************************************************)
(* What a classification thread promises to the user who polls             *)
(* GET /api/classify/{thread_id} and nothing else: a proposal, then rounds *)
(* of feedback that each raise the round by one, at most MaxIterations of  *)
(* them, then a plan that stays.  The promise lets a thread end in any     *)
(* round, as docs/plan.md does for a user who confirms; the program ends   *)
(* it in the last one.  ClassifyWorkflow implements it when the runs of a  *)
(* thread do not overlap.                                                  *)
(***************************************************************************)
EXTENDS Naturals

CONSTANT MaxIterations

VARIABLES status,   \* "absent" (404), "running", or StateResponse.status
          round,    \* StateResponse.iteration
          plan      \* does StateResponse.plan hold something to confirm?

promised == <<status, round, plan>>

Init == status = "absent" /\ round = 0 /\ plan = FALSE

Open == /\ status = "absent"
        /\ status' = "running"
        /\ UNCHANGED <<round, plan>>

\* The first proposal; a thread that failed may still get it when a feedback
\* makes its pending node run again.
Propose == /\ status \in {"running", "failed"}
           /\ status' = "awaiting_feedback"
           /\ UNCHANGED <<round, plan>>

GiveUp == /\ status = "running"
          /\ status' = "failed"
          /\ UNCHANGED <<round, plan>>

TakeFeedback == /\ status = "awaiting_feedback"
                /\ status' = "refining"
                /\ UNCHANGED <<round, plan>>

Reclassify == /\ status = "refining"
              /\ round < MaxIterations
              /\ round' = round + 1
              /\ status' = "awaiting_feedback"
              /\ UNCHANGED plan

Finalize == /\ status \in {"awaiting_feedback", "refining"}
            /\ round <= MaxIterations
            /\ status' = "finalized"
            /\ plan' = TRUE
            /\ UNCHANGED round

Next == Open \/ Propose \/ GiveUp \/ TakeFeedback \/ Reclassify \/ Finalize

Spec == Init /\ [][Next]_promised
=============================================================================
