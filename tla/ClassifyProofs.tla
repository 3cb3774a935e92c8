--------------------------- MODULE ClassifyProofs ---------------------------
(***************************************************************************)
(* Proofs about ClassifyWorkflow, and about ClassifyStream that composes   *)
(* it with the page, for every number of feedback requests, songs, batches *)
(* and rounds.                                                             *)
(*                                                                         *)
(* Parts 1 and 2 hold whether or not runs overlap: every state of a thread *)
(* is a good one, and no feedback is applied or paid twice.  Part 3 is     *)
(* about runs that do not overlap: the thread keeps its promise.  Part 4   *)
(* is the page: what it shows is made from the whole selection, overlap or *)
(* not, and without overlap it is what confirm will build.                 *)
(***************************************************************************)
EXTENDS ClassifyStream, SequenceTheorems, TLAPS

-----------------------------------------------------------------------------
(* Part 1.  Every state of the thread is a good one.                        *)
(* The batches of a selection.                                              *)

\* At least one song makes at least one batch.
LEMMA NumBatchesPositive ==
    ASSUME NEW n \in Nat, n > 0
    PROVE  NumBatches(n) \in Nat /\ NumBatches(n) >= 1
BY SizesAssumption DEF NumBatches

\* The numbers 0..n-1 in order: what batch_index counts through.
LEMMA AllBatchesSeq ==
    ASSUME NEW n \in Nat
    PROVE  AllBatches(n) \in Seq(Nat) /\ Len(AllBatches(n)) = n
<1>1. \A i \in 1..n : i - 1 \in Nat
    OBVIOUS
<1>2. AllBatches(n) \in [1..n -> Nat]
    BY <1>1 DEF AllBatches
<1>. QED
    BY <1>2

LEMMA AllBatchesEmpty == AllBatches(0) = <<>>
BY AllBatchesSeq, EmptySeq

\* The batch classified next extends them by one.
LEMMA AllBatchesNext ==
    ASSUME NEW n \in Nat
    PROVE  Append(AllBatches(n), n) = AllBatches(n + 1)
<1>1. Append(AllBatches(n), n) \in Seq(Nat)
      /\ Len(Append(AllBatches(n), n)) = n + 1
    BY AllBatchesSeq
<1>2. AllBatches(n + 1) \in Seq(Nat) /\ Len(AllBatches(n + 1)) = n + 1
    BY AllBatchesSeq
<1>3. \A i \in 1..(n + 1) : Append(AllBatches(n), n)[i] = AllBatches(n + 1)[i]
    BY AllBatchesSeq DEF AllBatches
<1>. QED
    BY <1>1, <1>2, <1>3, SeqEqual

LEMMA AllBatchesOne == AllBatches(1) = <<0>>
<1>1. Append(<<>>, 0) = <<0>>
    OBVIOUS
<1>2. AllBatches(1) = Append(AllBatches(0), 0)
  <2>. DEFINE k == 0
  <2>1. k \in Nat /\ k + 1 = 1
      OBVIOUS
  <2>2. Append(AllBatches(k), k) = AllBatches(k + 1)
      BY <2>1, AllBatchesNext
  <2>. QED
      BY <2>1, <2>2
<1>. QED
    BY <1>1, <1>2, AllBatchesEmpty

LEMMA AllBatchesNotEmpty ==
    ASSUME NEW n \in Nat, n >= 1
    PROVE  AllBatches(n) # <<>>
BY AllBatchesSeq

-----------------------------------------------------------------------------
(* The states a thread can be in, checkpointed or local to a run.           *)

Decided == {"await_feedback", "refine", "finalize", "END"}

\* Before split nothing but the songs is set.
GoodEarly(s) ==
    s.next \in {"absent", "split"} =>
        /\ s.total_batches = 0 /\ s.batch_index = 0
        /\ s.proposal = NoProposal /\ s.iteration = 0
        /\ s.status \in {"", "failed"}

GoodBatches(s) ==
    /\ s.batch_proposals = AllBatches(s.batch_index)
    /\ s.completed = s.batch_index
    /\ s.batch_index <= s.total_batches
    /\ s.next # "absent" => s.songs > 0
    /\ s.next \notin {"absent", "split"} =>
          s.total_batches = NumBatches(s.songs)
    /\ s.next = "batch_propose" => s.batch_index < s.total_batches
    /\ s.next = "merge" => s.batch_index = s.total_batches

GoodProposal(s) ==
    IF s.next \in Decided
    THEN s.proposal.covers = AllBatches(s.total_batches)
         /\ s.batch_index = s.total_batches
    ELSE s.proposal = NoProposal /\ s.status \in {"", "failed"}

GoodRounds(s) ==
    /\ s.iteration = Len(s.proposal.applied)
    /\ s.iteration <= MaxIterations
    /\ s.next \in {"refine", "finalize"} => s.feedback \in Feedbacks
    /\ s.next = "refine" => s.iteration < MaxIterations
    /\ s.next = "finalize" => s.iteration = MaxIterations

GoodPlan(s) ==
    IF s.next = "END"
    THEN s.plan = s.proposal /\ s.iteration = MaxIterations
         /\ s.status \in {"finalized", "failed"}
    ELSE s.plan = NoProposal /\ s.status # "finalized"

Good(s) == /\ s \in ClassifyState
           /\ GoodEarly(s) /\ GoodBatches(s) /\ GoodProposal(s)
           /\ GoodRounds(s) /\ GoodPlan(s)

\* What a run's label says about its copy.  A queued classify_task carries the
\* songs of the request; a computed result is that of an AI node before the
\* first proposal.
GoodRun(r) ==
    /\ runs[r].pc = "published" =>
          runs[r].st.next \in {"batch_propose", "merge"}
    /\ runs[r].pc = "asked" => runs[r].st.next = "refine"
    /\ r = StartTask /\ runs[r].pc = "queued" =>
          runs[r].st.next = "absent" /\ runs[r].st.songs > 0

\* Until POST /start there is no run of classify_task.
NotStarted ==
    api = "idle" => runs[StartTask].pc = "idle" /\ runs[StartTask].st = EmptyState

\* The inductive invariant.
WorkflowInv ==
    /\ TypeOK
    /\ NotStarted
    /\ Good(ckpt)
    /\ \A r \in Runs : Good(runs[r].st) /\ GoodRun(r)

-----------------------------------------------------------------------------
(* Each node takes a good state to a good one.                              *)

LEMMA EmptyStateGood == Good(EmptyState)
<1>1. <<>> \in Seq(Nat) /\ <<>> \in Seq(Feedbacks) /\ Len(<<>>) = 0
    OBVIOUS
<1>. QED
    BY <1>1, AllBatchesEmpty, SizesAssumption
    DEF Good, EmptyState, NoProposal, ClassifyState, Proposals, Statuses,
        GoodEarly, GoodBatches, GoodProposal, GoodRounds, GoodPlan, Decided

LEMMA BeginGood ==
    ASSUME NEW s, Good(s), s.next = "absent", s.songs > 0
    PROVE  Good([s EXCEPT !.next = "split"])
BY DEF Good, ClassifyState, Nodes, GoodEarly, GoodBatches, GoodProposal,
       GoodRounds, GoodPlan, Decided

LEMMA SplitGood ==
    ASSUME NEW s, Good(s), s.next = "split"
    PROVE  Good(SplitNode(s))
<1>1. NumBatches(s.songs) \in Nat /\ NumBatches(s.songs) >= 1
    BY NumBatchesPositive DEF Good, GoodBatches, ClassifyState
<1>2. <<>> \in Seq(Nat)
    OBVIOUS
<1>3. SplitNode(s) \in ClassifyState
    BY <1>1, <1>2 DEF Good, SplitNode, ClassifyState, Nodes
<1>4. GoodBatches(SplitNode(s))
    BY <1>1, AllBatchesEmpty DEF Good, GoodBatches, SplitNode, ClassifyState
<1>5. GoodProposal(SplitNode(s)) /\ GoodEarly(SplitNode(s))
    BY DEF Good, GoodEarly, GoodProposal, SplitNode, ClassifyState, Decided
<1>6. GoodRounds(SplitNode(s)) /\ GoodPlan(SplitNode(s))
    BY DEF Good, GoodRounds, GoodPlan, SplitNode, ClassifyState
<1>. QED
    BY <1>3, <1>4, <1>5, <1>6 DEF Good

LEMMA BatchProposeGood ==
    ASSUME NEW s, Good(s), s.next = "batch_propose"
    PROVE  Good(BatchProposeNode(s))
<1>. DEFINE k == s.batch_index + 1
            t == BatchProposeNode(s)
<1>1. s.batch_index \in Nat /\ s.total_batches \in Nat /\ k \in Nat
    BY DEF Good, ClassifyState
<1>2. s.batch_index < s.total_batches /\ s.completed = s.batch_index
    BY DEF Good, GoodBatches
<1>3. Append(s.batch_proposals, s.batch_index) = AllBatches(k)
    BY <1>1, AllBatchesNext DEF Good, GoodBatches
<1>4. AllBatches(k) \in Seq(Nat)
    BY <1>1, AllBatchesSeq
<1>5. CASE s.total_batches = 1
  <2>1. s.batch_index = 0 /\ k = 1
      BY <1>1, <1>2, <1>5
  <2>2. <<s.batch_index>> \in Seq(Nat) /\ <<>> \in Seq(Feedbacks)
        /\ Len(<<>>) = 0
      BY <1>1
  <2>3. t = [s EXCEPT !.batch_proposals = AllBatches(k), !.completed = k,
                      !.batch_index = k,
                      !.proposal = [covers |-> <<s.batch_index>>,
                                    applied |-> <<>>],
                      !.status = "awaiting_feedback", !.iteration = 0,
                      !.next = "await_feedback"]
    <3>. DEFINE a == [s EXCEPT !.batch_proposals = AllBatches(k),
                               !.completed = k, !.batch_index = k]
                r == [a EXCEPT !.proposal = [covers |-> <<s.batch_index>>,
                                             applied |-> <<>>],
                               !.status = "awaiting_feedback", !.iteration = 0]
    <3>1. a = [s EXCEPT !.batch_proposals = Append(@, s.batch_index),
                        !.completed = @ + 1, !.batch_index = @ + 1]
        BY <1>2, <1>3
    <3>2. t = [r EXCEPT !.next = RouteAfterBatch(r)]
      <4>. HIDE DEF a
      <4>. QED
          BY <1>5, <3>1 DEF BatchProposeNode
    <3>3. RouteAfterBatch(r) = "await_feedback"
        BY <1>5, <2>1 DEF Good, ClassifyState, RouteAfterBatch
    <3>. QED
        BY <3>2, <3>3
  <2>. HIDE DEF t
  <2>4. t \in ClassifyState
    <3>1. [covers |-> <<s.batch_index>>, applied |-> <<>>] \in Proposals
        BY <2>2 DEF Proposals
    <3>. QED
        BY <1>1, <1>4, <2>3, <3>1 DEF Good, ClassifyState, Nodes, Statuses
  <2>5. GoodBatches(t)
      BY <1>1, <1>5, <2>1, <2>3 DEF Good, GoodBatches, ClassifyState
  <2>6. GoodProposal(t) /\ GoodEarly(t)
      BY <1>1, <1>5, <2>1, <2>3, AllBatchesOne
      DEF Good, GoodProposal, GoodEarly, ClassifyState, Decided
  <2>7. GoodRounds(t)
      BY <2>2, <2>3, SizesAssumption DEF Good, GoodRounds, ClassifyState
  <2>8. GoodPlan(t)
      BY <2>3 DEF Good, GoodPlan, ClassifyState
  <2>. QED
      BY <2>4, <2>5, <2>6, <2>7, <2>8 DEF Good, t
<1>6. CASE s.total_batches # 1
  <2>. DEFINE next == IF k < s.total_batches THEN "batch_propose" ELSE "merge"
  <2>1. t = [s EXCEPT !.batch_proposals = AllBatches(k), !.completed = k,
                      !.batch_index = k, !.next = next]
    <3>. DEFINE a == [s EXCEPT !.batch_proposals = AllBatches(k),
                               !.completed = k, !.batch_index = k]
    <3>1. t = [a EXCEPT !.next = RouteAfterBatch(a)]
        BY <1>2, <1>3, <1>6 DEF BatchProposeNode
    <3>2. RouteAfterBatch(a) = next
        BY <1>1, <1>2, <1>6 DEF Good, ClassifyState, RouteAfterBatch
    <3>. QED
        BY <3>1, <3>2
  <2>. HIDE DEF t
  <2>2. t \in ClassifyState
      BY <1>1, <1>4, <2>1 DEF Good, ClassifyState, Nodes
  <2>3. GoodBatches(t)
      BY <1>1, <1>2, <2>1 DEF Good, GoodBatches, ClassifyState
  <2>4. GoodProposal(t) /\ GoodEarly(t)
      BY <2>1 DEF Good, GoodProposal, GoodEarly, ClassifyState, Decided
  <2>5. GoodRounds(t) /\ GoodPlan(t)
      BY <2>1 DEF Good, GoodRounds, GoodPlan, ClassifyState
  <2>. QED
      BY <2>2, <2>3, <2>4, <2>5 DEF Good, t
<1>. QED
    BY <1>5, <1>6

LEMMA MergeGood ==
    ASSUME NEW s, Good(s), s.next = "merge"
    PROVE  Good(MergeNode(s))
<1>1. <<>> \in Seq(Feedbacks) /\ Len(<<>>) = 0
    OBVIOUS
<1>2. MergeNode(s) \in ClassifyState
    BY <1>1 DEF Good, MergeNode, ClassifyState, Proposals, Nodes, Statuses
<1>3. GoodBatches(MergeNode(s))
    BY DEF Good, MergeNode, ClassifyState, GoodBatches
<1>4. GoodProposal(MergeNode(s))
    BY DEF Good, MergeNode, ClassifyState, GoodBatches, GoodProposal, Decided
<1>5. GoodRounds(MergeNode(s))
    BY <1>1, SizesAssumption DEF Good, MergeNode, ClassifyState, GoodRounds
<1>6. GoodPlan(MergeNode(s)) /\ GoodEarly(MergeNode(s))
    BY DEF Good, MergeNode, ClassifyState, GoodPlan, GoodEarly
<1>. QED
    BY <1>2, <1>3, <1>4, <1>5, <1>6 DEF Good

LEMMA AwaitFeedbackGood ==
    ASSUME NEW s, Good(s), s.next = "await_feedback", NEW f \in Feedbacks
    PROVE  Good(AwaitFeedbackNode(s, f))
<1>. DEFINE t == AwaitFeedbackNode(s, f)
            next == IF s.iteration >= MaxIterations
                    THEN "finalize" ELSE "refine"
<1>1. t = [s EXCEPT !.feedback = f, !.status = "refining", !.next = next]
    BY DEF AwaitFeedbackNode, RouteAfterFeedback, Good, ClassifyState
<1>. HIDE DEF t
<1>2. t \in ClassifyState
    BY <1>1 DEF Good, ClassifyState, Nodes, Statuses
<1>3. GoodBatches(t) /\ GoodEarly(t)
    BY <1>1 DEF Good, GoodBatches, GoodEarly, ClassifyState
<1>4. GoodProposal(t)
    BY <1>1 DEF Good, GoodProposal, ClassifyState, Decided
<1>5. GoodRounds(t)
    BY <1>1, SizesAssumption DEF Good, GoodRounds, ClassifyState
<1>6. GoodPlan(t)
    BY <1>1 DEF Good, GoodPlan, ClassifyState
<1>. QED
    BY <1>2, <1>3, <1>4, <1>5, <1>6 DEF Good, t

LEMMA RefineGood ==
    ASSUME NEW s, Good(s), s.next = "refine"
    PROVE  Good(RefineNode(s))
<1>1. /\ s.proposal.applied \in Seq(Feedbacks)
      /\ s.feedback \in Feedbacks
      /\ s.total_batches \in Nat
    BY DEF Good, GoodRounds, ClassifyState, Proposals
<1>2. /\ Append(s.proposal.applied, s.feedback) \in Seq(Feedbacks)
      /\ Len(Append(s.proposal.applied, s.feedback))
            = Len(s.proposal.applied) + 1
    BY <1>1
<1>3. AllBatches(s.total_batches) \in Seq(Nat)
    BY <1>1, AllBatchesSeq
<1>4. RefineNode(s) \in ClassifyState
  <2>. DEFINE p == [covers |-> AllBatches(s.total_batches),
                    applied |-> Append(s.proposal.applied, s.feedback)]
              i == s.iteration + 1
  <2>1. p \in Proposals
      BY <1>2, <1>3 DEF Proposals
  <2>2. RefineNode(s) = [s EXCEPT !.proposal = p, !.iteration = i,
                                  !.status = "awaiting_feedback",
                                  !.next = "await_feedback"]
      BY DEF RefineNode, Good, ClassifyState
  <2>3. i \in Nat
      BY DEF Good, ClassifyState
  <2>. HIDE DEF p, i
  <2>. QED
      BY <2>1, <2>2, <2>3 DEF Good, ClassifyState, Nodes, Statuses
<1>5. GoodBatches(RefineNode(s)) /\ GoodEarly(RefineNode(s))
    BY DEF Good, RefineNode, GoodBatches, GoodEarly, ClassifyState
<1>6. GoodProposal(RefineNode(s))
    BY DEF Good, RefineNode, GoodProposal, ClassifyState, Decided
<1>7. GoodRounds(RefineNode(s))
    BY <1>2, SizesAssumption DEF Good, RefineNode, GoodRounds, ClassifyState
<1>8. GoodPlan(RefineNode(s))
    BY DEF Good, RefineNode, GoodPlan, ClassifyState
<1>. QED
    BY <1>4, <1>5, <1>6, <1>7, <1>8 DEF Good

LEMMA FinalizeGood ==
    ASSUME NEW s, Good(s), s.next = "finalize"
    PROVE  Good(FinalizeNode(s))
<1>1. FinalizeNode(s) \in ClassifyState
    BY DEF Good, FinalizeNode, ClassifyState, Statuses
<1>2. GoodBatches(FinalizeNode(s)) /\ GoodEarly(FinalizeNode(s))
    BY DEF Good, FinalizeNode, GoodBatches, GoodEarly, ClassifyState
<1>3. GoodProposal(FinalizeNode(s))
    BY DEF Good, FinalizeNode, GoodProposal, ClassifyState, Decided
<1>4. GoodRounds(FinalizeNode(s))
    BY DEF Good, FinalizeNode, GoodRounds, ClassifyState
<1>5. GoodPlan(FinalizeNode(s))
    BY DEF Good, FinalizeNode, GoodRounds, GoodPlan, ClassifyState
<1>. QED
    BY <1>1, <1>2, <1>3, <1>4, <1>5 DEF Good

\* update_state to "failed" leaves every other field as it was.
LEMMA FailedGood ==
    ASSUME NEW s, Good(s)
    PROVE  Good([s EXCEPT !.status = "failed"])
BY DEF Good, ClassifyState, Statuses, GoodEarly, GoodBatches, GoodProposal,
       GoodRounds, GoodPlan, Decided

-----------------------------------------------------------------------------
(* The three ways a step changes a run.                                     *)

LEMMA CommitKeepsRuns ==
    ASSUME WorkflowInv, NEW r \in Runs, NEW s, Good(s), Commit(r, s),
           runs[r].pc # "idle", UNCHANGED api
    PROVE  /\ ckpt' \in ClassifyState /\ Good(ckpt)'
           /\ runs' \in [Runs -> Run]
           /\ \A q \in Runs : Good(runs'[q].st) /\ GoodRun(q)'
           /\ NotStarted'
<1>1. runs \in [Runs -> Run] /\ \A q \in Runs : Good(runs[q].st) /\ GoodRun(q)
    BY DEF WorkflowInv, TypeOK
<1>2. s \in ClassifyState /\ ckpt' = s
    BY DEF Good, Commit
<1>. DEFINE new == [pc |-> "node", st |-> s, attempt |-> 0, resume |-> FALSE]
<1>3. new \in Run
    BY <1>2 DEF Run, Labels
<1>4. runs' = [runs EXCEPT ![r] = new]
    BY DEF Commit
<1>5. runs' \in [Runs -> Run] /\ runs'[r] = new
      /\ \A q \in Runs \ {r} : runs'[q] = runs[q]
    BY <1>1, <1>3, <1>4
<1>6. Good(runs'[r].st) /\ GoodRun(r)'
    BY <1>5 DEF GoodRun
<1>7. \A q \in Runs \ {r} : Good(runs'[q].st) /\ GoodRun(q)'
    BY <1>1, <1>5 DEF GoodRun
<1>8. NotStarted'
    BY <1>5 DEF WorkflowInv, NotStarted, Runs
<1>. QED
    BY <1>2, <1>5, <1>6, <1>7, <1>8

LEMMA MoveKeepsRuns ==
    ASSUME WorkflowInv, NEW r \in Runs, NEW label \in Labels,
           Move(r, label), label # "queued", runs[r].pc # "idle",
           UNCHANGED api,
           label = "published" => runs[r].st.next \in {"batch_propose", "merge"},
           label = "asked" => runs[r].st.next = "refine"
    PROVE  /\ runs' \in [Runs -> Run]
           /\ \A q \in Runs : Good(runs'[q].st) /\ GoodRun(q)'
           /\ NotStarted'
<1>1. runs \in [Runs -> Run] /\ \A q \in Runs : Good(runs[q].st) /\ GoodRun(q)
    BY DEF WorkflowInv, TypeOK
<1>2. runs' = [runs EXCEPT ![r] = [runs[r] EXCEPT !.pc = label]]
    BY <1>1 DEF Move
<1>3. runs[r] \in Run
    BY <1>1
<1>4. /\ [runs[r] EXCEPT !.pc = label] \in Run
      /\ [runs[r] EXCEPT !.pc = label].pc = label
      /\ [runs[r] EXCEPT !.pc = label].st = runs[r].st
    BY <1>3 DEF Run
<1>5. runs' \in [Runs -> Run] /\ runs'[r].pc = label
      /\ runs'[r].st = runs[r].st
      /\ \A q \in Runs \ {r} : runs'[q] = runs[q]
    BY <1>1, <1>2, <1>4
<1>6. Good(runs'[r].st) /\ GoodRun(r)'
    BY <1>1, <1>5 DEF GoodRun
<1>7. \A q \in Runs \ {r} : Good(runs'[q].st) /\ GoodRun(q)'
    BY <1>1, <1>5 DEF GoodRun
<1>8. NotStarted'
    BY <1>5 DEF WorkflowInv, NotStarted, Runs
<1>. QED
    BY <1>5, <1>6, <1>7, <1>8

LEMMA AbortKeepsRuns ==
    ASSUME WorkflowInv, NEW r \in Runs, NEW label \in {"handling", "failed", "killed"},
           Abort(r, label), runs[r].pc # "idle", UNCHANGED api
    PROVE  /\ runs' \in [Runs -> Run]
           /\ \A q \in Runs : Good(runs'[q].st) /\ GoodRun(q)'
           /\ NotStarted'
<1>1. runs \in [Runs -> Run] /\ \A q \in Runs : Good(runs[q].st) /\ GoodRun(q)
    BY DEF WorkflowInv, TypeOK
<1>. DEFINE new == [pc |-> label, st |-> EmptyState, attempt |-> 0,
                    resume |-> FALSE]
<1>2. new \in Run
    BY EmptyStateGood DEF Good, Run, Labels
<1>3. runs' = [runs EXCEPT ![r] = new]
    BY DEF Abort
<1>4. runs' \in [Runs -> Run] /\ runs'[r] = new
      /\ \A q \in Runs \ {r} : runs'[q] = runs[q]
    BY <1>1, <1>2, <1>3
<1>5. Good(runs'[r].st) /\ GoodRun(r)'
    BY <1>4, EmptyStateGood DEF GoodRun
<1>6. \A q \in Runs \ {r} : Good(runs'[q].st) /\ GoodRun(q)'
    BY <1>1, <1>4 DEF GoodRun
<1>7. NotStarted'
    BY <1>4 DEF WorkflowInv, NotStarted, Runs
<1>. QED
    BY <1>4, <1>5, <1>6, <1>7

\* Steps that leave runs and checkpoint alone.
LEMMA SameRuns ==
    ASSUME WorkflowInv, UNCHANGED <<ckpt, runs>>, api' = "idle" => api = "idle"
    PROVE  /\ runs' \in [Runs -> Run] /\ ckpt' \in ClassifyState
           /\ Good(ckpt)'
           /\ \A q \in Runs : Good(runs'[q].st) /\ GoodRun(q)'
           /\ NotStarted'
BY DEF WorkflowInv, TypeOK, GoodRun, NotStarted

\* A good state makes a message of the channel.
LEMMA GoodMessages ==
    ASSUME NEW s, Good(s)
    PROVE  Progress(s) \in Messages /\ Ready(s) \in Messages
           /\ Failed \in Messages
BY DEF Good, ClassifyState, Progress, Ready, Failed, Messages

LEMMA PublishKeepsChannel ==
    ASSUME channel \in [subscribed : BOOLEAN, inbox : Seq(Messages)],
           NEW m \in Messages, Publish(m)
    PROVE  channel' \in [subscribed : BOOLEAN, inbox : Seq(Messages)]
<1>1. channel.inbox \in Seq(Messages)
    OBVIOUS
<1>2. Append(channel.inbox, m) \in Seq(Messages)
    BY <1>1
<1>. QED
    BY <1>2 DEF Publish

-----------------------------------------------------------------------------
(* The invariant.                                                           *)

LEMMA WorkflowInvInit == Init => WorkflowInv
<1>. SUFFICES ASSUME Init PROVE WorkflowInv
    OBVIOUS
<1>1. EmptyState \in ClassifyState
    BY EmptyStateGood DEF Good
<1>2. runs \in [Runs -> Run]
    BY <1>1 DEF Init, Run, Labels
<1>3. TypeOK
  <2>1. <<>> \in Seq(Messages) /\ <<>> \in Seq(Runs)
      OBVIOUS
  <2>. QED
      BY <1>1, <1>2, <2>1 DEF Init, TypeOK
<1>4. \A r \in Runs : Good(runs[r].st) /\ GoodRun(r)
    BY EmptyStateGood DEF Init, GoodRun
<1>. QED
    BY <1>3, <1>4, EmptyStateGood DEF WorkflowInv, NotStarted, Init, Runs

\* What is left to show of WorkflowInv' once the runs and the checkpoint of the
\* next state are known to be good.
LEMMA WorkflowInvAssembled ==
    ASSUME /\ ckpt' \in ClassifyState /\ Good(ckpt)'
           /\ runs' \in [Runs -> Run]
           /\ \A q \in Runs : Good(runs'[q].st) /\ GoodRun(q)'
           /\ NotStarted',
           api' \in {"idle", "enqueued", "ok", "error"},
           http' \in [Feedbacks -> {"idle", "waiting", "ok", "error"}],
           channel' \in [subscribed : BOOLEAN, inbox : Seq(Messages)],
           audit' \subseteq {"running", "awaiting_feedback"},
           refines' \in Seq(Runs)
    PROVE  WorkflowInv'
BY DEF WorkflowInv, TypeOK

LEMMA StartKeepsInv ==
    ASSUME WorkflowInv, NEW n \in Nat, Start(n)
    PROVE  WorkflowInv'
<1>1. /\ runs \in [Runs -> Run] /\ StartTask \in Runs
      /\ \A q \in Runs : Good(runs[q].st) /\ GoodRun(q)
      /\ runs[StartTask].st = EmptyState
    BY DEF WorkflowInv, TypeOK, NotStarted, Start, Runs
<1>. DEFINE t == [EmptyState EXCEPT !.songs = n]
            new == [runs[StartTask] EXCEPT !.pc = "queued", !.st = t]
<1>2. Good(t) /\ t \in ClassifyState /\ t.next = "absent" /\ t.songs = n
  <2>1. t \in ClassifyState /\ t.next = "absent" /\ t.songs = n
      BY EmptyStateGood DEF Good, EmptyState, ClassifyState
  <2>2. GoodEarly(t) /\ GoodBatches(t) /\ GoodProposal(t)
      BY EmptyStateGood
      DEF Good, GoodEarly, GoodBatches, GoodProposal, EmptyState, Decided
  <2>3. GoodRounds(t) /\ GoodPlan(t)
      BY EmptyStateGood DEF Good, GoodRounds, GoodPlan, EmptyState
  <2>. QED
      BY <2>1, <2>2, <2>3 DEF Good
<1>. HIDE DEF t
<1>3. runs' = [runs EXCEPT ![StartTask] = new]
    BY <1>1 DEF Start, t
<1>4. new \in Run /\ new.pc = "queued" /\ new.st = t
    BY <1>1, <1>2 DEF Run, Labels
<1>5. runs' \in [Runs -> Run] /\ runs'[StartTask] = new
      /\ \A q \in Runs \ {StartTask} : runs'[q] = runs[q]
    BY <1>1, <1>3, <1>4
<1>6. \A q \in Runs : Good(runs'[q].st) /\ GoodRun(q)'
  <2>1. Good(runs'[StartTask].st) /\ GoodRun(StartTask)'
      BY <1>2, <1>4, <1>5 DEF GoodRun, Start
  <2>2. \A q \in Runs \ {StartTask} : Good(runs'[q].st) /\ GoodRun(q)'
      BY <1>1, <1>5 DEF GoodRun
  <2>. QED
      BY <2>1, <2>2
<1>7. NotStarted' /\ Good(ckpt)'
    BY DEF NotStarted, Start, WorkflowInv
<1>. QED
    BY <1>5, <1>6, <1>7 DEF WorkflowInv, TypeOK, Start

LEMMA FeedbackKeepsInv ==
    ASSUME WorkflowInv, NEW f \in Feedbacks, Feedback(f)
    PROVE  WorkflowInv'
<1>1. /\ runs \in [Runs -> Run] /\ f \in Runs /\ f # StartTask
      /\ \A q \in Runs : Good(runs[q].st) /\ GoodRun(q)
    BY FeedbacksAssumption DEF WorkflowInv, TypeOK, Runs
<1>. DEFINE new == [runs[f] EXCEPT !.pc = "queued"]
<1>2. new \in Run /\ new.pc = "queued" /\ new.st = runs[f].st
    BY <1>1 DEF Run, Labels
<1>3. runs' = [runs EXCEPT ![f] = new]
    BY <1>1 DEF Feedback
<1>4. runs' \in [Runs -> Run] /\ runs'[f] = new
      /\ \A q \in Runs \ {f} : runs'[q] = runs[q]
    BY <1>1, <1>2, <1>3
<1>5. \A q \in Runs : Good(runs'[q].st) /\ GoodRun(q)'
  <2>1. Good(runs'[f].st) /\ GoodRun(f)'
      BY <1>1, <1>2, <1>4 DEF GoodRun
  <2>2. \A q \in Runs \ {f} : Good(runs'[q].st) /\ GoodRun(q)'
      BY <1>1, <1>4 DEF GoodRun
  <2>. QED
      BY <2>1, <2>2
<1>6. NotStarted' /\ Good(ckpt)'
    BY DEF NotStarted, Feedback, WorkflowInv
<1>. QED
    BY <1>4, <1>5, <1>6 DEF WorkflowInv, TypeOK, Feedback

LEMMA ApiKeepsInv ==
    ASSUME WorkflowInv, ApiNext
    PROVE  WorkflowInv'
<1>1. ASSUME NEW n \in 0..(MaxSongs + 1), Start(n)
      PROVE  WorkflowInv'
    BY <1>1, StartKeepsInv, SizesAssumption
<1>2. CASE StartAudit
    BY <1>2, SameRuns, WorkflowInvAssembled DEF StartAudit, WorkflowInv, TypeOK
<1>3. ASSUME NEW f \in Feedbacks, Feedback(f)
      PROVE  WorkflowInv'
    BY <1>3, FeedbackKeepsInv
<1>4. ASSUME NEW f \in Feedbacks, FeedbackAnswered(f) \/ FeedbackFails(f)
      PROVE  WorkflowInv'
    BY <1>4, SameRuns, WorkflowInvAssembled
    DEF FeedbackAnswered, FeedbackFails, WorkflowInv, TypeOK
<1>. QED
    BY <1>1, <1>2, <1>3, <1>4 DEF ApiNext

\* A run that commits a good state.
LEMMA CommitKeepsInv ==
    ASSUME WorkflowInv, NEW r \in Runs, NEW s, Good(s), Commit(r, s),
           runs[r].pc # "idle", refines' \in Seq(Runs),
           UNCHANGED <<api, http, channel, audit>>
    PROVE  WorkflowInv'
BY CommitKeepsRuns, WorkflowInvAssembled DEF WorkflowInv, TypeOK

\* A run that only changes its label.
LEMMA MoveKeepsInv ==
    ASSUME WorkflowInv, NEW r \in Runs, NEW label \in Labels,
           Move(r, label), label # "queued", runs[r].pc # "idle",
           label = "published" => runs[r].st.next \in {"batch_propose", "merge"},
           label = "asked" => runs[r].st.next = "refine",
           refines' \in Seq(Runs),
           channel' \in [subscribed : BOOLEAN, inbox : Seq(Messages)],
           audit' \subseteq {"running", "awaiting_feedback"},
           UNCHANGED <<ckpt, api, http>>
    PROVE  WorkflowInv'
BY MoveKeepsRuns, WorkflowInvAssembled DEF WorkflowInv, TypeOK

\* A run that ends without a result.
LEMMA AbortKeepsInv ==
    ASSUME WorkflowInv, NEW r \in Runs,
           NEW label \in {"handling", "failed", "killed"},
           Abort(r, label), runs[r].pc # "idle",
           UNCHANGED <<ckpt, api, http, channel, audit, refines>>
    PROVE  WorkflowInv'
BY AbortKeepsRuns, WorkflowInvAssembled DEF WorkflowInv, TypeOK

LEMMA ClassifyTaskKeepsInv ==
    ASSUME WorkflowInv,
           \/ BeginClassify \/ ReportAudit \/ Announce
           \/ HandleFailure \/ AnnounceFailure
    PROVE  WorkflowInv'
<1>. DEFINE r == StartTask
<1>1. /\ r \in Runs /\ Good(runs[r].st) /\ GoodRun(r)
      /\ channel \in [subscribed : BOOLEAN, inbox : Seq(Messages)]
      /\ audit \subseteq {"running", "awaiting_feedback"}
      /\ refines \in Seq(Runs)
    BY DEF Runs, WorkflowInv, TypeOK
<1>2. CASE BeginClassify
  <2>1. Good([runs[r].st EXCEPT !.next = "split"])
      BY <1>1, <1>2, BeginGood DEF BeginClassify, GoodRun
  <2>. QED
      BY <1>1, <1>2, <2>1, CommitKeepsInv DEF BeginClassify
<1>3. CASE ReportAudit
  <2>1. CASE Move(r, "announcing") /\ audit' = audit \cup {"awaiting_feedback"}
      BY <1>1, <1>3, <2>1, MoveKeepsInv DEF ReportAudit, Labels
  <2>2. CASE Abort(r, "failed") /\ UNCHANGED audit
      BY <1>1, <1>3, <2>2, AbortKeepsInv DEF ReportAudit
  <2>. QED
      BY <1>3, <2>1, <2>2 DEF ReportAudit
<1>4. CASE Announce
  <2>1. channel' \in [subscribed : BOOLEAN, inbox : Seq(Messages)]
      BY <1>1, <1>4, GoodMessages, PublishKeepsChannel DEF Announce
  <2>. QED
      BY <1>1, <1>4, <2>1, MoveKeepsInv DEF Announce, Labels
<1>5. CASE HandleFailure
  <2>1. /\ runs' \in [Runs -> Run]
        /\ \A q \in Runs : Good(runs'[q].st) /\ GoodRun(q)'
        /\ NotStarted'
      BY <1>1, <1>5, MoveKeepsRuns DEF HandleFailure, Labels
  <2>2. Good(ckpt)' /\ ckpt' \in ClassifyState
      BY <1>5, FailedGood DEF HandleFailure, WorkflowInv, Good
  <2>. QED
      BY <1>5, <2>1, <2>2, WorkflowInvAssembled
      DEF HandleFailure, WorkflowInv, TypeOK
<1>6. CASE AnnounceFailure
  <2>1. channel' \in [subscribed : BOOLEAN, inbox : Seq(Messages)]
      BY <1>1, <1>6, GoodMessages, PublishKeepsChannel DEF AnnounceFailure
  <2>. QED
      BY <1>1, <1>6, <2>1, MoveKeepsInv DEF AnnounceFailure, Labels
<1>. QED
    BY <1>2, <1>3, <1>4, <1>5, <1>6

\* Command(resume=...) loads the latest checkpoint as the run's copy.
LEMMA BeginResumeKeepsInv ==
    ASSUME WorkflowInv, NEW f \in Feedbacks, BeginResume(f)
    PROVE  WorkflowInv'
<1>1. /\ runs \in [Runs -> Run] /\ f \in Runs /\ f # StartTask
      /\ \A q \in Runs : Good(runs[q].st) /\ GoodRun(q)
      /\ Good(ckpt) /\ ckpt \in ClassifyState
    BY FeedbacksAssumption DEF WorkflowInv, TypeOK, Runs
<1>. DEFINE label == CASE ckpt.next = "absent" -> "failed"
                       [] ckpt.next = "END" -> "done"
                       [] OTHER -> "node"
            new == [pc |-> label, st |-> ckpt, attempt |-> 0, resume |-> TRUE]
<1>2. label \in {"failed", "done", "node"}
    OBVIOUS
<1>3. runs' = [runs EXCEPT ![f] = new]
    BY DEF BeginResume
<1>. HIDE DEF label
<1>4. new \in Run /\ new.pc \notin {"published", "asked", "queued"}
    BY <1>1, <1>2 DEF Run, Labels
<1>5. runs' \in [Runs -> Run] /\ runs'[f] = new
      /\ \A q \in Runs \ {f} : runs'[q] = runs[q]
    BY <1>1, <1>3, <1>4
<1>6. \A q \in Runs : Good(runs'[q].st) /\ GoodRun(q)'
  <2>1. Good(runs'[f].st) /\ GoodRun(f)'
      BY <1>1, <1>4, <1>5 DEF GoodRun
  <2>2. \A q \in Runs \ {f} : Good(runs'[q].st) /\ GoodRun(q)'
      BY <1>1, <1>5 DEF GoodRun
  <2>. QED
      BY <2>1, <2>2
<1>7. NotStarted' /\ Good(ckpt)'
    BY <1>1, <1>5 DEF NotStarted, BeginResume, WorkflowInv, Runs
<1>. QED
    BY <1>5, <1>6, <1>7 DEF WorkflowInv, TypeOK, BeginResume

LEMMA NodeKeepsInv ==
    ASSUME WorkflowInv, NEW r \in Runs,
           \/ Split(r) \/ BatchPropose(r) \/ Merge(r) \/ Checkpoint(r)
           \/ AskRefine(r) \/ Refine(r) \/ Interrupt(r) \/ Finalize(r)
           \/ Finish(r) \/ NodeFails(r)
    PROVE  WorkflowInv'
<1>1. /\ Good(runs[r].st) /\ GoodRun(r)
      /\ channel \in [subscribed : BOOLEAN, inbox : Seq(Messages)]
      /\ audit \subseteq {"running", "awaiting_feedback"}
      /\ refines \in Seq(Runs)
    BY DEF WorkflowInv, TypeOK
<1>2. CASE Split(r)
    BY <1>1, <1>2, SplitGood, CommitKeepsInv DEF Split, At
<1>3. CASE BatchPropose(r)
  <2>1. Good(BatchProposeNode(runs[r].st))
      BY <1>1, <1>3, BatchProposeGood DEF BatchPropose, At
  <2>2. channel' \in [subscribed : BOOLEAN, inbox : Seq(Messages)]
      BY <1>1, <1>3, <2>1, GoodMessages, PublishKeepsChannel DEF BatchPropose
  <2>. QED
      BY <1>1, <1>3, <2>2, MoveKeepsInv DEF BatchPropose, At, Labels
<1>4. CASE Merge(r)
  <2>1. Good(MergeNode(runs[r].st))
      BY <1>1, <1>4, MergeGood DEF Merge, At
  <2>2. channel' \in [subscribed : BOOLEAN, inbox : Seq(Messages)]
      BY <1>1, <1>4, <2>1, GoodMessages, PublishKeepsChannel DEF Merge
  <2>. QED
      BY <1>1, <1>4, <2>2, MoveKeepsInv DEF Merge, At, Labels
<1>5. CASE Checkpoint(r)
  <2>1. CASE runs[r].st.next = "merge"
      BY <1>1, <1>5, <2>1, MergeGood, CommitKeepsInv DEF Checkpoint
  <2>2. CASE runs[r].st.next = "batch_propose"
      BY <1>1, <1>5, <2>2, BatchProposeGood, CommitKeepsInv DEF Checkpoint
  <2>. QED
      BY <1>1, <1>5, <2>1, <2>2 DEF Checkpoint, GoodRun
<1>6. CASE Refine(r)
    BY <1>1, <1>6, RefineGood, CommitKeepsInv DEF Refine, GoodRun
<1>11. CASE AskRefine(r)
  <2>1. refines' \in Seq(Runs)
      BY <1>1, <1>11 DEF AskRefine
  <2>. QED
      BY <1>1, <1>11, <2>1, MoveKeepsInv DEF AskRefine, At, Labels
<1>7. CASE Interrupt(r)
    BY <1>1, <1>7, MoveKeepsInv DEF Interrupt, At, Labels
<1>8. CASE Finalize(r)
    BY <1>1, <1>8, FinalizeGood, CommitKeepsInv DEF Finalize, At
<1>9. CASE Finish(r)
    BY <1>1, <1>9, MoveKeepsInv DEF Finish, At, Labels
<1>10. CASE NodeFails(r)
    BY <1>1, <1>10, AbortKeepsInv DEF NodeFails, At
<1>. QED
    BY <1>2, <1>3, <1>4, <1>5, <1>6, <1>7, <1>8, <1>9, <1>10, <1>11

LEMMA BatchRetryKeepsInv ==
    ASSUME WorkflowInv, NEW r \in Runs, BatchRetry(r)
    PROVE  WorkflowInv'
<1>1. /\ runs \in [Runs -> Run]
      /\ \A q \in Runs : Good(runs[q].st) /\ GoodRun(q)
    BY DEF WorkflowInv, TypeOK
<1>. DEFINE new == [runs[r] EXCEPT !.attempt = @ + 1]
<1>2. /\ new \in Run
      /\ new.pc = runs[r].pc /\ new.st = runs[r].st
    BY <1>1 DEF Run, BatchRetry
<1>3. runs' = [runs EXCEPT ![r] = new]
    BY <1>1 DEF BatchRetry
<1>4. runs' \in [Runs -> Run] /\ runs'[r] = new
      /\ \A q \in Runs \ {r} : runs'[q] = runs[q]
    BY <1>1, <1>2, <1>3
<1>5. \A q \in Runs : Good(runs'[q].st) /\ GoodRun(q)'
    BY <1>1, <1>2, <1>4 DEF GoodRun
<1>6. NotStarted' /\ Good(ckpt)'
    BY <1>2, <1>4 DEF NotStarted, BatchRetry, WorkflowInv, Runs
<1>. QED
    BY <1>4, <1>5, <1>6 DEF WorkflowInv, TypeOK, BatchRetry

LEMMA WorkflowInvStep == WorkflowInv /\ [Next]_vars => WorkflowInv'
<1>. SUFFICES ASSUME WorkflowInv, [Next]_vars PROVE WorkflowInv'
    OBVIOUS
<1>1. CASE ApiNext
    BY <1>1, ApiKeepsInv
<1>2. ASSUME NEW r \in Runs, RunStep(r)
      PROVE  WorkflowInv'
  <2>1. CASE r = StartTask /\ (\/ BeginClassify \/ ReportAudit \/ Announce
                               \/ HandleFailure \/ AnnounceFailure)
      BY <2>1, ClassifyTaskKeepsInv
  <2>2. CASE r \in Feedbacks /\ BeginResume(r)
      BY <2>2, BeginResumeKeepsInv
  <2>3. CASE r \in Feedbacks /\ Resume(r)
    <3>1. Good(AwaitFeedbackNode(runs[r].st, r)) /\ refines \in Seq(Runs)
        BY <2>3, AwaitFeedbackGood DEF Resume, At, WorkflowInv, TypeOK
    <3>. QED
        BY <2>3, <3>1, CommitKeepsInv DEF Resume, At
  <2>4. CASE BatchRetry(r)
      BY <2>4, BatchRetryKeepsInv
  <2>. QED
      BY <1>2, <2>1, <2>2, <2>3, <2>4, NodeKeepsInv DEF RunStep
<1>3. ASSUME NEW r \in Runs, Kill(r)
      PROVE  WorkflowInv'
    BY <1>3, AbortKeepsInv DEF Kill, Active
<1>4. CASE UNCHANGED vars
    BY <1>4, SameRuns, WorkflowInvAssembled DEF vars, WorkflowInv, TypeOK
<1>. QED
    BY <1>1, <1>2, <1>3, <1>4 DEF Next

LEMMA WorkflowInvariant == Spec => []WorkflowInv
BY WorkflowInvInit, WorkflowInvStep, PTL DEF Spec

-----------------------------------------------------------------------------
(* The theorems.                                                            *)

\* Every variable keeps its type in every behaviour.
THEOREM WorkflowTypeCorrect == Spec => []TypeOK
BY WorkflowInvariant, PTL DEF WorkflowInv

\* Every checkpoint and every run's copy is a good state.
LEMMA AllStatesGood == WorkflowInv => \A s \in States : Good(s)
BY DEF WorkflowInv, States

\* Batches are classified once and in order, and batch_propose never indexes
\* past the last one, however many runs execute it at the same time.
THEOREM BatchesAlwaysInOrder == Spec => []BatchesInOrder
<1>1. WorkflowInv => BatchesInOrder
    BY AllStatesGood DEF BatchesInOrder, Good, GoodBatches
<1>. QED
    BY <1>1, WorkflowInvariant, PTL

\* A proposal the user is asked about was made from the whole selection.
THEOREM ProposalAlwaysWhole == Spec => []ProposalCoversSelection
<1>1. ASSUME NEW s, Good(s),
             s.status = "awaiting_feedback"
                \/ s.next \in {"await_feedback", "refine", "finalize", "END"}
      PROVE  s.proposal.covers = AllBatches(NumBatches(s.songs))
  <2>1. s.next \in Decided
      BY <1>1 DEF Good, GoodProposal, Decided
  <2>. QED
      BY <1>1, <2>1 DEF Good, GoodProposal, GoodBatches, Decided
<1>2. WorkflowInv => ProposalCoversSelection
    BY <1>1, AllStatesGood DEF ProposalCoversSelection
<1>. QED
    BY <1>2, WorkflowInvariant, PTL

\* The round is the number of feedbacks in the proposal and never passes the
\* limit, even when runs overwrite each other's checkpoints.
THEOREM RoundsAlwaysMatch == Spec => []RoundsMatchProposal
<1>1. WorkflowInv => RoundsMatchProposal
    BY AllStatesGood DEF RoundsMatchProposal, Good, GoodRounds
<1>. QED
    BY <1>1, WorkflowInvariant, PTL

\* A plan exists exactly at the end and equals the proposal, in the checkpoint
\* and in every copy a run works on.
THEOREM PlanAlwaysFinal == Spec => []PlanIsFinalProposal
<1>1. WorkflowInv => PlanIsFinalProposal
    BY AllStatesGood DEF PlanIsFinalProposal, Good, GoodPlan
<1>. QED
    BY <1>1, WorkflowInvariant, PTL

-----------------------------------------------------------------------------
(* Part 2.  No feedback is applied twice (FeedbackAppliedOnce).  The states *)
(* of a thread are copied from run to run, so the invariant relates all of  *)
(* them: as long as a run may still take its feedback out of the interrupt, *)
(* no copy anywhere knows that feedback.                                    *)

Mentions(s, f) ==
    \/ s.feedback = f
    \/ \E i \in DOMAIN s.proposal.applied : s.proposal.applied[i] = f

\* The feedback waiting for refine is not in the proposal yet.
Once(s) ==
    /\ \A i, j \in DOMAIN s.proposal.applied :
          s.proposal.applied[i] = s.proposal.applied[j] => i = j
    /\ s.next = "refine" =>
          \A i \in DOMAIN s.proposal.applied :
              s.proposal.applied[i] # s.feedback

\* The run of f has not come to its interrupt, or not begun.
Unused(f) == runs[f].pc \in {"idle", "queued"} \/ runs[f].resume

\* A run begins with its request.
Posted == \A f \in Feedbacks : http[f] = "idle" => runs[f].pc = "idle"

\* The inductive invariant, on top of WorkflowInv and Posted.
OnceInv ==
    /\ \A s \in States : Once(s)
    /\ \A f \in Feedbacks : Unused(f) => \A s \in States : ~Mentions(s, f)

-----------------------------------------------------------------------------
(* States that a node makes of another.                                     *)

\* t knows no feedback that s does not know.
Keeps(s, t) ==
    /\ t.feedback = s.feedback
    /\ t.proposal.applied \in {s.proposal.applied, <<>>}
    /\ t.next = "refine" => s.next = "refine"

LEMMA KeepsOnce ==
    ASSUME NEW s, NEW t, Keeps(s, t), Once(s)
    PROVE  Once(t) /\ \A f \in Feedbacks : Mentions(t, f) => Mentions(s, f)
<1>1. DOMAIN <<>> = {}
    OBVIOUS
<1>2. CASE t.proposal.applied = s.proposal.applied
    BY <1>2 DEF Keeps, Once, Mentions
<1>3. CASE t.proposal.applied = <<>>
    BY <1>1, <1>3 DEF Keeps, Once, Mentions
<1>. QED
    BY <1>2, <1>3 DEF Keeps

LEMMA EmptyStateOnce ==
    Once(EmptyState) /\ \A f \in Feedbacks : ~Mentions(EmptyState, f)
<1>1. DOMAIN <<>> = {}
    OBVIOUS
<1>. QED
    BY <1>1, FeedbacksAssumption DEF Once, Mentions, EmptyState, NoProposal

LEMMA NodesKeep ==
    ASSUME NEW s \in ClassifyState
    PROVE  /\ Keeps(s, SplitNode(s)) /\ Keeps(s, BatchProposeNode(s))
           /\ Keeps(s, MergeNode(s)) /\ Keeps(s, FinalizeNode(s))
<1>1. Keeps(s, SplitNode(s)) /\ Keeps(s, MergeNode(s))
      /\ Keeps(s, FinalizeNode(s))
    BY DEF Keeps, SplitNode, MergeNode, FinalizeNode, ClassifyState
<1>2. Keeps(s, BatchProposeNode(s))
  <2>. DEFINE added == [s EXCEPT
                    !.batch_proposals = Append(@, s.batch_index),
                    !.completed = @ + 1,
                    !.batch_index = @ + 1]
              result == IF s.total_batches = 1
                        THEN [added EXCEPT
                                !.proposal = [covers |-> <<s.batch_index>>,
                                              applied |-> <<>>],
                                !.status = "awaiting_feedback",
                                !.iteration = 0]
                        ELSE added
  <2>1. BatchProposeNode(s) = [result EXCEPT !.next = RouteAfterBatch(result)]
      BY DEF BatchProposeNode
  <2>2. RouteAfterBatch(result) # "refine"
      BY DEF RouteAfterBatch
  <2>3. /\ added.feedback = s.feedback /\ added.proposal = s.proposal
        /\ DOMAIN added = DOMAIN s
      BY DEF ClassifyState
  <2>4. /\ result.feedback = s.feedback
        /\ result.proposal.applied \in {s.proposal.applied, <<>>}
        /\ DOMAIN result = DOMAIN s
    <3>. HIDE DEF added
    <3>. QED
        BY <2>3 DEF ClassifyState
  <2>. HIDE DEF result
  <2>. QED
      BY <2>1, <2>2, <2>4 DEF Keeps, ClassifyState
<1>. QED
    BY <1>1, <1>2

-----------------------------------------------------------------------------
(* The ways a step changes the states.                                      *)

LEMMA OnceInvWith ==
    ASSUME OnceInv, NEW t, Once(t), States' \subseteq States \cup {t},
           \A f \in Feedbacks : Unused(f)' => Unused(f) /\ ~Mentions(t, f)
    PROVE  OnceInv'
<1>1. \A s \in States' : Once(s)
    BY DEF OnceInv
<1>2. \A f \in Feedbacks : Unused(f)' => \A s \in States' : ~Mentions(s, f)
    BY DEF OnceInv
<1>. QED
    BY <1>1, <1>2 DEF OnceInv

LEMMA OnceInvSame ==
    ASSUME OnceInv, States' \subseteq States,
           \A f \in Feedbacks : Unused(f)' => Unused(f)
    PROVE  OnceInv'
BY DEF OnceInv

LEMMA CommitStates ==
    ASSUME WorkflowInv, NEW r \in Runs, NEW t, Commit(r, t)
    PROVE  /\ States' \subseteq States \cup {t}
           /\ \A f \in Feedbacks : Unused(f)' => f # r /\ Unused(f)
<1>. DEFINE new == [pc |-> "node", st |-> t, attempt |-> 0, resume |-> FALSE]
<1>1. ckpt' = t /\ DOMAIN runs = Runs /\ runs' = [runs EXCEPT ![r] = new]
    BY DEF Commit, WorkflowInv, TypeOK
<1>2. runs'[r] = new /\ \A q \in Runs \ {r} : runs'[q] = runs[q]
    BY <1>1
<1>3. \A q \in Runs : runs'[q].st \in States \cup {t}
    BY <1>2 DEF States
<1>4. States' \subseteq States \cup {t}
    BY <1>1, <1>3 DEF States
<1>5. \A f \in Feedbacks : Unused(f)' => f # r /\ Unused(f)
    BY <1>2 DEF Unused, Runs
<1>. QED
    BY <1>4, <1>5

\* A commit of what a node makes of the run's own copy.
LEMMA CommitKeeps ==
    ASSUME WorkflowInv, OnceInv, NEW r \in Runs, NEW t, Commit(r, t),
           Keeps(runs[r].st, t)
    PROVE  OnceInv'
<1>1. runs[r].st \in States
    BY DEF States
<1>2. Once(runs[r].st)
    BY <1>1 DEF OnceInv
<1>3. \A f \in Feedbacks : Unused(f) => ~Mentions(runs[r].st, f)
    BY <1>1 DEF OnceInv
<1>4. Once(t) /\ \A f \in Feedbacks : Mentions(t, f) => Mentions(runs[r].st, f)
    BY <1>2, KeepsOnce
<1>. QED
    BY <1>3, <1>4, CommitStates, OnceInvWith

LEMMA MoveOnce ==
    ASSUME WorkflowInv, OnceInv, NEW r \in Runs, NEW label,
           label \notin {"idle", "queued"}, Move(r, label), UNCHANGED ckpt
    PROVE  OnceInv'
<1>1. runs \in [Runs -> Run] /\ runs' = [runs EXCEPT ![r].pc = label]
    BY DEF Move, WorkflowInv, TypeOK
<1>2. /\ runs'[r].st = runs[r].st /\ runs'[r].resume = runs[r].resume
      /\ runs'[r].pc = label
      /\ \A q \in Runs \ {r} : runs'[q] = runs[q]
    BY <1>1 DEF Run
<1>3. \A q \in Runs : runs'[q].st = runs[q].st
    BY <1>2
<1>4. States' \subseteq States
    BY <1>3 DEF States
<1>5. \A f \in Feedbacks : Unused(f)' => Unused(f)
    BY <1>2 DEF Unused, Runs
<1>. QED
    BY <1>4, <1>5, OnceInvSame

LEMMA AbortOnce ==
    ASSUME WorkflowInv, OnceInv, NEW r \in Runs, NEW label,
           label \notin {"idle", "queued"}, Abort(r, label), UNCHANGED ckpt
    PROVE  OnceInv'
<1>. DEFINE new == [pc |-> label, st |-> EmptyState, attempt |-> 0,
                    resume |-> FALSE]
<1>1. DOMAIN runs = Runs /\ runs' = [runs EXCEPT ![r] = new]
    BY DEF Abort, WorkflowInv, TypeOK
<1>2. runs'[r] = new /\ \A q \in Runs \ {r} : runs'[q] = runs[q]
    BY <1>1
<1>3. \A q \in Runs : runs'[q].st \in States \cup {EmptyState}
    BY <1>2 DEF States
<1>4. States' \subseteq States \cup {EmptyState}
    BY <1>3 DEF States
<1>5. \A f \in Feedbacks : Unused(f)' => Unused(f)
    BY <1>2 DEF Unused, Runs
<1>. QED
    BY <1>4, <1>5, EmptyStateOnce, OnceInvWith

-----------------------------------------------------------------------------
(* The steps.                                                               *)

LEMMA OnceInvInit == Init => OnceInv
<1>. SUFFICES ASSUME Init PROVE OnceInv
    OBVIOUS
<1>1. \A s \in States : s = EmptyState
    BY DEF Init, States
<1>. QED
    BY <1>1, EmptyStateOnce DEF OnceInv

\* Steps that leave the checkpoint and the runs' states and labels alone.
LEMMA SameOnce ==
    ASSUME OnceInv, UNCHANGED <<ckpt, runs>>
    PROVE  OnceInv'
<1>1. States' = States
    BY DEF States
<1>2. \A f \in Feedbacks : Unused(f)' => Unused(f)
    BY DEF Unused
<1>. QED
    BY <1>1, <1>2, OnceInvSame

LEMMA StartOnce ==
    ASSUME WorkflowInv, OnceInv, NEW n \in 0..(MaxSongs + 1), Start(n)
    PROVE  OnceInv'
<1>. DEFINE old == runs[StartTask]
            t == [old.st EXCEPT !.songs = n]
            new == [old EXCEPT !.pc = "queued", !.st = t]
<1>1. runs \in [Runs -> Run] /\ StartTask \in Runs /\ ckpt' = ckpt
    BY DEF WorkflowInv, TypeOK, Runs, Start
<1>2. runs' = [runs EXCEPT ![StartTask] = new]
    BY <1>1 DEF Start
<1>3. new.st = t
    BY <1>1 DEF Run
<1>4. runs'[StartTask].st = t /\ \A q \in Runs \ {StartTask} : runs'[q] = runs[q]
  <2>. HIDE DEF new
  <2>. QED
      BY <1>1, <1>2, <1>3
<1>5. States' \subseteq States \cup {t}
  <2>1. \A q \in Runs : runs'[q].st \in States \cup {t}
      BY <1>4 DEF States
  <2>. QED
      BY <1>1, <2>1 DEF States
<1>6. Keeps(old.st, t)
    BY <1>1 DEF Keeps, Run, ClassifyState
<1>7. Once(old.st) /\ \A f \in Feedbacks : Unused(f) => ~Mentions(old.st, f)
    BY <1>1 DEF OnceInv, States
<1>8. Once(t) /\ \A f \in Feedbacks : Mentions(t, f) => Mentions(old.st, f)
    BY <1>6, <1>7, KeepsOnce
<1>9. \A f \in Feedbacks : Unused(f)' => Unused(f)
    BY <1>4, FeedbacksAssumption DEF Unused, Runs
<1>. QED
    BY <1>5, <1>7, <1>8, <1>9, OnceInvWith

LEMMA FeedbackOnce ==
    ASSUME WorkflowInv, OnceInv, Posted, NEW f \in Feedbacks, Feedback(f)
    PROVE  OnceInv'
<1>1. runs \in [Runs -> Run] /\ f \in Runs
      /\ runs' = [runs EXCEPT ![f].pc = "queued"] /\ ckpt' = ckpt
    BY DEF WorkflowInv, TypeOK, Runs, Feedback
<1>2. runs'[f].st = runs[f].st
      /\ \A q \in Runs \ {f} : runs'[q] = runs[q]
    BY <1>1 DEF Run
<1>3. States' \subseteq States
  <2>1. \A q \in Runs : runs'[q].st = runs[q].st
      BY <1>2
  <2>. QED
      BY <1>1, <2>1 DEF States
<1>4. runs[f].pc = "idle"
    BY DEF Posted, Feedback
<1>5. \A g \in Feedbacks : Unused(g)' => Unused(g)
    BY <1>2, <1>4 DEF Unused, Runs
<1>. QED
    BY <1>3, <1>5, OnceInvSame

LEMMA ApiOnce ==
    ASSUME WorkflowInv, OnceInv, Posted, ApiNext
    PROVE  OnceInv'
<1>1. ASSUME NEW n \in 0..(MaxSongs + 1), Start(n) PROVE OnceInv'
    BY <1>1, StartOnce
<1>2. CASE StartAudit
    BY <1>2, SameOnce DEF StartAudit
<1>3. ASSUME NEW f \in Feedbacks, Feedback(f) PROVE OnceInv'
    BY <1>3, FeedbackOnce
<1>4. ASSUME NEW f \in Feedbacks, FeedbackAnswered(f) \/ FeedbackFails(f)
      PROVE  OnceInv'
    BY <1>4, SameOnce DEF FeedbackAnswered, FeedbackFails
<1>. QED
    BY <1>1, <1>2, <1>3, <1>4 DEF ApiNext

\* The states classify_task leaves, and those of its failure handler.
LEMMA ClassifyTaskOnce ==
    ASSUME WorkflowInv, OnceInv,
           \/ BeginClassify \/ ReportAudit \/ Announce
           \/ HandleFailure \/ AnnounceFailure
    PROVE  OnceInv'
<1>1. StartTask \in Runs /\ runs[StartTask].st \in ClassifyState
      /\ ckpt \in ClassifyState
    BY DEF WorkflowInv, TypeOK, Runs, Run
<1>2. CASE BeginClassify
  <2>1. Keeps(runs[StartTask].st, [runs[StartTask].st EXCEPT !.next = "split"])
      BY <1>1 DEF Keeps, ClassifyState
  <2>. QED
      BY <1>1, <1>2, <2>1, CommitKeeps DEF BeginClassify
<1>3. CASE ReportAudit
    BY <1>1, <1>3, MoveOnce, AbortOnce DEF ReportAudit
<1>4. CASE Announce
    BY <1>1, <1>4, MoveOnce DEF Announce
<1>5. CASE HandleFailure
  <2>. DEFINE t == [ckpt EXCEPT !.status = "failed"]
  <2>1. runs \in [Runs -> Run]
        /\ runs' = [runs EXCEPT ![StartTask].pc = "failing"]
      BY <1>5 DEF HandleFailure, Move, WorkflowInv, TypeOK
  <2>2. runs'[StartTask].st = runs[StartTask].st
        /\ runs'[StartTask].resume = runs[StartTask].resume
        /\ \A q \in Runs \ {StartTask} : runs'[q] = runs[q]
      BY <1>1, <2>1 DEF Run
  <2>3. States' \subseteq States \cup {t}
    <3>1. \A q \in Runs : runs'[q].st = runs[q].st
        BY <2>2
    <3>2. ckpt' \in {ckpt, t}
        BY <1>5 DEF HandleFailure
    <3>. QED
        BY <3>1, <3>2 DEF States
  <2>4. Keeps(ckpt, t)
      BY <1>1 DEF Keeps, ClassifyState
  <2>5. Once(ckpt) /\ \A f \in Feedbacks : Unused(f) => ~Mentions(ckpt, f)
      BY DEF OnceInv, States
  <2>6. Once(t) /\ \A f \in Feedbacks : Mentions(t, f) => Mentions(ckpt, f)
      BY <2>4, <2>5, KeepsOnce
  <2>7. \A f \in Feedbacks : Unused(f)' => Unused(f)
      BY <2>2, FeedbacksAssumption DEF Unused, Runs
  <2>. QED
      BY <2>3, <2>5, <2>6, <2>7, OnceInvWith
<1>6. CASE AnnounceFailure
    BY <1>1, <1>6, MoveOnce DEF AnnounceFailure
<1>. QED
    BY <1>2, <1>3, <1>4, <1>5, <1>6

\* A resume run copies the checkpoint.
LEMMA BeginResumeOnce ==
    ASSUME WorkflowInv, OnceInv, NEW f \in Feedbacks, BeginResume(f)
    PROVE  OnceInv'
<1>. DEFINE label == CASE ckpt.next = "absent" -> "failed"
                       [] ckpt.next = "END" -> "done"
                       [] OTHER -> "node"
            new == [pc |-> label, st |-> ckpt, attempt |-> 0, resume |-> TRUE]
<1>1. DOMAIN runs = Runs /\ f \in Runs /\ runs[f].pc = "queued"
      /\ runs' = [runs EXCEPT ![f] = new] /\ ckpt' = ckpt
    BY DEF WorkflowInv, TypeOK, Runs, BeginResume
<1>2. runs'[f].st = ckpt /\ \A q \in Runs \ {f} : runs'[q] = runs[q]
  <2>. HIDE DEF label
  <2>. QED
      BY <1>1
<1>3. States' \subseteq States
  <2>1. \A q \in Runs : runs'[q].st \in States
      BY <1>2 DEF States
  <2>. QED
      BY <1>1, <2>1 DEF States
<1>4. \A g \in Feedbacks : Unused(g)' => Unused(g)
    BY <1>1, <1>2 DEF Unused, Runs
<1>. QED
    BY <1>3, <1>4, OnceInvSame

\* The interrupt hands the feedback of this run over: nobody knew it.
LEMMA ResumeOnce ==
    ASSUME WorkflowInv, OnceInv, NEW f \in Feedbacks, Resume(f)
    PROVE  OnceInv'
<1>. DEFINE s == runs[f].st
            t == AwaitFeedbackNode(s, f)
<1>1. f \in Runs /\ s \in States /\ s \in ClassifyState
    BY DEF Runs, States, WorkflowInv, TypeOK, Run
<1>2. t.feedback = f /\ t.proposal = s.proposal
    BY <1>1 DEF AwaitFeedbackNode, ClassifyState
<1>3. Once(s) /\ \A g \in Feedbacks : Unused(g) => ~Mentions(s, g)
    BY <1>1 DEF OnceInv
<1>4. Unused(f)
    BY DEF Resume, Unused
<1>5. Once(t)
    BY <1>2, <1>3, <1>4 DEF Once, Mentions
<1>6. \A g \in Feedbacks : g # f /\ Unused(g) => ~Mentions(t, g)
    BY <1>2, <1>3 DEF Mentions
<1>7. Commit(f, t)
    BY DEF Resume
<1>. HIDE DEF t
<1>. QED
    BY <1>1, <1>5, <1>6, <1>7, CommitStates, OnceInvWith

LEMMA AppendParts ==
    ASSUME NEW S, NEW q \in Seq(S), NEW e \in S
    PROVE  /\ DOMAIN Append(q, e) = 1..(Len(q) + 1)
           /\ Append(q, e)[Len(q) + 1] = e
           /\ \A i \in 1..(Len(q) + 1) : i # Len(q) + 1 =>
                  i \in DOMAIN q /\ Append(q, e)[i] = q[i]
<1>1. Len(q) \in Nat /\ DOMAIN q = 1..Len(q)
    OBVIOUS
<1>2. /\ Append(q, e) \in Seq(S) /\ Len(Append(q, e)) = Len(q) + 1
      /\ Append(q, e)[Len(q) + 1] = e
      /\ \A i \in 1..Len(q) : Append(q, e)[i] = q[i]
    BY AppendProperties
<1>3. DOMAIN Append(q, e) = 1..(Len(q) + 1)
    BY <1>2
<1>4. \A i \in 1..(Len(q) + 1) : i # Len(q) + 1 => i \in 1..Len(q)
    BY <1>1
<1>. QED
    BY <1>1, <1>2, <1>3, <1>4

\* refine appends the feedback it was given, which is not there yet.
LEMMA RefineOnce ==
    ASSUME WorkflowInv, OnceInv, NEW r \in Runs, Refine(r)
    PROVE  OnceInv'
<1>. DEFINE s == runs[r].st
            t == RefineNode(s)
            old == s.proposal.applied
<1>1. s \in States /\ s \in ClassifyState /\ s.next = "refine"
      /\ old \in Seq(Feedbacks)
    BY DEF States, WorkflowInv, TypeOK, Run, Refine, GoodRun, ClassifyState,
           Proposals
<1>2. s.feedback \in Feedbacks
    BY <1>1 DEF WorkflowInv, Good, GoodRounds
<1>3. t.feedback = s.feedback /\ t.next = "await_feedback"
      /\ t.proposal.applied = Append(old, s.feedback)
    BY <1>1 DEF RefineNode, ClassifyState
<1>4. Once(s) /\ \A f \in Feedbacks : Unused(f) => ~Mentions(s, f)
    BY <1>1 DEF OnceInv
<1>. DEFINE applied == t.proposal.applied
            n == Len(old) + 1
<1>5. /\ DOMAIN applied = 1..n /\ applied[n] = s.feedback
      /\ \A i \in 1..n : i # n => i \in DOMAIN old /\ applied[i] = old[i]
  <2>1. /\ DOMAIN Append(old, s.feedback) = 1..n
        /\ Append(old, s.feedback)[n] = s.feedback
        /\ \A i \in 1..n : i # n =>
               i \in DOMAIN old /\ Append(old, s.feedback)[i] = old[i]
    <3>. DEFINE e == s.feedback
    <3>1. old \in Seq(Feedbacks) /\ e \in Feedbacks
        BY <1>1, <1>2
    <3>. HIDE DEF old, e
    <3>. QED
        BY <3>1, AppendParts
  <2>2. applied = Append(old, s.feedback)
      BY <1>3
  <2>. QED
      BY <2>1, <2>2
<1>6. \A i \in DOMAIN old : old[i] # s.feedback
    BY <1>1, <1>4 DEF Once
<1>7. \A i, j \in DOMAIN old : old[i] = old[j] => i = j
    BY <1>4 DEF Once
<1>. HIDE DEF applied, n
<1>8. \A i, j \in DOMAIN applied : applied[i] = applied[j] => i = j
    BY <1>5, <1>6, <1>7
<1>. USE DEF applied
<1>. HIDE DEF t
<1>9. Once(t)
    BY <1>3, <1>8 DEF Once
<1>10. \A f \in Feedbacks : Unused(f) => ~Mentions(t, f)
  <2>1. \A f \in Feedbacks : Unused(f) =>
            f # s.feedback /\ \A i \in DOMAIN old : old[i] # f
      BY <1>4 DEF Mentions
  <2>2. ASSUME NEW f \in Feedbacks, Unused(f), NEW i \in DOMAIN applied
        PROVE  applied[i] # f
      BY <2>1, <2>2, <1>5
  <2>. QED
      BY <2>1, <2>2, <1>3 DEF Mentions
<1>. USE DEF t
<1>11. Commit(r, t)
    BY DEF Refine
<1>. HIDE DEF t
<1>. QED
    BY <1>9, <1>10, <1>11, CommitStates, OnceInvWith

LEMMA RunOnce ==
    ASSUME WorkflowInv, OnceInv, NEW r \in Runs, RunStep(r)
    PROVE  OnceInv'
<1>1. runs \in [Runs -> Run] /\ runs[r] \in Run
      /\ runs[r].st \in ClassifyState /\ GoodRun(r)
    BY DEF WorkflowInv, TypeOK, Run
<1>2. CASE r = StartTask /\ (\/ BeginClassify \/ ReportAudit \/ Announce
                             \/ HandleFailure \/ AnnounceFailure)
    BY <1>2, ClassifyTaskOnce
<1>3. CASE r \in Feedbacks /\ (BeginResume(r) \/ Resume(r))
    BY <1>3, BeginResumeOnce, ResumeOnce
<1>4. CASE Split(r)
    BY <1>1, <1>4, NodesKeep, CommitKeeps DEF Split
<1>5. CASE BatchPropose(r)
    BY <1>5, MoveOnce DEF BatchPropose
<1>6. CASE BatchRetry(r)
  <2>1. runs' = [runs EXCEPT ![r] = [runs[r] EXCEPT !.attempt = @ + 1]]
        /\ ckpt' = ckpt
      BY <1>1, <1>6 DEF BatchRetry
  <2>. DEFINE new == [runs[r] EXCEPT !.attempt = @ + 1]
  <2>2. new.st = runs[r].st /\ new.pc = runs[r].pc
        /\ new.resume = runs[r].resume
      BY <1>1 DEF Run
  <2>3. runs'[r] = new /\ \A q \in Runs \ {r} : runs'[q] = runs[q]
    <3>. HIDE DEF new
    <3>1. runs' = [runs EXCEPT ![r] = new]
        BY <2>1 DEF new
    <3>. QED
        BY <1>1, <3>1
  <2>. HIDE DEF new
  <2>4. \A q \in Runs : runs'[q].st = runs[q].st
      BY <2>2, <2>3
  <2>5. States' \subseteq States
      BY <2>1, <2>4 DEF States
  <2>6. \A f \in Feedbacks : Unused(f)' => Unused(f)
      BY <2>2, <2>3 DEF Unused, Runs
  <2>. QED
      BY <2>5, <2>6, OnceInvSame
<1>7. CASE Merge(r)
    BY <1>7, MoveOnce DEF Merge
<1>8. CASE Checkpoint(r)
    BY <1>1, <1>8, NodesKeep, CommitKeeps DEF Checkpoint
<1>9. CASE AskRefine(r) \/ Refine(r)
    BY <1>9, MoveOnce, RefineOnce DEF AskRefine
<1>10. CASE Interrupt(r)
    BY <1>10, MoveOnce DEF Interrupt
<1>11. CASE Finalize(r)
    BY <1>1, <1>11, NodesKeep, CommitKeeps DEF Finalize
<1>12. CASE Finish(r)
    BY <1>12, MoveOnce DEF Finish
<1>13. CASE NodeFails(r)
    BY <1>13, AbortOnce DEF NodeFails
<1>. QED
    BY <1>2, <1>3, <1>4, <1>5, <1>6, <1>7, <1>8, <1>9, <1>10, <1>11, <1>12,
       <1>13 DEF RunStep

LEMMA OnceInvStep ==
    WorkflowInv /\ Posted /\ OnceInv /\ [Next]_vars => OnceInv'
<1>. SUFFICES ASSUME WorkflowInv, Posted, OnceInv, [Next]_vars PROVE OnceInv'
    OBVIOUS
<1>1. ASSUME NEW r \in Runs, Kill(r) PROVE OnceInv'
    BY <1>1, AbortOnce DEF Kill
<1>2. CASE UNCHANGED vars
    BY <1>2, SameOnce DEF vars
<1>. QED
    BY <1>1, <1>2, ApiOnce, RunOnce DEF Next

-----------------------------------------------------------------------------
(* A run begins with its request.                                           *)

\* A step of a run changes no run that has not begun.
LEMMA RunStepsIdle ==
    ASSUME WorkflowInv, NEW r \in Runs, RunStep(r) \/ Kill(r)
    PROVE  UNCHANGED http
           /\ \A q \in Runs : runs[q].pc = "idle" => runs'[q].pc = "idle"
<1>1. DOMAIN runs = Runs /\ StartTask \in Runs
    BY DEF WorkflowInv, TypeOK, Runs
<1>2. runs[r].pc # "idle" /\ UNCHANGED http
    BY DEF RunStep, Kill, Active, At, BeginClassify, ReportAudit, Announce,
           HandleFailure, AnnounceFailure, BeginResume, Resume, Split,
           BatchPropose, BatchRetry, Merge, Checkpoint, AskRefine, Refine, Interrupt,
           Finalize, Finish, NodeFails
<1>3. \A q \in Runs \ {r} : runs'[q] = runs[q]
    BY <1>1 DEF RunStep, Kill, Commit, Move, Abort, BeginClassify, ReportAudit,
           Announce, HandleFailure, AnnounceFailure, BeginResume, Resume, Split,
           BatchPropose, BatchRetry, Merge, Checkpoint, AskRefine, Refine, Interrupt,
           Finalize, Finish, NodeFails
<1>. QED
    BY <1>2, <1>3

LEMMA PostedStep == WorkflowInv /\ Posted /\ [Next]_vars => Posted'
<1>. SUFFICES ASSUME WorkflowInv, Posted, [Next]_vars PROVE Posted'
    OBVIOUS
<1>1. DOMAIN runs = Runs /\ DOMAIN http = Feedbacks
      /\ \A f \in Feedbacks : f \in Runs /\ f # StartTask
    BY FeedbacksAssumption DEF WorkflowInv, TypeOK, Runs
<1>2. ASSUME NEW n \in 0..(MaxSongs + 1), Start(n) PROVE Posted'
    BY <1>1, <1>2 DEF Start, Posted
<1>3. CASE StartAudit
    BY <1>3 DEF StartAudit, Posted
<1>4. ASSUME NEW f \in Feedbacks, Feedback(f) PROVE Posted'
    BY <1>1, <1>4 DEF Feedback, Posted
<1>5. ASSUME NEW f \in Feedbacks, FeedbackAnswered(f) \/ FeedbackFails(f)
      PROVE  Posted'
    BY <1>1, <1>5 DEF FeedbackAnswered, FeedbackFails, Posted
<1>6. ASSUME NEW r \in Runs, RunStep(r) \/ Kill(r) PROVE Posted'
    BY <1>1, <1>6, RunStepsIdle DEF Posted
<1>7. CASE UNCHANGED vars
    BY <1>7 DEF vars, Posted
<1>. QED
    BY <1>2, <1>3, <1>4, <1>5, <1>6, <1>7 DEF Next, ApiNext

LEMMA OnceInvariant == Spec => [](Posted /\ OnceInv)
<1>1. Init => Posted
    BY DEF Init, Posted, Runs
<1>. QED
    BY <1>1, OnceInvInit, OnceInvStep, PostedStep, WorkflowInvariant, PTL
    DEF Spec

-----------------------------------------------------------------------------
\* No state of the thread has a feedback twice in its proposal, whatever runs
\* overlap and however often a refine is executed again (nodes.py, refine_node).
THEOREM FeedbackNeverTwice == Spec => []FeedbackAppliedOnce
<1>1. OnceInv => FeedbackAppliedOnce
    BY DEF OnceInv, Once, FeedbackAppliedOnce
<1>. QED
    BY <1>1, OnceInvariant, PTL

-----------------------------------------------------------------------------
(* What a feedback costs.  A run that has asked the AI to reclassify has no *)
(* resume value any more and goes to the interrupt, where it ends.          *)

Spent(r) ==
    /\ runs[r].pc \notin {"idle", "queued", "published"}
    /\ runs[r].pc = "node" =>
          runs[r].st.next = "await_feedback" /\ ~runs[r].resume

\* The inductive invariant, on top of WorkflowInv and Posted.
CallInv ==
    /\ OneCallPerFeedback
    /\ \A i \in DOMAIN refines : Spent(refines[i])

LEMMA CallInvSame ==
    ASSUME CallInv, UNCHANGED refines, \A r \in Runs : Spent(r) => Spent(r)',
           \A i \in DOMAIN refines : refines[i] \in Runs
    PROVE  CallInv'
BY DEF CallInv, OneCallPerFeedback

\* Steps that change no run but r, which is not spent or ends.
LEMMA CallInvOther ==
    ASSUME WorkflowInv, CallInv, NEW r \in Runs, UNCHANGED refines,
           \A q \in Runs \ {r} : runs'[q] = runs[q], Spent(r) => Spent(r)'
    PROVE  CallInv'
<1>1. \A i \in DOMAIN refines : refines[i] \in Runs
    BY DEF WorkflowInv, TypeOK
<1>2. \A q \in Runs : Spent(q) => Spent(q)'
    BY DEF Spent
<1>. QED
    BY <1>1, <1>2, CallInvSame

LEMMA CallInvApi ==
    ASSUME WorkflowInv, Posted, CallInv, ApiNext
    PROVE  CallInv'
<1>1. runs \in [Runs -> Run] /\ StartTask \in Runs
      /\ \A f \in Feedbacks : f \in Runs
    BY DEF WorkflowInv, TypeOK, Runs
<1>2. ASSUME NEW n \in 0..(MaxSongs + 1), Start(n) PROVE CallInv'
  <2>1. ~Spent(StartTask) /\ UNCHANGED refines
        /\ \A q \in Runs \ {StartTask} : runs'[q] = runs[q]
      BY <1>1, <1>2 DEF Start, Spent, WorkflowInv, NotStarted
  <2>. QED
      BY <1>1, <2>1, CallInvOther
<1>3. ASSUME NEW f \in Feedbacks, Feedback(f) PROVE CallInv'
  <2>1. ~Spent(f) /\ UNCHANGED refines
        /\ \A q \in Runs \ {f} : runs'[q] = runs[q]
      BY <1>1, <1>3 DEF Feedback, Spent, Posted
  <2>. QED
      BY <1>1, <2>1, CallInvOther
<1>4. ASSUME UNCHANGED <<runs, refines>> PROVE CallInv'
    BY <1>1, <1>4, CallInvOther DEF Spent
<1>. QED
    BY <1>2, <1>3, <1>4 DEF ApiNext, StartAudit, FeedbackAnswered, FeedbackFails

\* The AI is asked by a run that was at refine, hence never before.
LEMMA CallInvAsks ==
    ASSUME WorkflowInv, CallInv, NEW r \in Runs, AskRefine(r)
    PROVE  CallInv'
<1>1. /\ runs \in [Runs -> Run] /\ refines \in Seq(Runs) /\ ~Spent(r)
      /\ refines' = Append(refines, r)
      /\ runs' = [runs EXCEPT ![r].pc = "asked"]
    BY DEF WorkflowInv, TypeOK, AskRefine, Move, At, Spent
<1>2. runs'[r].pc = "asked" /\ \A q \in Runs \ {r} : runs'[q] = runs[q]
    BY <1>1 DEF Run
<1>3. Spent(r)' /\ \A q \in Runs : Spent(q) => Spent(q)'
    BY <1>2 DEF Spent
<1>. DEFINE n == Len(refines) + 1
<1>4. /\ DOMAIN refines' = 1..n /\ refines'[n] = r
      /\ \A i \in 1..n : i # n => i \in DOMAIN refines /\ refines'[i] = refines[i]
    BY <1>1, AppendParts
<1>5. \A i \in DOMAIN refines : refines[i] \in Runs /\ refines[i] # r
    BY <1>1 DEF CallInv
<1>. HIDE DEF n
<1>6. OneCallPerFeedback'
    BY <1>4, <1>5 DEF CallInv, OneCallPerFeedback
<1>7. \A i \in DOMAIN refines' : Spent(refines[i])'
  <2>. SUFFICES ASSUME NEW i \in 1..n PROVE Spent(refines[i])'
      BY <1>4
  <2>1. CASE i = n
      BY <1>3, <1>4, <2>1
  <2>2. CASE i # n
      BY <1>3, <1>4, <1>5, <2>2 DEF CallInv
  <2>. QED
      BY <2>1, <2>2
<1>. QED
    BY <1>6, <1>7 DEF CallInv

LEMMA CallInvRun ==
    ASSUME WorkflowInv, CallInv, NEW r \in Runs, RunStep(r) \/ Kill(r)
    PROVE  CallInv'
<1>1. runs \in [Runs -> Run] /\ runs[r].st \in ClassifyState /\ GoodRun(r)
    BY DEF WorkflowInv, TypeOK, Run
<1>2. CASE AskRefine(r)
    BY <1>2, CallInvAsks
<1>3. CASE Refine(r)
  <2>. DEFINE t == RefineNode(runs[r].st)
  <2>1. t.next = "await_feedback"
      BY <1>1 DEF RefineNode, ClassifyState
  <2>2. Commit(r, t) /\ UNCHANGED refines
      BY <1>3 DEF Refine
  <2>. HIDE DEF t
  <2>3. /\ runs'[r] = [pc |-> "node", st |-> t, attempt |-> 0, resume |-> FALSE]
        /\ \A q \in Runs \ {r} : runs'[q] = runs[q]
      BY <1>1, <2>2 DEF Commit
  <2>. QED
      BY <2>1, <2>2, <2>3, CallInvOther DEF Spent
<1>4. CASE /\ RunStep(r) \/ Kill(r)
           /\ ~AskRefine(r) /\ ~Refine(r)
  <2>1. /\ UNCHANGED refines
        /\ \A q \in Runs \ {r} : runs'[q] = runs[q]
      BY <1>1, <1>4
      DEF RunStep, Kill, Commit, Move, Abort, BeginClassify, ReportAudit,
          Announce, HandleFailure, AnnounceFailure, BeginResume, Resume, Split,
          BatchPropose, BatchRetry, Merge, Checkpoint, Interrupt, Finalize,
          Finish, NodeFails
  <2>2. Spent(r) => \/ runs[r].pc \in {"asked", "reporting", "announcing",
                                     "handling", "failing"}
                    \/ At(r, "await_feedback") /\ ~runs[r].resume
                    \/ ~Active(r)
      BY <1>1 DEF Spent, At, Active, Run, Labels
  <2>3. Spent(r) => runs'[r].pc \in {"announcing", "reporting", "failing", "done",
                                   "failed", "killed", "handling"}
    <3>. SUFFICES ASSUME Spent(r)
                  PROVE  runs'[r].pc \in {"announcing", "reporting", "failing",
                                         "done", "failed", "killed", "handling"}
        OBVIOUS
    <3>1. CASE Kill(r)
        BY <1>1, <3>1 DEF Kill, Abort
    <3>2. CASE RunStep(r)
      <4>1. \/ NodeFails(r) \/ Interrupt(r)
            \/ r = StartTask /\ (\/ ReportAudit \/ Announce
                                 \/ HandleFailure \/ AnnounceFailure)
          BY <1>4, <2>2, <3>2
          DEF Spent, RunStep, At, Active, BeginClassify, BeginResume, Resume, Split,
              BatchPropose, BatchRetry, Merge, Checkpoint, Finalize, Finish
      <4>. QED
          BY <1>1, <4>1
          DEF NodeFails, Interrupt, ReportAudit, Announce, HandleFailure,
              AnnounceFailure, Abort, Move, Run
    <3>. QED
        BY <1>4, <3>1, <3>2
  <2>. QED
      BY <2>1, <2>3, CallInvOther DEF Spent
<1>. QED
    BY <1>2, <1>3, <1>4

LEMMA CallInvariant == Spec => []CallInv
<1>1. Init => CallInv
    BY DEF Init, CallInv, OneCallPerFeedback
<1>2. WorkflowInv /\ Posted /\ CallInv /\ [Next]_vars => CallInv'
  <2>. SUFFICES ASSUME WorkflowInv, Posted, CallInv, [Next]_vars PROVE CallInv'
      OBVIOUS
  <2>1. CASE UNCHANGED vars
    <3>1. \A i \in DOMAIN refines : refines[i] \in Runs
        BY DEF WorkflowInv, TypeOK
    <3>. QED
        BY <2>1, <3>1, CallInvSame DEF vars, Spent
  <2>. QED
      BY <2>1, CallInvApi, CallInvRun DEF Next
<1>. QED
    BY <1>1, <1>2, WorkflowInvariant, OnceInvariant, PTL DEF Spec

\* A feedback costs one AI reclassification at most, whether runs overlap, fail, are
\* killed or execute a refine again that another run has left behind (nodes.py,
\* _classify_refine; classify_task.py, classify_resume_task).
THEOREM OneCallEach == Spec => []OneCallPerFeedback
<1>1. CallInv => OneCallPerFeedback
    BY DEF CallInv
<1>. QED
    BY <1>1, CallInvariant, PTL

-----------------------------------------------------------------------------
(* Part 3.  Runs that do not overlap: a feedback is posted only while no    *)
(* run of the thread is active.  Then one run at a time holds the thread,   *)
(* its copy is the latest checkpoint, and every change of the checkpoint is *)
(* a step of the workflow.                                                  *)

\* The labels at which a run works on a copy of the checkpoint.
Holding == {"node", "published", "asked", "reporting", "announcing"}

\* How far the thread s is while classify_task is at pc.  This run is the
\* first one, so nobody has asked for a feedback or failed before it.
FirstRunAt(pc, s) ==
    /\ pc \in {"node", "published", "asked", "handling"} =>
          /\ s.next \in {"split", "batch_propose", "merge", "await_feedback"}
          /\ s.status # "failed"
    /\ pc = "handling" => s.next \in {"batch_propose", "merge"}
    /\ pc \in {"reporting", "announcing"} => s.next \in Decided

\* The status polling sees belongs to the pending node.
InStep(s) ==
    /\ s.next = "await_feedback" => s.status = "awaiting_feedback"
    /\ s.next \in {"refine", "finalize"} => s.status = "refining"
    /\ s.next = "END" => s.status = "finalized"

OneRun == \A q, r \in Runs : Active(q) /\ Active(r) => q = r

\* Until the first run has begun there is no checkpoint.
Unopened ==
    /\ api # "ok" => \A f \in Feedbacks : runs[f].pc = "idle"
    /\ api = "idle" \/ runs[StartTask].pc = "queued" => ckpt = EmptyState
    /\ runs[StartTask].pc = "queued" => runs[StartTask].st.status = ""

CopiesLatest == \A r \in Runs : runs[r].pc \in Holding => runs[r].st = ckpt

\* The inductive invariant, on top of WorkflowInv.
SerialInv ==
    /\ OneRun /\ Unopened /\ CopiesLatest
    /\ FirstRunAt(runs[StartTask].pc, ckpt)
    /\ InStep(ckpt)
    /\ "awaiting_feedback" \in audit => ckpt.next \in Decided

-----------------------------------------------------------------------------
(* What a step does to the checkpoint: from s to t.                         *)

SameProposal(s, t) == /\ t.iteration = s.iteration
                      /\ t.proposal = s.proposal
                      /\ t.plan = s.plan

Opens(s, t) == /\ s.next = "absent" /\ t.next = "split"
               /\ t.status = ""
               /\ SameProposal(s, t)

Works(s, t) == /\ s.next \in {"split", "batch_propose"}
               /\ t.next \in {"batch_propose", "merge"}
               /\ t.status = s.status
               /\ SameProposal(s, t)

Proposes(s, t) == /\ s.next \in {"batch_propose", "merge"}
                  /\ t.next = "await_feedback"
                  /\ t.status = "awaiting_feedback"
                  /\ t.iteration = 0 /\ t.plan = s.plan

Takes(s, t) == /\ s.next = "await_feedback"
               /\ t.next \in {"refine", "finalize"}
               /\ t.status = "refining"
               /\ SameProposal(s, t)

Reclassifies(s, t) ==
    /\ s.next = "refine" /\ t.next = "await_feedback"
    /\ t.status = "awaiting_feedback"
    /\ t.iteration = s.iteration + 1 /\ t.plan = s.plan
    /\ t.proposal.applied = Append(s.proposal.applied, s.feedback)

Ends(s, t) == /\ s.next = "finalize" /\ t.next = "END"
              /\ t.status = "finalized"
              /\ t.iteration = s.iteration
              /\ t.proposal = s.proposal /\ t.plan = s.proposal

GivesUp(s, t) == /\ s.next \in {"batch_propose", "merge"} /\ s.status = ""
                 /\ t.next = s.next /\ t.status = "failed"
                 /\ SameProposal(s, t)

ThreadStep(s, t) ==
    \/ t = s
    \/ Opens(s, t) \/ Works(s, t) \/ Proposes(s, t) \/ Takes(s, t)
    \/ Reclassifies(s, t) \/ Ends(s, t) \/ GivesUp(s, t)

-----------------------------------------------------------------------------
(* Each node is a step of the workflow.                                     *)

LEMMA SplitWorks ==
    ASSUME NEW s \in ClassifyState, s.next = "split"
    PROVE  Works(s, SplitNode(s))
BY DEF Works, SameProposal, SplitNode, ClassifyState

LEMMA BatchWorksOrProposes ==
    ASSUME NEW s, Good(s), s.next = "batch_propose"
    PROVE  LET t == BatchProposeNode(s)
           IN  Works(s, t) \/ Proposes(s, t)
<1>. DEFINE t == BatchProposeNode(s)
            added == [s EXCEPT
                        !.batch_proposals = Append(@, s.batch_index),
                        !.completed = @ + 1,
                        !.batch_index = @ + 1]
            asked == [added EXCEPT
                        !.proposal = [covers |-> <<s.batch_index>>,
                                      applied |-> <<>>],
                        !.status = "awaiting_feedback", !.iteration = 0]
<1>1. /\ s.batch_index \in Nat /\ s.total_batches \in Nat
      /\ s.batch_index < s.total_batches
    BY DEF Good, GoodBatches, ClassifyState
<1>2. /\ DOMAIN added = DOMAIN s
      /\ added.batch_index = s.batch_index + 1
      /\ added.total_batches = s.total_batches
      /\ added.status = s.status /\ SameProposal(s, added)
    BY DEF Good, ClassifyState, SameProposal
<1>3. CASE s.total_batches = 1
  <2>1. t = [asked EXCEPT !.next = RouteAfterBatch(asked)]
      BY <1>3 DEF BatchProposeNode
  <2>. HIDE DEF added
  <2>2. /\ DOMAIN asked = DOMAIN s
        /\ asked.batch_index = s.batch_index + 1
        /\ asked.total_batches = 1
        /\ asked.status = "awaiting_feedback" /\ asked.iteration = 0
        /\ asked.plan = s.plan
      BY <1>2, <1>3 DEF SameProposal, Good, ClassifyState
  <2>. HIDE DEF asked
  <2>3. RouteAfterBatch(asked) = "await_feedback"
      BY <1>1, <1>3, <2>2 DEF RouteAfterBatch
  <2>. HIDE DEF t
  <2>4. Proposes(s, t)
      BY <2>1, <2>2, <2>3 DEF Proposes, Good, ClassifyState
  <2>. QED
      BY <2>4 DEF t
<1>4. CASE s.total_batches # 1
  <2>1. t = [added EXCEPT !.next = RouteAfterBatch(added)]
      BY <1>4 DEF BatchProposeNode
  <2>. HIDE DEF added
  <2>2. RouteAfterBatch(added) \in {"batch_propose", "merge"}
      BY <1>1, <1>2, <1>4 DEF RouteAfterBatch
  <2>. HIDE DEF t
  <2>3. Works(s, t)
      BY <1>2, <2>1, <2>2 DEF Works, SameProposal, Good, ClassifyState
  <2>. QED
      BY <2>3 DEF t
<1>. QED
    BY <1>3, <1>4

LEMMA MergeProposes ==
    ASSUME NEW s \in ClassifyState, s.next = "merge"
    PROVE  Proposes(s, MergeNode(s))
BY DEF Proposes, MergeNode, ClassifyState

LEMMA AwaitFeedbackTakes ==
    ASSUME NEW s \in ClassifyState, s.next = "await_feedback", NEW f
    PROVE  Takes(s, AwaitFeedbackNode(s, f))
BY DEF Takes, SameProposal, AwaitFeedbackNode, RouteAfterFeedback, ClassifyState

LEMMA RefineReclassifies ==
    ASSUME NEW s \in ClassifyState, s.next = "refine"
    PROVE  Reclassifies(s, RefineNode(s))
BY DEF Reclassifies, RefineNode, ClassifyState

LEMMA FinalizeEnds ==
    ASSUME NEW s \in ClassifyState, s.next = "finalize"
    PROVE  Ends(s, FinalizeNode(s))
BY DEF Ends, FinalizeNode, ClassifyState

\* What follows from the kind of step alone.
LEMMA StepsInStep ==
    ASSUME NEW s, NEW t, ThreadStep(s, t), InStep(s)
    PROVE  /\ InStep(t)
           /\ s.next \in Decided => t.next \in Decided
<1>1. CASE t = s
    BY <1>1
<1>2. CASE Opens(s, t) \/ Works(s, t) \/ Proposes(s, t) \/ Takes(s, t)
    BY <1>2 DEF Opens, Works, Proposes, Takes, InStep, Decided
<1>3. CASE Reclassifies(s, t)
  <2>1. t.next = "await_feedback" /\ t.status = "awaiting_feedback"
      BY <1>3 DEF Reclassifies
  <2>. QED
      BY <2>1 DEF InStep, Decided
<1>4. CASE Ends(s, t) \/ GivesUp(s, t)
    BY <1>4 DEF Ends, GivesUp, InStep, Decided
<1>. QED
    BY <1>1, <1>2, <1>3, <1>4 DEF ThreadStep

\* A thread without a proposal is in round 0.
LEMMA UndecidedRound ==
    ASSUME NEW s, Good(s), s.next \notin Decided
    PROVE  s.iteration = 0 /\ s.proposal = NoProposal
<1>1. s.proposal = NoProposal
    BY DEF Good, GoodProposal
<1>2. s.proposal.applied = <<>>
    BY <1>1 DEF NoProposal
<1>3. s.iteration = Len(s.proposal.applied)
    BY DEF Good, GoodRounds
<1>. QED
    BY <1>1, <1>2, <1>3

-----------------------------------------------------------------------------
(* One run holds the thread.                                                *)

\* The active run r goes to the run new and nobody else moves.
LEMMA SerialKept ==
    ASSUME WorkflowInv, SerialInv, NEW r \in Runs, Active(r), NEW new,
           runs' = [runs EXCEPT ![r] = new],
           new.pc \notin {"idle", "queued"},
           new.pc \in Holding => new.st = ckpt',
           r = StartTask => FirstRunAt(new.pc, ckpt'),
           InStep(ckpt'),
           "awaiting_feedback" \in audit' => ckpt'.next \in Decided,
           UNCHANGED api
    PROVE  SerialInv'
<1>1. DOMAIN runs = Runs /\ StartTask \in Runs
      /\ \A f \in Feedbacks : f \in Runs /\ f # StartTask
    BY FeedbacksAssumption DEF WorkflowInv, TypeOK, Runs
<1>2. runs'[r] = new /\ \A q \in Runs \ {r} : runs'[q] = runs[q]
    BY <1>1
<1>3. \A q \in Runs \ {r} : ~Active(q)
    BY DEF SerialInv, OneRun
<1>4. \A q \in Runs \ {r} : runs[q].pc \in {"idle", "done", "failed", "killed"}
    BY <1>3 DEF Active
<1>5. OneRun'
    BY <1>2, <1>4 DEF OneRun, Active
<1>6. CopiesLatest'
    BY <1>2, <1>4 DEF CopiesLatest, Holding
<1>7. api # "idle"
    BY <1>1 DEF WorkflowInv, NotStarted, SerialInv, Unopened, Active, Runs
<1>8. runs'[StartTask].pc # "queued"
    BY <1>1, <1>2, <1>4
<1>9. api # "ok" => \A f \in Feedbacks : runs'[f].pc = "idle"
    BY <1>1, <1>2 DEF SerialInv, Unopened, Active
<1>10. Unopened'
    BY <1>7, <1>8, <1>9 DEF Unopened
<1>11. FirstRunAt(runs'[StartTask].pc, ckpt')
  <2>1. CASE r = StartTask
      BY <1>2, <2>1
  <2>2. CASE r # StartTask
      BY <1>1, <1>2, <1>4, <2>2 DEF FirstRunAt
  <2>. QED
      BY <2>1, <2>2
<1>. QED
    BY <1>5, <1>6, <1>10, <1>11 DEF SerialInv

\* A superstep that is a step of the workflow.
LEMMA CommitSerial ==
    ASSUME WorkflowInv, SerialInv, NEW r \in Runs, Active(r), NEW t,
           Commit(r, t), ThreadStep(ckpt, t),
           r = StartTask => FirstRunAt("node", t),
           UNCHANGED <<api, audit>>
    PROVE  SerialInv' /\ ThreadStep(ckpt, ckpt')
<1>. DEFINE new == [pc |-> "node", st |-> t, attempt |-> 0, resume |-> FALSE]
<1>1. ckpt' = t /\ runs' = [runs EXCEPT ![r] = new]
    BY DEF Commit
<1>2. InStep(t) /\ (ckpt.next \in Decided => t.next \in Decided)
    BY StepsInStep DEF SerialInv
<1>3. "awaiting_feedback" \in audit' => t.next \in Decided
    BY <1>2 DEF SerialInv
<1>4. new.pc = "node" /\ new.st = t
    OBVIOUS
<1>. HIDE DEF new
<1>5. SerialInv'
    BY <1>1, <1>2, <1>3, <1>4, SerialKept
<1>. QED
    BY <1>1, <1>5

LEMMA MoveSerial ==
    ASSUME WorkflowInv, SerialInv, NEW r \in Runs, Active(r), NEW label,
           Move(r, label), label \notin {"idle", "queued"},
           label \in Holding => runs[r].pc \in Holding,
           r = StartTask => FirstRunAt(label, ckpt),
           "awaiting_feedback" \in audit' => ckpt.next \in Decided,
           UNCHANGED <<ckpt, api>>
    PROVE  SerialInv' /\ ThreadStep(ckpt, ckpt')
<1>. DEFINE new == [runs[r] EXCEPT !.pc = label]
<1>1. runs \in [Runs -> Run]
    BY DEF WorkflowInv, TypeOK
<1>2. runs' = [runs EXCEPT ![r] = new]
    BY <1>1 DEF Move
<1>3. new.pc = label /\ new.st = runs[r].st
    BY <1>1 DEF Run
<1>. HIDE DEF new
<1>4. new.pc \in Holding => new.st = ckpt'
    BY <1>3 DEF SerialInv, CopiesLatest
<1>5. SerialInv'
  <2>1. InStep(ckpt')
      BY DEF SerialInv
  <2>. QED
      BY <1>2, <1>3, <1>4, <2>1, SerialKept
<1>. QED
    BY <1>5 DEF ThreadStep

LEMMA AbortSerial ==
    ASSUME WorkflowInv, SerialInv, NEW r \in Runs, Active(r),
           NEW label \in {"handling", "failed", "killed"}, Abort(r, label),
           r = StartTask => FirstRunAt(label, ckpt),
           UNCHANGED <<ckpt, api, audit>>
    PROVE  SerialInv' /\ ThreadStep(ckpt, ckpt')
<1>. DEFINE new == [pc |-> label, st |-> EmptyState, attempt |-> 0,
                    resume |-> FALSE]
<1>1. runs' = [runs EXCEPT ![r] = new]
    BY DEF Abort
<1>2. new.pc = label
    OBVIOUS
<1>. HIDE DEF new
<1>3. new.pc \notin Holding /\ new.pc \notin {"idle", "queued"}
    BY <1>2 DEF Holding
<1>4. SerialInv'
  <2>1. InStep(ckpt')
        /\ ("awaiting_feedback" \in audit' => ckpt'.next \in Decided)
      BY DEF SerialInv
  <2>. QED
      BY <1>1, <1>2, <1>3, <2>1, SerialKept
<1>. QED
    BY <1>4 DEF ThreadStep

-----------------------------------------------------------------------------
(* The steps of the API.                                                    *)

LEMMA SerialInvInit == Init => SerialInv
<1>. SUFFICES ASSUME Init PROVE SerialInv
    OBVIOUS
<1>1. \A r \in Runs : runs[r].pc = "idle"
    BY DEF Init
<1>2. StartTask \in Runs /\ Feedbacks \subseteq Runs
    BY DEF Runs
<1>3. OneRun /\ CopiesLatest /\ Unopened
    BY <1>1, <1>2 DEF Init, OneRun, CopiesLatest, Holding, Unopened, Active
<1>4. FirstRunAt(runs[StartTask].pc, ckpt) /\ InStep(ckpt)
    BY <1>1, <1>2 DEF Init, FirstRunAt, InStep, EmptyState
<1>. QED
    BY <1>3, <1>4 DEF SerialInv, Init

LEMMA StartSerial ==
    ASSUME WorkflowInv, SerialInv, NEW n, Start(n)
    PROVE  SerialInv'
<1>. DEFINE t == [EmptyState EXCEPT !.songs = n]
            new == [runs[StartTask] EXCEPT !.pc = "queued", !.st = t]
<1>1. /\ runs \in [Runs -> Run] /\ StartTask \in Runs
      /\ \A f \in Feedbacks : f \in Runs /\ f # StartTask
      /\ runs[StartTask].st = EmptyState /\ runs[StartTask].pc = "idle"
      /\ ckpt' = ckpt
    BY FeedbacksAssumption DEF WorkflowInv, TypeOK, NotStarted, Start, Runs
<1>2. t.status = ""
    BY DEF EmptyState
<1>. HIDE DEF t
<1>3. runs' = [runs EXCEPT ![StartTask] = new]
    BY <1>1 DEF Start, t
<1>4. new.pc = "queued" /\ new.st = t
    BY <1>1 DEF Run
<1>. HIDE DEF new
<1>5. runs'[StartTask] = new /\ \A q \in Runs \ {StartTask} : runs'[q] = runs[q]
    BY <1>1, <1>3
<1>6. \A f \in Feedbacks : runs[f].pc = "idle"
    BY DEF SerialInv, Unopened, Start
<1>7. OneRun'
    BY <1>5, <1>6 DEF OneRun, Active, Runs
<1>8. Unopened'
    BY <1>1, <1>2, <1>4, <1>5, <1>6 DEF SerialInv, Unopened, Start
<1>9. CopiesLatest'
    BY <1>1, <1>4, <1>5 DEF SerialInv, CopiesLatest, Holding
<1>10. FirstRunAt(runs'[StartTask].pc, ckpt')
    BY <1>4, <1>5 DEF FirstRunAt
<1>. QED
    BY <1>1, <1>7, <1>8, <1>9, <1>10 DEF SerialInv, Start

\* Nothing but the answer of a request changes.
LEMMA SameSerial ==
    ASSUME SerialInv, UNCHANGED <<ckpt, runs>>,
           "awaiting_feedback" \in audit' => "awaiting_feedback" \in audit,
           api' # "ok" => api # "ok", api' = "idle" => api = "idle"
    PROVE  SerialInv'
<1>1. OneRun' /\ CopiesLatest'
    BY DEF SerialInv, OneRun, CopiesLatest, Active
<1>2. Unopened'
    BY DEF SerialInv, Unopened
<1>. QED
    BY <1>1, <1>2 DEF SerialInv

\* No run was active, so the one this request queues is alone.
LEMMA FeedbackSerial ==
    ASSUME Overlap = FALSE, WorkflowInv, SerialInv,
           NEW f \in Feedbacks, Feedback(f)
    PROVE  SerialInv'
<1>. DEFINE new == [runs[f] EXCEPT !.pc = "queued"]
<1>1. /\ runs \in [Runs -> Run] /\ f \in Runs /\ f # StartTask
      /\ StartTask \in Runs
      /\ \A r \in Runs : ~Active(r)
    BY FeedbacksAssumption DEF WorkflowInv, TypeOK, Runs, Feedback
<1>2. runs' = [runs EXCEPT ![f] = new]
    BY <1>1 DEF Feedback
<1>3. new.pc = "queued"
    BY <1>1 DEF Run
<1>. HIDE DEF new
<1>4. runs'[f] = new /\ \A q \in Runs \ {f} : runs'[q] = runs[q]
    BY <1>1, <1>2
<1>5. OneRun'
    BY <1>1, <1>4 DEF OneRun, Active
<1>6. CopiesLatest'
    BY <1>1, <1>3, <1>4 DEF SerialInv, CopiesLatest, Holding, Feedback
<1>7. Unopened' /\ runs'[StartTask] = runs[StartTask]
    BY <1>1, <1>4 DEF SerialInv, Unopened, Feedback
<1>. QED
    BY <1>5, <1>6, <1>7 DEF SerialInv, Feedback

LEMMA ApiSerial ==
    ASSUME Overlap = FALSE, WorkflowInv, SerialInv, ApiNext
    PROVE  SerialInv' /\ ckpt' = ckpt
<1>1. ASSUME NEW n \in 0..(MaxSongs + 1), Start(n)
      PROVE  SerialInv' /\ ckpt' = ckpt
    BY <1>1, StartSerial DEF Start
<1>2. CASE StartAudit
    BY <1>2, SameSerial DEF StartAudit
<1>3. ASSUME NEW f \in Feedbacks, Feedback(f)
      PROVE  SerialInv' /\ ckpt' = ckpt
    BY <1>3, FeedbackSerial DEF Feedback
<1>4. ASSUME NEW f \in Feedbacks, FeedbackAnswered(f) \/ FeedbackFails(f)
      PROVE  SerialInv' /\ ckpt' = ckpt
    BY <1>4, SameSerial DEF FeedbackAnswered, FeedbackFails
<1>. QED
    BY <1>1, <1>2, <1>3, <1>4 DEF ApiNext

-----------------------------------------------------------------------------
(* The steps of a run.                                                      *)

LEMMA ClassifyTaskSerial ==
    ASSUME WorkflowInv, SerialInv,
           \/ BeginClassify \/ ReportAudit \/ Announce
           \/ HandleFailure \/ AnnounceFailure
    PROVE  SerialInv' /\ ThreadStep(ckpt, ckpt')
<1>. DEFINE r == StartTask
            s == runs[r].st
<1>1. r \in Runs /\ Good(s) /\ GoodRun(r) /\ s \in ClassifyState
      /\ Good(ckpt) /\ ckpt \in ClassifyState
    BY DEF WorkflowInv, Runs, TypeOK, Run
<1>2. Active(r)
    BY DEF BeginClassify, ReportAudit, Announce, HandleFailure,
           AnnounceFailure, Active
<1>3. CASE BeginClassify
  <2>. DEFINE t == [s EXCEPT !.next = "split"]
  <2>1. ckpt = EmptyState /\ s.next = "absent" /\ s.status = ""
      BY <1>1, <1>3 DEF BeginClassify, SerialInv, Unopened, GoodRun
  <2>2. /\ t.next = "split" /\ t.status = "" /\ t.iteration = s.iteration
        /\ t.proposal = s.proposal /\ t.plan = s.plan
      BY <1>1, <2>1 DEF ClassifyState
  <2>3. s.iteration = 0 /\ s.proposal = NoProposal /\ s.plan = NoProposal
      BY <1>1, <2>1 DEF Good, GoodEarly, GoodPlan
  <2>4. ckpt.next = "absent" /\ ckpt.iteration = 0
        /\ ckpt.proposal = NoProposal /\ ckpt.plan = NoProposal
      BY <2>1 DEF EmptyState
  <2>5. Commit(r, t) /\ UNCHANGED <<api, audit>>
      BY <1>3 DEF BeginClassify
  <2>. HIDE DEF t, s
  <2>6. ThreadStep(ckpt, t)
      BY <2>2, <2>3, <2>4 DEF ThreadStep, Opens, SameProposal
  <2>7. FirstRunAt("node", t)
      BY <2>2 DEF FirstRunAt
  <2>. QED
      BY <1>1, <1>2, <2>5, <2>6, <2>7, CommitSerial
<1>4. CASE ReportAudit
  <2>1. FirstRunAt("announcing", ckpt) /\ ckpt.next \in Decided
        /\ FirstRunAt("failed", ckpt) /\ r \in Runs /\ runs[r].pc \in Holding
      BY <1>1, <1>4 DEF ReportAudit, SerialInv, FirstRunAt, Holding
  <2>2. CASE Move(r, "announcing")
      BY <1>2, <1>4, <2>1, <2>2, MoveSerial DEF ReportAudit
  <2>3. CASE Abort(r, "failed") /\ UNCHANGED audit
      BY <1>2, <1>4, <2>1, <2>3, AbortSerial DEF ReportAudit
  <2>. QED
      BY <1>4, <2>2, <2>3 DEF ReportAudit
<1>5. CASE Announce
  <2>1. FirstRunAt("done", ckpt) /\ "done" \notin Holding
      BY DEF FirstRunAt, Holding
  <2>. QED
      BY <1>1, <1>2, <1>5, <2>1, MoveSerial DEF Announce, SerialInv
<1>6. CASE HandleFailure
  <2>1. ckpt.next \in {"batch_propose", "merge"} /\ ckpt.status = ""
      BY <1>1, <1>6
      DEF HandleFailure, SerialInv, FirstRunAt, Good, GoodProposal, Decided
  <2>. DEFINE t == [ckpt EXCEPT !.status = "failed"]
              new == [runs[r] EXCEPT !.pc = "failing"]
  <2>2. ckpt' \in {ckpt, t}
      BY <1>6 DEF HandleFailure
  <2>3. GivesUp(ckpt, t)
      BY <1>1, <2>1 DEF GivesUp, SameProposal, ClassifyState
  <2>4. t.next = ckpt.next
      BY <1>1 DEF ClassifyState
  <2>. HIDE DEF t
  <2>5. ThreadStep(ckpt, ckpt')
      BY <2>2, <2>3 DEF ThreadStep
  <2>6. runs \in [Runs -> Run]
      BY DEF WorkflowInv, TypeOK
  <2>7. runs' = [runs EXCEPT ![r] = new]
      BY <1>6, <2>6 DEF HandleFailure, Move
  <2>8. new.pc = "failing"
      BY <1>1, <2>6 DEF Run
  <2>. HIDE DEF new
  <2>9. ckpt'.next = ckpt.next
      BY <2>2, <2>4
  <2>10. InStep(ckpt') /\ ckpt'.next \notin Decided
      BY <2>1, <2>9 DEF InStep, Decided
  <2>11. "awaiting_feedback" \notin audit'
      BY <1>6, <2>9, <2>10 DEF HandleFailure, SerialInv
  <2>12. UNCHANGED api
      BY <1>6 DEF HandleFailure
  <2>13. new.pc \notin {"idle", "queued"} /\ new.pc \notin Holding
         /\ FirstRunAt(new.pc, ckpt')
      BY <2>8 DEF Holding, FirstRunAt
  <2>14. SerialInv'
      BY <1>1, <1>2, <2>7, <2>10, <2>11, <2>12, <2>13, SerialKept
  <2>. QED
      BY <2>5, <2>14
<1>7. CASE AnnounceFailure
  <2>1. FirstRunAt("failed", ckpt) /\ "failed" \notin Holding
      BY DEF FirstRunAt, Holding
  <2>. QED
      BY <1>1, <1>2, <1>7, <2>1, MoveSerial DEF AnnounceFailure, SerialInv
<1>. QED
    BY <1>3, <1>4, <1>5, <1>6, <1>7

LEMMA BeginResumeSerial ==
    ASSUME WorkflowInv, SerialInv, NEW f \in Feedbacks, BeginResume(f)
    PROVE  SerialInv' /\ ThreadStep(ckpt, ckpt')
<1>. DEFINE label == CASE ckpt.next = "absent" -> "failed"
                       [] ckpt.next = "END" -> "done"
                       [] OTHER -> "node"
            new == [pc |-> label, st |-> ckpt, attempt |-> 0, resume |-> TRUE]
<1>1. f \in Runs /\ f # StartTask /\ Active(f)
    BY FeedbacksAssumption DEF Runs, BeginResume, Active
<1>2. runs' = [runs EXCEPT ![f] = new] /\ UNCHANGED <<ckpt, api, audit>>
    BY DEF BeginResume
<1>3. label \in {"failed", "done", "node"}
    OBVIOUS
<1>4. new.pc = label /\ new.st = ckpt
    OBVIOUS
<1>. HIDE DEF new, label
<1>5. SerialInv'
  <2>1. InStep(ckpt')
        /\ ("awaiting_feedback" \in audit' => ckpt'.next \in Decided)
      BY <1>2 DEF SerialInv
  <2>2. new.pc \notin {"idle", "queued"} /\ new.st = ckpt'
      BY <1>2, <1>3, <1>4
  <2>. QED
      BY <1>1, <1>2, <2>1, <2>2, SerialKept
<1>. QED
    BY <1>2, <1>5 DEF ThreadStep

\* The copy of a run at a node is the latest checkpoint, so what the node makes
\* of it is what becomes of the thread.
LEMMA AtNodeIsLatest ==
    ASSUME WorkflowInv, SerialInv, NEW r \in Runs,
           runs[r].pc \in {"node", "published", "asked"}
    PROVE  /\ runs[r].st = ckpt /\ Active(r)
           /\ r = StartTask => FirstRunAt("node", ckpt)
BY DEF SerialInv, CopiesLatest, Holding, FirstRunAt, Active

\* classify_task goes on as the first run as long as nothing was decided.
LEMMA FirstRunGoesOn ==
    ASSUME NEW s, NEW t, FirstRunAt("node", s),
           Works(s, t) \/ Proposes(s, t)
    PROVE  FirstRunAt("node", t)
BY DEF FirstRunAt, Works, Proposes

LEMMA ProgressSerial ==
    ASSUME WorkflowInv, SerialInv, NEW r \in Runs, Active(r),
           runs[r].st = ckpt, r = StartTask => FirstRunAt("node", ckpt),
           NEW t, Commit(r, t), Works(ckpt, t) \/ Proposes(ckpt, t),
           UNCHANGED <<api, audit>>
    PROVE  SerialInv' /\ ThreadStep(ckpt, ckpt')
<1>1. ThreadStep(ckpt, t)
    BY DEF ThreadStep
<1>. QED
    BY <1>1, FirstRunGoesOn, CommitSerial

LEMMA NodeSerial ==
    ASSUME WorkflowInv, SerialInv, NEW r \in Runs,
           \/ Split(r) \/ BatchPropose(r) \/ Merge(r) \/ Checkpoint(r)
           \/ AskRefine(r) \/ Interrupt(r) \/ Finish(r) \/ NodeFails(r)
    PROVE  SerialInv' /\ ThreadStep(ckpt, ckpt')
<1>1. runs[r].pc \in {"node", "published", "asked"}
    BY DEF Split, BatchPropose, Merge, Checkpoint, AskRefine, Interrupt,
           Finish, NodeFails, At
<1>2. /\ runs[r].st = ckpt /\ Active(r)
      /\ r = StartTask => FirstRunAt("node", ckpt)
      /\ runs[r].pc \in Holding
    BY <1>1, AtNodeIsLatest DEF Holding
<1>3. Good(ckpt) /\ ckpt \in ClassifyState /\ GoodRun(r)
    BY DEF WorkflowInv, TypeOK
<1>4. "awaiting_feedback" \in audit => ckpt.next \in Decided
    BY DEF SerialInv
<1>5. CASE Split(r)
    BY <1>2, <1>3, <1>5, SplitWorks, ProgressSerial DEF Split, At
<1>6. CASE BatchPropose(r) \/ Merge(r)
  <2>1. r = StartTask => FirstRunAt("published", ckpt)
      BY <1>2 DEF FirstRunAt
  <2>. QED
      BY <1>2, <1>4, <1>6, <2>1, MoveSerial DEF BatchPropose, Merge
<1>10. CASE AskRefine(r)
  <2>1. r = StartTask => FirstRunAt("asked", ckpt)
      BY <1>2 DEF FirstRunAt
  <2>. QED
      BY <1>2, <1>4, <1>10, <2>1, MoveSerial DEF AskRefine
<1>7. CASE Checkpoint(r)
  <2>1. CASE ckpt.next = "merge"
      BY <1>2, <1>3, <1>7, <2>1, MergeProposes, ProgressSerial DEF Checkpoint
  <2>2. CASE ckpt.next = "batch_propose"
      BY <1>2, <1>3, <1>7, <2>2, BatchWorksOrProposes, ProgressSerial
      DEF Checkpoint
  <2>. QED
      BY <1>2, <1>3, <1>7, <2>1, <2>2 DEF Checkpoint, GoodRun
<1>8. CASE Interrupt(r) \/ Finish(r)
  <2>. DEFINE label == IF r = StartTask THEN "reporting" ELSE "done"
  <2>1. ckpt.next \in Decided
      BY <1>2, <1>8 DEF Interrupt, Finish, At, Decided
  <2>2. r = StartTask => FirstRunAt(label, ckpt)
      BY <2>1 DEF FirstRunAt
  <2>3. Move(r, label) /\ label \notin {"idle", "queued"}
        /\ UNCHANGED <<ckpt, api, audit>>
      BY <1>8 DEF Interrupt, Finish
  <2>. HIDE DEF label
  <2>. QED
      BY <1>2, <1>4, <2>2, <2>3, MoveSerial
<1>9. CASE NodeFails(r)
  <2>. DEFINE label == IF r = StartTask THEN "handling" ELSE "failed"
  <2>1. ckpt.next \in {"batch_propose", "merge", "refine"}
      BY <1>2, <1>3, <1>9 DEF NodeFails, At, GoodRun
  <2>2. r = StartTask => FirstRunAt(label, ckpt)
      BY <1>2, <2>1 DEF FirstRunAt
  <2>3. Abort(r, label) /\ label \in {"handling", "failed", "killed"}
        /\ UNCHANGED <<ckpt, api, audit>>
      BY <1>9 DEF NodeFails
  <2>. HIDE DEF label
  <2>. QED
      BY <1>2, <2>2, <2>3, AbortSerial
<1>. QED
    BY <1>5, <1>6, <1>7, <1>8, <1>9, <1>10

\* The nodes that follow a feedback: the first run is over.
LEMMA DecidedNodeSerial ==
    ASSUME WorkflowInv, SerialInv, NEW r \in Runs,
           Refine(r) \/ Finalize(r) \/ (r \in Feedbacks /\ Resume(r))
    PROVE  SerialInv' /\ ThreadStep(ckpt, ckpt')
<1>1. runs[r].pc \in {"node", "asked"}
    BY DEF Refine, Finalize, Resume, At
<1>2. /\ runs[r].st = ckpt /\ Active(r)
      /\ r = StartTask => FirstRunAt("node", ckpt)
    BY <1>1, AtNodeIsLatest
<1>3. Good(ckpt) /\ ckpt \in ClassifyState /\ GoodRun(r)
    BY DEF WorkflowInv, TypeOK
<1>4. r # StartTask
    BY <1>2, <1>3, FeedbacksAssumption
    DEF Refine, Finalize, At, FirstRunAt, GoodRun
<1>5. CASE Refine(r)
  <2>. DEFINE t == RefineNode(ckpt)
  <2>1. Reclassifies(ckpt, t)
      BY <1>2, <1>3, <1>5, RefineReclassifies DEF Refine, GoodRun
  <2>2. Commit(r, t) /\ UNCHANGED <<api, audit>>
      BY <1>2, <1>5 DEF Refine
  <2>. HIDE DEF t
  <2>4. ThreadStep(ckpt, t)
      BY <2>1 DEF ThreadStep
  <2>. QED
      BY <1>2, <1>4, <2>2, <2>4, CommitSerial
<1>6. CASE Finalize(r)
  <2>. DEFINE t == FinalizeNode(ckpt)
  <2>1. Ends(ckpt, t)
      BY <1>2, <1>3, <1>6, FinalizeEnds DEF Finalize, At
  <2>2. Commit(r, t) /\ UNCHANGED <<api, audit>>
      BY <1>2, <1>6 DEF Finalize
  <2>. HIDE DEF t
  <2>4. ThreadStep(ckpt, t)
      BY <2>1 DEF ThreadStep
  <2>. QED
      BY <1>2, <1>4, <2>2, <2>4, CommitSerial
<1>7. CASE r \in Feedbacks /\ Resume(r)
  <2>. DEFINE t == AwaitFeedbackNode(ckpt, r)
  <2>1. Takes(ckpt, t)
      BY <1>2, <1>3, <1>7, AwaitFeedbackTakes DEF Resume, At
  <2>2. Commit(r, t) /\ UNCHANGED <<api, audit>>
      BY <1>2, <1>7 DEF Resume
  <2>. HIDE DEF t
  <2>4. ThreadStep(ckpt, t)
      BY <2>1 DEF ThreadStep
  <2>. QED
      BY <1>2, <1>4, <2>2, <2>4, CommitSerial
<1>. QED
    BY <1>5, <1>6, <1>7

LEMMA BatchRetrySerial ==
    ASSUME WorkflowInv, SerialInv, NEW r \in Runs, BatchRetry(r)
    PROVE  SerialInv' /\ ThreadStep(ckpt, ckpt')
<1>. DEFINE new == [runs[r] EXCEPT !.attempt = @ + 1]
<1>1. runs \in [Runs -> Run] /\ runs[r].pc = "node"
    BY DEF WorkflowInv, TypeOK, BatchRetry, At
<1>2. /\ runs[r].st = ckpt /\ Active(r)
      /\ r = StartTask => FirstRunAt("node", ckpt)
    BY <1>1, AtNodeIsLatest
<1>3. new.pc = "node" /\ new.st = ckpt
    BY <1>1, <1>2 DEF Run
<1>4. runs' = [runs EXCEPT ![r] = new]
    BY <1>1 DEF BatchRetry
<1>. HIDE DEF new
<1>5. UNCHANGED <<ckpt, api, audit>>
    BY DEF BatchRetry
<1>6. SerialInv'
  <2>1. InStep(ckpt')
        /\ ("awaiting_feedback" \in audit' => ckpt'.next \in Decided)
      BY <1>5 DEF SerialInv
  <2>. QED
      BY <1>2, <1>3, <1>4, <1>5, <2>1, SerialKept
<1>. QED
    BY <1>5, <1>6 DEF ThreadStep

\* The invariant is kept, and the checkpoint takes a step of the workflow.
LEMMA SerialStep ==
    ASSUME Overlap = FALSE
    PROVE  WorkflowInv /\ SerialInv /\ [Next]_vars
              => SerialInv' /\ ThreadStep(ckpt, ckpt')
<1>. SUFFICES ASSUME WorkflowInv, SerialInv, [Next]_vars
              PROVE  SerialInv' /\ ThreadStep(ckpt, ckpt')
    OBVIOUS
<1>1. CASE ApiNext
    BY <1>1, ApiSerial DEF ThreadStep
<1>2. ASSUME NEW r \in Runs, RunStep(r)
      PROVE  SerialInv' /\ ThreadStep(ckpt, ckpt')
  <2>1. CASE r = StartTask /\ (\/ BeginClassify \/ ReportAudit \/ Announce
                               \/ HandleFailure \/ AnnounceFailure)
      BY <2>1, ClassifyTaskSerial
  <2>2. CASE r \in Feedbacks /\ BeginResume(r)
      BY <2>2, BeginResumeSerial
  <2>3. CASE Refine(r) \/ Finalize(r) \/ (r \in Feedbacks /\ Resume(r))
      BY <1>2, <2>3, DecidedNodeSerial
  <2>4. CASE BatchRetry(r)
      BY <1>2, <2>4, BatchRetrySerial
  <2>. QED
      BY <1>2, <2>1, <2>2, <2>3, <2>4, NodeSerial DEF RunStep
<1>3. ASSUME NEW r \in Runs, Kill(r)
      PROVE  SerialInv' /\ ThreadStep(ckpt, ckpt')
  <2>1. FirstRunAt("killed", ckpt)
      BY DEF FirstRunAt
  <2>. QED
      BY <1>3, <2>1, AbortSerial DEF Kill
<1>4. CASE UNCHANGED vars
    BY <1>4, SameSerial DEF vars, ThreadStep
<1>. QED
    BY <1>1, <1>2, <1>3, <1>4 DEF Next

LEMMA SerialInvariant ==
    ASSUME Overlap = FALSE
    PROVE  Spec => []SerialInv
<1>1. WorkflowInv /\ SerialInv /\ [Next]_vars => SerialInv'
    BY SerialStep
<1>. QED
    BY <1>1, SerialInvInit, WorkflowInvariant, PTL DEF Spec

-----------------------------------------------------------------------------
(* The theorems about runs that do not overlap.                             *)

\* A proposal made from at least one batch.
LEMMA DecidedHasProposal ==
    ASSUME NEW s, Good(s), s.next \in Decided
    PROVE  s.proposal.covers # <<>> /\ s.proposal # NoProposal
<1>1. s.songs \in Nat /\ s.songs > 0 /\ s.total_batches = NumBatches(s.songs)
    BY DEF Good, GoodBatches, ClassifyState, Decided
<1>2. s.total_batches \in Nat /\ s.total_batches >= 1
    BY <1>1, NumBatchesPositive
<1>3. AllBatches(s.total_batches) # <<>>
    BY <1>2, AllBatchesNotEmpty
<1>4. s.proposal.covers = AllBatches(s.total_batches)
    BY DEF Good, GoodProposal
<1>. QED
    BY <1>3, <1>4 DEF NoProposal

\* The audit log says "awaiting_feedback" only of a thread with a proposal, even
\* after later failures (classify_task.py, log_audit after invoke).
THEOREM AuditTellsTruth ==
    ASSUME Overlap = FALSE
    PROVE  Spec => []AuditedHasProposal
<1>1. WorkflowInv /\ SerialInv => AuditedHasProposal
    BY DecidedHasProposal DEF WorkflowInv, SerialInv, AuditedHasProposal
<1>. QED
    BY <1>1, WorkflowInvariant, SerialInvariant, PTL

\* A thread with a plan has ended, and no step leads on from there.
LEMMA PlanKept ==
    ASSUME NEW s, NEW t, Good(s), ThreadStep(s, t), s.plan # NoProposal
    PROVE  t.plan = s.plan
<1>1. s.next = "END"
    BY DEF Good, GoodPlan
<1>. QED
    BY <1>1 DEF ThreadStep, Opens, Works, Proposes, Takes, Reclassifies, Ends,
                GivesUp

\* The plan the user is about to confirm does not change under him.
THEOREM PlanNeverChanges ==
    ASSUME Overlap = FALSE
    PROVE  Spec => PlanStable
<1>1. WorkflowInv /\ SerialInv /\ [Next]_vars
         => (ckpt.plan # NoProposal => ckpt'.plan = ckpt.plan)
    BY PlanKept, SerialStep DEF WorkflowInv
<1>. QED
    BY <1>1, WorkflowInvariant, SerialInvariant, PTL DEF Spec, PlanStable

\* The feedbacks of s, in their order, are the first ones of t.
Extends(s, t) ==
    /\ Len(s.proposal.applied) <= Len(t.proposal.applied)
    /\ \A i \in DOMAIN s.proposal.applied :
          t.proposal.applied[i] = s.proposal.applied[i]

LEMMA SameExtends ==
    ASSUME NEW s \in ClassifyState, NEW t,
           t.proposal.applied = s.proposal.applied
    PROVE  Extends(s, t)
BY DEF Extends, ClassifyState, Proposals

LEMMA ThreadStepExtends ==
    ASSUME NEW s, NEW t, Good(s), t \in ClassifyState, ThreadStep(s, t)
    PROVE  Extends(s, t)
<1>1. /\ s \in ClassifyState /\ s.proposal.applied \in Seq(Feedbacks)
      /\ t.proposal.applied \in Seq(Feedbacks)
    BY DEF Good, ClassifyState, Proposals
<1>2. CASE t = s
    BY <1>1, <1>2, SameExtends
<1>3. CASE Opens(s, t) \/ Works(s, t) \/ Takes(s, t) \/ GivesUp(s, t)
    BY <1>1, <1>3, SameExtends DEF Opens, Works, Takes, GivesUp, SameProposal
<1>4. CASE Ends(s, t)
    BY <1>1, <1>4, SameExtends DEF Ends
<1>5. CASE Proposes(s, t)
  <2>1. s.next \notin Decided
      BY <1>5 DEF Proposes, Decided
  <2>2. s.proposal.applied = <<>>
      BY <2>1, UndecidedRound DEF NoProposal
  <2>3. Len(<<>>) = 0 /\ DOMAIN <<>> = {} /\ Len(t.proposal.applied) \in Nat
      BY <1>1
  <2>. QED
      BY <2>2, <2>3 DEF Extends
<1>6. CASE Reclassifies(s, t)
  <2>. DEFINE old == s.proposal.applied
  <2>1. s.next = "refine" /\ t.proposal.applied = Append(old, s.feedback)
      BY <1>6 DEF Reclassifies
  <2>2. s.feedback \in Feedbacks
      BY <2>1 DEF Good, GoodRounds
  <2>3. /\ Len(Append(old, s.feedback)) = Len(old) + 1
        /\ \A i \in 1..Len(old) : Append(old, s.feedback)[i] = old[i]
      BY <1>1, <2>2, AppendProperties
  <2>4. Len(old) \in Nat /\ DOMAIN old = 1..Len(old)
      BY <1>1
  <2>. HIDE DEF old
  <2>5. Len(old) <= Len(Append(old, s.feedback))
      BY <2>3, <2>4
  <2>. QED
      BY <2>1, <2>3, <2>4, <2>5 DEF Extends, old
<1>. QED
    BY <1>2, <1>3, <1>4, <1>5, <1>6 DEF ThreadStep

\* Feedback already in the proposal is never lost by a later checkpoint, nor
\* are the feedbacks reordered.
THEOREM FeedbackNeverLost ==
    ASSUME Overlap = FALSE
    PROVE  Spec => ProposalExtends
<1>1. WorkflowInv /\ SerialInv /\ [Next]_vars => Extends(ckpt, ckpt')
    BY ThreadStepExtends, SerialStep, WorkflowInvStep
    DEF WorkflowInv, TypeOK
<1>2. Extends(ckpt, ckpt') =>
         /\ Len(ckpt.proposal.applied) <= Len(ckpt'.proposal.applied)
         /\ \A i \in DOMAIN ckpt.proposal.applied :
               ckpt'.proposal.applied[i] = ckpt.proposal.applied[i]
    BY DEF Extends
<1>. QED
    BY <1>1, <1>2, WorkflowInvariant, SerialInvariant, PTL
    DEF Spec, ProposalExtends

-----------------------------------------------------------------------------
(* The refinement: what polling shows of the checkpoint.                    *)

\* Every step of the workflow on a good checkpoint is a promised step, or the
\* poll shows what it showed before.
LEMMA ThreadStepPromised ==
    ASSUME Good(ckpt), InStep(ckpt), Good(ckpt'), ThreadStep(ckpt, ckpt')
    PROVE  [Promise!Next]_Promise!promised
<1>1. CASE ckpt' = ckpt
    BY <1>1 DEF Promise!promised
<1>2. CASE Opens(ckpt, ckpt')
  <2>1. /\ ckpt.next = "absent" /\ ckpt'.next = "split" /\ ckpt'.status = ""
        /\ ckpt'.iteration = ckpt.iteration /\ ckpt'.plan = ckpt.plan
      BY <1>2 DEF Opens, SameProposal
  <2>2. Promise!Open
      BY <2>1 DEF Promise!Open
  <2>. QED
      BY <2>2 DEF Promise!Next
<1>3. CASE Works(ckpt, ckpt')
  <2>1. /\ ckpt.next # "absent" /\ ckpt'.next # "absent"
        /\ ckpt'.status = ckpt.status
        /\ ckpt'.iteration = ckpt.iteration /\ ckpt'.plan = ckpt.plan
      BY <1>3 DEF Works, SameProposal
  <2>. QED
      BY <2>1 DEF Promise!promised
<1>4. CASE Proposes(ckpt, ckpt')
  <2>1. /\ ckpt.next \in {"batch_propose", "merge"}
        /\ ckpt'.next = "await_feedback"
        /\ ckpt'.status = "awaiting_feedback"
        /\ ckpt'.iteration = 0 /\ ckpt'.plan = ckpt.plan
      BY <1>4 DEF Proposes
  <2>2. ckpt.next \notin Decided
      BY <2>1 DEF Decided
  <2>3. ckpt.iteration = 0 /\ ckpt.status \in {"", "failed"}
      BY <2>2, UndecidedRound DEF Good, GoodProposal
  <2>4. Promise!Propose
      BY <2>1, <2>3 DEF Promise!Propose
  <2>. QED
      BY <2>4 DEF Promise!Next
<1>5. CASE Takes(ckpt, ckpt')
  <2>1. /\ ckpt.next = "await_feedback" /\ ckpt.status = "awaiting_feedback"
        /\ ckpt'.next \in {"refine", "finalize"} /\ ckpt'.status = "refining"
        /\ ckpt'.iteration = ckpt.iteration /\ ckpt'.plan = ckpt.plan
      BY <1>5 DEF Takes, SameProposal, InStep
  <2>2. Promise!TakeFeedback
      BY <2>1 DEF Promise!TakeFeedback
  <2>. QED
      BY <2>2 DEF Promise!Next
<1>6. CASE Reclassifies(ckpt, ckpt')
  <2>1. /\ ckpt.next = "refine" /\ ckpt.status = "refining"
        /\ ckpt'.next = "await_feedback"
        /\ ckpt'.status = "awaiting_feedback"
        /\ ckpt'.iteration = ckpt.iteration + 1 /\ ckpt'.plan = ckpt.plan
      BY <1>6 DEF Reclassifies, InStep
  <2>2. ckpt.iteration < MaxIterations
      BY <2>1 DEF Good, GoodRounds
  <2>3. Promise!Reclassify
      BY <2>1, <2>2 DEF Promise!Reclassify
  <2>. QED
      BY <2>3 DEF Promise!Next
<1>7. CASE Ends(ckpt, ckpt')
  <2>1. /\ ckpt.next = "finalize" /\ ckpt.status = "refining"
        /\ ckpt'.next = "END" /\ ckpt'.status = "finalized"
        /\ ckpt'.iteration = ckpt.iteration
        /\ ckpt'.proposal = ckpt.proposal /\ ckpt'.plan = ckpt.proposal
      BY <1>7 DEF Ends, InStep
  <2>2. ckpt.iteration <= MaxIterations
      BY DEF Good, GoodRounds
  <2>3. ckpt'.plan # NoProposal
    <3>1. ckpt.next \in Decided
        BY <2>1 DEF Decided
    <3>. QED
        BY <2>1, <3>1, DecidedHasProposal
  <2>4. Promise!Finalize
      BY <2>1, <2>2, <2>3 DEF Promise!Finalize
  <2>. QED
      BY <2>4 DEF Promise!Next
<1>8. CASE GivesUp(ckpt, ckpt')
  <2>1. /\ ckpt.next # "absent" /\ ckpt.status = ""
        /\ ckpt'.next = ckpt.next /\ ckpt'.status = "failed"
        /\ ckpt'.iteration = ckpt.iteration /\ ckpt'.plan = ckpt.plan
      BY <1>8 DEF GivesUp, SameProposal
  <2>2. Promise!GiveUp
      BY <2>1 DEF Promise!GiveUp
  <2>. QED
      BY <2>2 DEF Promise!Next
<1>. QED
    BY <1>1, <1>2, <1>3, <1>4, <1>5, <1>6, <1>7, <1>8 DEF ThreadStep

\* Polling sees a proposal, then rounds of feedback that raise the round by
\* one, at most MaxIterations of them, then a plan that stays: the workflow
\* implements ClassifyPromise.
THEOREM ThreadKeepsPromise ==
    ASSUME Overlap = FALSE
    PROVE  Spec => KeepsPromise
<1>1. Init => Promise!Init
  <2>1. ASSUME Init
        PROVE  ckpt.next = "absent" /\ ckpt.iteration = 0
               /\ ckpt.plan = NoProposal
      BY <2>1 DEF Init, EmptyState
  <2>. QED
      BY <2>1 DEF Promise!Init
<1>2. WorkflowInv /\ SerialInv /\ [Next]_vars
         => [Promise!Next]_Promise!promised
    BY ThreadStepPromised, SerialStep, WorkflowInvStep
    DEF WorkflowInv, SerialInv
<1>. QED
    BY <1>1, <1>2, WorkflowInvariant, SerialInvariant, PTL
    DEF Spec, KeepsPromise, Promise!Spec

-----------------------------------------------------------------------------
(* Part 4.  The page of one tab (ClassifyStream).                           *)
(* All states of a thread are about one selection of songs, overlap or not. *)

SongsOf(s) == s.next # "absent" => s.songs = ckpt.songs

\* The inductive invariant, on top of WorkflowInv.
SelectionInv ==
    /\ ckpt.next = "absent" => ckpt.songs = 0
    /\ api = "idle" \/ runs[StartTask].pc = "queued" => ckpt.next = "absent"
    /\ \A r \in Runs : SongsOf(runs[r].st)

\* A run keeps its copy, takes over the checkpoint, or starts over.
Copied(q) == \/ runs'[q].st \in {runs[q].st, ckpt'}
             \/ runs'[q].st.next = "absent"

LEMMA CopiesStep ==
    ASSUME WorkflowInv, Next
    PROVE  \A q \in Runs : Copied(q)
<1>1. runs \in [Runs -> Run] /\ StartTask \in Runs /\ Feedbacks \subseteq Runs
    BY DEF WorkflowInv, TypeOK, Runs
<1>2. ASSUME NEW r \in Runs, NEW new, runs' = [runs EXCEPT ![r] = new],
             new.st \in {runs[r].st, ckpt'} \/ new.st.next = "absent"
      PROVE  \A q \in Runs : Copied(q)
  <2>1. runs'[r] = new /\ \A q \in Runs \ {r} : runs'[q] = runs[q]
      BY <1>1, <1>2
  <2>. QED
      BY <1>2, <2>1 DEF Copied
<1>3. ASSUME NEW r \in Runs, NEW t, Commit(r, t)
      PROVE  \A q \in Runs : Copied(q)
  <2>. DEFINE new == [pc |-> "node", st |-> t, attempt |-> 0, resume |-> FALSE]
  <2>1. runs' = [runs EXCEPT ![r] = new] /\ new.st = ckpt'
      BY <1>3 DEF Commit
  <2>. HIDE DEF new
  <2>. QED
      BY <2>1, <1>2
<1>4. ASSUME NEW r \in Runs, NEW label, Move(r, label)
      PROVE  \A q \in Runs : Copied(q)
  <2>. DEFINE new == [runs[r] EXCEPT !.pc = label]
  <2>1. runs' = [runs EXCEPT ![r] = new] /\ new.st = runs[r].st
      BY <1>1, <1>4 DEF Move, Run
  <2>. HIDE DEF new
  <2>. QED
      BY <2>1, <1>2
<1>5. ASSUME NEW r \in Runs, NEW label, Abort(r, label)
      PROVE  \A q \in Runs : Copied(q)
  <2>. DEFINE new == [pc |-> label, st |-> EmptyState, attempt |-> 0,
                      resume |-> FALSE]
  <2>1. runs' = [runs EXCEPT ![r] = new] /\ new.st.next = "absent"
      BY <1>5 DEF Abort, EmptyState
  <2>. HIDE DEF new
  <2>. QED
      BY <2>1, <1>2
<1>6. CASE UNCHANGED runs
    BY <1>6 DEF Copied
<1>7. ASSUME NEW n, Start(n)
      PROVE  \A q \in Runs : Copied(q)
  <2>. DEFINE t == [EmptyState EXCEPT !.songs = n]
              new == [runs[StartTask] EXCEPT !.pc = "queued", !.st = t]
  <2>1. runs[StartTask].st = EmptyState
      BY <1>7 DEF WorkflowInv, NotStarted, Start
  <2>2. t.next = "absent"
      BY DEF EmptyState
  <2>3. runs' = [runs EXCEPT ![StartTask] = new]
      BY <1>1, <1>7, <2>1 DEF Start
  <2>. HIDE DEF t
  <2>4. new.st = t
      BY <1>1 DEF Run
  <2>. HIDE DEF new
  <2>. QED
      BY <1>1, <1>2, <2>2, <2>3, <2>4
<1>8. ASSUME NEW f \in Feedbacks, Feedback(f)
      PROVE  \A q \in Runs : Copied(q)
  <2>1. f \in Runs /\ Move(f, "queued")
      BY <1>1, <1>8 DEF Feedback, Move
  <2>. QED
      BY <1>4, <2>1
<1>9. ASSUME NEW f \in Feedbacks, BeginResume(f)
      PROVE  \A q \in Runs : Copied(q)
  <2>. DEFINE label == CASE ckpt.next = "absent" -> "failed"
                         [] ckpt.next = "END" -> "done"
                         [] OTHER -> "node"
              new == [pc |-> label, st |-> ckpt, attempt |-> 0, resume |-> TRUE]
  <2>1. f \in Runs /\ runs' = [runs EXCEPT ![f] = new] /\ new.st = ckpt'
      BY <1>1, <1>9 DEF BeginResume
  <2>. HIDE DEF label, new
  <2>. QED
      BY <1>2, <2>1
<1>10. ASSUME NEW r \in Runs, BatchRetry(r)
       PROVE  \A q \in Runs : Copied(q)
  <2>. DEFINE new == [runs[r] EXCEPT !.attempt = @ + 1]
  <2>1. runs' = [runs EXCEPT ![r] = new] /\ new.st = runs[r].st
      BY <1>1, <1>10 DEF BatchRetry, Run
  <2>. HIDE DEF new
  <2>. QED
      BY <2>1, <1>2
<1>11. CASE ApiNext
    BY <1>6, <1>7, <1>8, <1>11
    DEF ApiNext, StartAudit, FeedbackAnswered, FeedbackFails
<1>12. ASSUME NEW r \in Runs, RunStep(r) \/ Kill(r)
       PROVE  \A q \in Runs : Copied(q)
  <2>1. CASE r = StartTask /\ (\/ BeginClassify \/ ReportAudit \/ Announce
                               \/ HandleFailure \/ AnnounceFailure)
      BY <1>1, <1>3, <1>4, <1>5, <2>1
      DEF BeginClassify, ReportAudit, Announce, HandleFailure, AnnounceFailure
  <2>2. CASE Split(r) \/ Checkpoint(r) \/ Refine(r) \/ Finalize(r)
             \/ (r \in Feedbacks /\ Resume(r))
      BY <1>3, <2>2 DEF Split, Checkpoint, Refine, Finalize, Resume
  <2>3. CASE BatchPropose(r) \/ Merge(r) \/ AskRefine(r) \/ Interrupt(r)
             \/ Finish(r)
      BY <1>4, <2>3 DEF BatchPropose, Merge, AskRefine, Interrupt, Finish
  <2>4. CASE NodeFails(r) \/ Kill(r)
      BY <1>5, <2>4 DEF NodeFails, Kill
  <2>. QED
      BY <1>9, <1>10, <1>12, <2>1, <2>2, <2>3, <2>4 DEF RunStep
<1>. QED
    BY <1>11, <1>12 DEF Next

\* No node changes the songs.
LEMMA NodeSongs ==
    ASSUME NEW s \in ClassifyState, NEW f
    PROVE  \A t \in {SplitNode(s), BatchProposeNode(s), MergeNode(s),
                      RefineNode(s), AwaitFeedbackNode(s, f), FinalizeNode(s)} :
              t.songs = s.songs /\ t.next # "absent"
<1>1. \A t \in {SplitNode(s), MergeNode(s), RefineNode(s), FinalizeNode(s),
                 AwaitFeedbackNode(s, f)} :
         t.songs = s.songs /\ t.next # "absent"
    BY DEF SplitNode, MergeNode, RefineNode, FinalizeNode, AwaitFeedbackNode,
           RouteAfterFeedback, ClassifyState
<1>2. BatchProposeNode(s).songs = s.songs /\ BatchProposeNode(s).next # "absent"
  <2>. DEFINE added == [s EXCEPT
                    !.batch_proposals = Append(@, s.batch_index),
                    !.completed = @ + 1,
                    !.batch_index = @ + 1]
              result == IF s.total_batches = 1
                        THEN [added EXCEPT
                                !.proposal = [covers |-> <<s.batch_index>>,
                                              applied |-> <<>>],
                                !.status = "awaiting_feedback",
                                !.iteration = 0]
                        ELSE added
  <2>1. BatchProposeNode(s) = [result EXCEPT !.next = RouteAfterBatch(result)]
      BY DEF BatchProposeNode
  <2>2. RouteAfterBatch(result) # "absent"
      BY DEF RouteAfterBatch
  <2>3. added.songs = s.songs /\ DOMAIN added = DOMAIN s
      BY DEF ClassifyState
  <2>4. result.songs = s.songs /\ DOMAIN result = DOMAIN s
    <3>. HIDE DEF added
    <3>. QED
        BY <2>3 DEF ClassifyState
  <2>. HIDE DEF result
  <2>. QED
      BY <2>1, <2>2, <2>4 DEF ClassifyState
<1>. QED
    BY <1>1, <1>2

\* A run that is past its beginning works on an opened thread.
LEMMA OpenedCopy ==
    ASSUME WorkflowInv, SelectionInv, NEW r \in Runs,
           runs[r].st.next # "absent"
    PROVE  /\ ckpt.next # "absent" /\ ckpt.songs = runs[r].st.songs
           /\ runs[r].st \in ClassifyState
<1>1. Good(runs[r].st)
    BY DEF WorkflowInv
<1>2. runs[r].st.songs > 0 /\ ckpt.songs = runs[r].st.songs
    BY <1>1 DEF SelectionInv, SongsOf, Good, GoodBatches
<1>. QED
    BY <1>1, <1>2 DEF SelectionInv, Good

\* Every step but the first of classify_task keeps the songs of the checkpoint.
LEMMA CheckpointSongs ==
    ASSUME WorkflowInv, SelectionInv, NEW r \in Runs, RunStep(r),
           ~BeginClassify
    PROVE  /\ ckpt'.songs = ckpt.songs
           /\ (ckpt'.next = "absent") <=> (ckpt.next = "absent")
<1>. DEFINE s == runs[r].st
<1>1. Good(ckpt) /\ ckpt \in ClassifyState /\ GoodRun(r)
    BY DEF WorkflowInv, TypeOK
<1>2. CASE Split(r) \/ Checkpoint(r) \/ Refine(r) \/ Finalize(r) \/ Resume(r)
  <2>1. s.next # "absent"
      BY <1>1, <1>2
      DEF Split, Checkpoint, Refine, Finalize, Resume, At, GoodRun
  <2>2. ckpt.next # "absent" /\ ckpt.songs = s.songs /\ s \in ClassifyState
      BY <2>1, OpenedCopy
  <2>3. ckpt' \in {SplitNode(s), BatchProposeNode(s), MergeNode(s),
                   RefineNode(s), AwaitFeedbackNode(s, r), FinalizeNode(s)}
      BY <1>2 DEF Split, Checkpoint, Refine, Finalize, Resume, Commit
  <2>. HIDE DEF s
  <2>. QED
      BY <2>2, <2>3, NodeSongs
<1>3. CASE HandleFailure
    BY <1>1, <1>3 DEF HandleFailure, ClassifyState
<1>4. CASE UNCHANGED ckpt
    BY <1>4
<1>. QED
    BY <1>2, <1>3, <1>4
    DEF RunStep, ReportAudit, Announce, AnnounceFailure, BeginResume,
        BatchPropose, BatchRetry, Merge, AskRefine, Interrupt, Finish, NodeFails

\* classify_task is queued by POST /start and by nothing else.
LEMMA QueuedBefore ==
    ASSUME WorkflowInv, NEW r \in Runs, RunStep(r) \/ Kill(r),
           runs'[StartTask].pc = "queued"
    PROVE  runs[StartTask].pc = "queued" /\ UNCHANGED api
<1>1. runs \in [Runs -> Run] /\ StartTask \in Runs /\ runs[r] \in Run
      /\ \A f \in Feedbacks : f # StartTask
    BY FeedbacksAssumption DEF WorkflowInv, TypeOK, Runs
<1>2. UNCHANGED api
    BY DEF RunStep, Kill, BeginClassify, ReportAudit, Announce, HandleFailure,
           AnnounceFailure, BeginResume, Resume, Split, BatchPropose,
           BatchRetry, Merge, Checkpoint, AskRefine, Refine, Interrupt,
           Finalize, Finish, NodeFails
<1>3. CASE r # StartTask
  <2>1. runs'[StartTask] = runs[StartTask]
      BY <1>1, <1>3
      DEF RunStep, Kill, Commit, Move, Abort, BeginResume, Resume, Split,
          BatchPropose, BatchRetry, Merge, Checkpoint, AskRefine, Refine,
          Interrupt, Finalize, Finish, NodeFails
  <2>. QED
      BY <1>2, <2>1
<1>4. CASE r = StartTask
  <2>1. CASE BatchRetry(r)
      BY <1>1, <1>2, <1>4, <2>1 DEF BatchRetry, At, Run
  <2>2. CASE ~BatchRetry(r)
    <3>1. runs'[r].pc # "queued"
        BY <1>1, <1>4, <2>2
        DEF RunStep, Kill, Commit, Move, Abort, BeginClassify, ReportAudit,
            Announce, HandleFailure, AnnounceFailure, Split, BatchPropose,
            Merge, Checkpoint, AskRefine, Refine, Interrupt, Finalize, Finish,
            NodeFails, Run
    <3>. QED
        BY <1>4, <3>1
  <2>. QED
      BY <2>1, <2>2
<1>. QED
    BY <1>3, <1>4

LEMMA SelectionKept ==
    ASSUME SelectionInv, \A q \in Runs : Copied(q),
           ckpt'.songs = ckpt.songs,
           (ckpt'.next = "absent") <=> (ckpt.next = "absent"),
           api' = "idle" \/ runs'[StartTask].pc = "queued"
              => api = "idle" \/ runs[StartTask].pc = "queued"
    PROVE  SelectionInv'
<1>1. \A q \in Runs : SongsOf(runs[q].st)'
    BY DEF SelectionInv, SongsOf, Copied
<1>. QED
    BY <1>1 DEF SelectionInv

\* The songs of the thread, once set, stay.
LEMMA SelectionStep ==
    ASSUME WorkflowInv, SelectionInv, [Next]_vars
    PROVE  SelectionInv' /\ (ckpt'.songs = ckpt.songs \/ ckpt.songs = 0)
<1>1. runs \in [Runs -> Run] /\ StartTask \in Runs
      /\ \A f \in Feedbacks : f \in Runs /\ f # StartTask
    BY FeedbacksAssumption DEF WorkflowInv, TypeOK, Runs
<1>2. CASE ApiNext
  <2>1. UNCHANGED ckpt /\ \A q \in Runs : Copied(q)
      BY <1>2, CopiesStep
      DEF Next, ApiNext, Start, StartAudit, Feedback, FeedbackAnswered,
          FeedbackFails
  <2>2. ASSUME NEW n, Start(n) PROVE api = "idle"
      BY <2>2 DEF Start
  <2>3. ASSUME NEW f \in Feedbacks, Feedback(f)
        PROVE  api' = api /\ runs'[StartTask] = runs[StartTask]
      BY <1>1, <2>3 DEF Feedback
  <2>4. ASSUME NEW f \in Feedbacks, FeedbackAnswered(f) \/ FeedbackFails(f)
        PROVE  api' = api /\ runs' = runs
      BY <2>4 DEF FeedbackAnswered, FeedbackFails
  <2>5. CASE StartAudit
      BY <2>1, <2>5, SelectionKept DEF StartAudit
  <2>. QED
      BY <1>2, <2>1, <2>2, <2>3, <2>4, <2>5, SelectionKept DEF ApiNext
<1>3. CASE BeginClassify
  <2>. DEFINE t == [runs[StartTask].st EXCEPT !.next = "split"]
  <2>1. /\ ckpt.next = "absent" /\ ckpt.songs = 0 /\ api # "idle"
        /\ \A q \in Runs : Good(runs[q].st) /\ GoodRun(q)
      BY <1>3 DEF BeginClassify, SelectionInv, WorkflowInv, NotStarted
  <2>2. \A q \in Runs : runs[q].st.next = "absent"
      BY <2>1, OpenedCopy
  <2>3. t.next = "split"
      BY <1>1 DEF Run, ClassifyState
  <2>4. Commit(StartTask, t) /\ UNCHANGED api
      BY <1>3 DEF BeginClassify
  <2>. HIDE DEF t
  <2>5. /\ ckpt' = t /\ runs'[StartTask].st = t /\ runs'[StartTask].pc = "node"
        /\ \A q \in Runs \ {StartTask} : runs'[q] = runs[q]
      BY <1>1, <2>4 DEF Commit
  <2>6. \A q \in Runs : SongsOf(runs[q].st)'
      BY <2>2, <2>5 DEF SongsOf
  <2>7. SelectionInv'
      BY <2>1, <2>3, <2>4, <2>5, <2>6 DEF SelectionInv
  <2>. QED
      BY <2>1, <2>7
<1>4. ASSUME NEW r \in Runs, RunStep(r) \/ Kill(r), ~BeginClassify
      PROVE  SelectionInv' /\ ckpt'.songs = ckpt.songs
  <2>1. /\ ckpt'.songs = ckpt.songs
        /\ (ckpt'.next = "absent") <=> (ckpt.next = "absent")
      BY <1>4, CheckpointSongs DEF Kill
  <2>2. \A q \in Runs : Copied(q)
      BY <1>4, CopiesStep DEF Next
  <2>3. UNCHANGED api
      BY <1>4 DEF RunStep, Kill, BeginClassify, ReportAudit, Announce,
           HandleFailure, AnnounceFailure, BeginResume, Resume, Split,
           BatchPropose, BatchRetry, Merge, Checkpoint, AskRefine, Refine,
           Interrupt, Finalize, Finish, NodeFails
  <2>4. runs'[StartTask].pc = "queued" => runs[StartTask].pc = "queued"
      BY <1>4, QueuedBefore
  <2>. QED
      BY <2>1, <2>2, <2>3, <2>4, SelectionKept
<1>5. CASE UNCHANGED vars
    BY <1>5, SelectionKept DEF vars, Copied
<1>. QED
    BY <1>2, <1>3, <1>4, <1>5 DEF Next

LEMMA SelectionInit == Init => SelectionInv
<1>. SUFFICES ASSUME Init PROVE SelectionInv
    OBVIOUS
<1>1. ckpt.next = "absent" /\ ckpt.songs = 0
      /\ \A r \in Runs : runs[r].st.next = "absent"
    BY DEF Init, EmptyState
<1>. QED
    BY <1>1 DEF SelectionInv, SongsOf

-----------------------------------------------------------------------------
(* The store is written from three sides, so the invariant follows what is  *)
(* on its way to it: messages in the channel, the snapshot of the endpoint, *)
(* the answer of GET and the copies of the runs that answer feedbacks.      *)

\* A proposal p in round i made from all of the n songs.
Whole(p, i, n) == /\ n > 0
                  /\ p.covers = AllBatches(NumBatches(n))
                  /\ i = Len(p.applied)

WholeMessages(n) ==
    {m \in Messages : m.kind = "ready" => Whole(m.proposal, m.iteration, n)}
Channels(n) == [subscribed : BOOLEAN, inbox : Seq(WholeMessages(n))]

Views == [status : Statuses, iteration : Nat, proposal : Proposals,
          plan : Proposals, error : BOOLEAN,
          progress : [shown : BOOLEAN, completed : Nat]]

\* classify_task reports a thread that has a proposal.
ReportsDecided ==
    runs[StartTask].pc \in {"reporting", "announcing"} =>
        runs[StartTask].st.next \in Decided

\* The inductive invariant of the page, on top of WorkflowInv.
ShownWhole == view.status = "awaiting_feedback" =>
                  Whole(view.proposal, view.iteration, ckpt.songs)

WholeInv ==
    /\ SelectionInv
    /\ channel \in Channels(ckpt.songs) /\ ReportsDecided
    /\ Good(snap) /\ SongsOf(snap) /\ Good(got) /\ SongsOf(got)
    /\ view \in Views /\ ShownWhole

\* A proposal in a good state is about all of its songs.
LEMMA DecidedWhole ==
    ASSUME NEW s, Good(s), s.next \in Decided
    PROVE  Whole(s.proposal, s.iteration, s.songs)
BY DEF Good, GoodRounds, GoodProposal, GoodBatches, Whole, Decided

LEMMA DecidedReady ==
    ASSUME NEW s, Good(s), s.next \in Decided
    PROVE  Ready(s) \in WholeMessages(s.songs)
<1>1. Whole(s.proposal, s.iteration, s.songs)
    BY DecidedWhole
<1>2. Ready(s) \in Messages
    BY GoodMessages
<1>3. Ready(s).proposal = s.proposal /\ Ready(s).iteration = s.iteration
    BY DEF Ready
<1>. QED
    BY <1>1, <1>2, <1>3 DEF WholeMessages

LEMMA OtherMessages ==
    ASSUME NEW s, Good(s), NEW n
    PROVE  Progress(s) \in WholeMessages(n) /\ Failed \in WholeMessages(n)
<1>1. Progress(s).kind = "progress" /\ Failed.kind = "failed"
    BY DEF Progress, Failed
<1>2. Progress(s) \in Messages /\ Failed \in Messages
    BY GoodMessages
<1>. QED
    BY <1>1, <1>2 DEF WholeMessages

LEMMA PublishWhole ==
    ASSUME NEW n, channel \in Channels(n), NEW m \in WholeMessages(n),
           Publish(m)
    PROVE  channel' \in Channels(n)
<1>1. channel.inbox \in Seq(WholeMessages(n))
    BY DEF Channels
<1>2. Append(channel.inbox, m) \in Seq(WholeMessages(n))
    BY <1>1
<1>. QED
    BY <1>2 DEF Channels, Publish

\* A user who is asked is asked about a whole proposal.
LEMMA AskedIsWhole ==
    ASSUME NEW s, Good(s), s.status = "awaiting_feedback"
    PROVE  Whole(s.proposal, s.iteration, s.songs) /\ s.next # "absent"
<1>1. s.next \in Decided
    BY DEF Good, GoodProposal
<1>. QED
    BY <1>1, DecidedWhole DEF Decided

-----------------------------------------------------------------------------
(* The workflow under the page.                                             *)

\* What a run publishes is a progress, a failure or a whole proposal.
LEMMA RunPublishesWhole ==
    ASSUME WorkflowInv, SelectionInv, channel \in Channels(ckpt.songs),
           ReportsDecided, NEW r \in Runs, RunStep(r)
    PROVE  channel' \in Channels(ckpt.songs)
<1>1. Good(runs[r].st) /\ Good(EmptyState)
    BY EmptyStateGood DEF WorkflowInv
<1>2. CASE BatchPropose(r)
  <2>1. Good(BatchProposeNode(runs[r].st))
      BY <1>1, <1>2, BatchProposeGood DEF BatchPropose, At
  <2>. QED
      BY <1>2, <2>1, OtherMessages, PublishWhole DEF BatchPropose
<1>3. CASE Merge(r)
  <2>1. Good(MergeNode(runs[r].st))
      BY <1>1, <1>3, MergeGood DEF Merge, At
  <2>2. /\ MergeNode(runs[r].st).next \in Decided
        /\ MergeNode(runs[r].st).songs = runs[r].st.songs
      BY <1>1 DEF MergeNode, Good, ClassifyState, Decided
  <2>3. runs[r].st.songs = ckpt.songs
      BY <1>3, OpenedCopy DEF Merge, At
  <2>. QED
      BY <1>3, <2>1, <2>2, <2>3, DecidedReady, PublishWhole DEF Merge
<1>4. CASE r = StartTask /\ Announce
  <2>1. runs[StartTask].st.next \in Decided
      BY <1>4 DEF ReportsDecided, Announce
  <2>2. runs[StartTask].st.songs = ckpt.songs
      BY <1>4, <2>1, OpenedCopy DEF Decided
  <2>. QED
      BY <1>1, <1>4, <2>1, <2>2, DecidedReady, PublishWhole DEF Announce
<1>5. CASE AnnounceFailure
    BY <1>1, <1>5, OtherMessages, PublishWhole DEF AnnounceFailure
<1>6. CASE UNCHANGED channel
    BY <1>6
<1>7. \/ BatchPropose(r) \/ Merge(r) \/ (r = StartTask /\ Announce)
      \/ AnnounceFailure \/ UNCHANGED channel
    BY DEF RunStep, BeginClassify, ReportAudit, HandleFailure, BeginResume,
           Resume, Split, BatchRetry, Checkpoint, AskRefine, Refine, Interrupt, Finalize,
           Finish, NodeFails
<1>. QED
    BY <1>2, <1>3, <1>4, <1>5, <1>6, <1>7

\* classify_task comes to its report with a proposal.
LEMMA ReportsDecidedStep ==
    ASSUME WorkflowInv, ReportsDecided, Next
    PROVE  ReportsDecided'
<1>. DEFINE r == StartTask
<1>1. runs \in [Runs -> Run] /\ r \in Runs
      /\ \A f \in Feedbacks : f # r
    BY FeedbacksAssumption DEF WorkflowInv, TypeOK, Runs
<1>2. CASE runs'[r] = runs[r]
    BY <1>2 DEF ReportsDecided
<1>3. CASE runs'[r].pc \notin {"reporting", "announcing"}
    BY <1>3 DEF ReportsDecided
<1>4. ASSUME runs'[r].st = runs[r].st, runs[r].st.next \in Decided
      PROVE  ReportsDecided'
    BY <1>4 DEF ReportsDecided
<1>5. CASE ApiNext
  <2>1. ASSUME NEW n \in 0..(MaxSongs + 1), Start(n)
        PROVE  runs'[r].pc = "queued"
      BY <1>1, <2>1 DEF Start, Run
  <2>2. ASSUME NEW f \in Feedbacks, Feedback(f)
        PROVE  runs'[r] = runs[r]
      BY <1>1, <2>2 DEF Feedback
  <2>. QED
      BY <1>2, <1>3, <1>5, <2>1, <2>2
      DEF ApiNext, StartAudit, FeedbackAnswered, FeedbackFails
<1>6. ASSUME NEW q \in Runs, RunStep(q) \/ Kill(q), q # r
      PROVE  ReportsDecided'
  <2>1. runs'[r] = runs[r]
      BY <1>1, <1>6
      DEF RunStep, Kill, Commit, Move, Abort, BeginResume, Resume, Split,
          BatchPropose, BatchRetry, Merge, Checkpoint, AskRefine, Refine, Interrupt,
          Finalize, Finish, NodeFails
  <2>. QED
      BY <1>2, <2>1
<1>7. CASE Interrupt(r) \/ Finish(r)
  <2>1. runs'[r].st = runs[r].st /\ runs[r].st.next \in Decided
      BY <1>1, <1>7 DEF Interrupt, Finish, At, Move, Run, Decided
  <2>. QED
      BY <1>4, <2>1
<1>8. CASE ReportAudit
  <2>1. CASE Move(r, "announcing")
    <3>1. runs'[r].st = runs[r].st /\ runs[r].st.next \in Decided
        BY <1>1, <1>8, <2>1 DEF ReportAudit, ReportsDecided, Move, Run
    <3>. QED
        BY <1>4, <3>1
  <2>2. CASE Abort(r, "failed")
      BY <1>1, <1>3, <2>2 DEF Abort
  <2>. QED
      BY <1>8, <2>1, <2>2 DEF ReportAudit
<1>9. CASE \/ BeginClassify \/ Announce \/ HandleFailure \/ AnnounceFailure
           \/ Split(r) \/ BatchPropose(r) \/ BatchRetry(r) \/ Merge(r)
           \/ Checkpoint(r) \/ AskRefine(r) \/ Refine(r) \/ Finalize(r)
           \/ NodeFails(r) \/ Kill(r)
  <2>1. CASE BatchRetry(r)
    <3>1. runs'[r].pc = "node"
        BY <1>1, <2>1 DEF BatchRetry, At, Run
    <3>. QED
        BY <1>3, <3>1
  <2>2. CASE ~BatchRetry(r)
    <3>1. runs'[r].pc \in {"node", "published", "asked", "done", "failing",
                           "failed", "handling", "killed"}
        BY <1>1, <1>9, <2>2
        DEF BeginClassify, Announce, HandleFailure, AnnounceFailure, Split,
            BatchPropose, Merge, Checkpoint, AskRefine, Refine, Finalize,
            NodeFails, Kill, Commit, Move, Abort, Run
    <3>. QED
        BY <1>3, <3>1
  <2>. QED
      BY <2>1, <2>2
<1>. QED
    BY <1>1, <1>5, <1>6, <1>7, <1>8, <1>9 DEF Next, RunStep

\* While a thread has no songs nothing in the channel is a proposal.
LEMMA WholeChannel ==
    ASSUME NEW c, NEW m, NEW n, m = n \/ n = 0, c \in Channels(n)
    PROVE  c \in Channels(m)
<1>1. WholeMessages(n) \subseteq WholeMessages(m)
    BY DEF WholeMessages, Whole
<1>2. Seq(WholeMessages(n)) \subseteq Seq(WholeMessages(m))
    BY <1>1
<1>. QED
    BY <1>2 DEF Channels

\* A step of the workflow keeps the messages whole.
LEMMA WorkflowKeepsChannel ==
    ASSUME WorkflowInv, SelectionInv, channel \in Channels(ckpt.songs),
           ReportsDecided, [Next]_vars
    PROVE  channel' \in Channels(ckpt'.songs) /\ ReportsDecided'
<1>1. CASE Next
  <2>1. channel' \in Channels(ckpt.songs)
    <3>1. ASSUME NEW r \in Runs, RunStep(r)
          PROVE  channel' \in Channels(ckpt.songs)
        BY <3>1, RunPublishesWhole
    <3>2. CASE ApiNext \/ \E r \in Runs : Kill(r)
        BY <3>2 DEF ApiNext, Start, StartAudit, Feedback, FeedbackAnswered,
                    FeedbackFails, Kill
    <3>. QED
        BY <1>1, <3>1, <3>2 DEF Next
  <2>. QED
      BY <1>1, <2>1, ReportsDecidedStep, SelectionStep, WholeChannel
<1>2. CASE UNCHANGED vars
    BY <1>2 DEF vars, ReportsDecided
<1>. QED
    BY <1>1, <1>2

-----------------------------------------------------------------------------
(* The store.                                                               *)

LEMMA SetFromStateFields ==
    ASSUME view \in Views, NEW status \in Statuses, NEW iteration \in Nat,
           NEW proposal \in Proposals, NEW plan \in Proposals
    PROVE  LET v == SetFromState(status, iteration, proposal, plan)
           IN  /\ v \in Views
               /\ v.status = status /\ v.iteration = iteration
               /\ v.proposal = proposal
BY DEF SetFromState, Views

LEMMA OnReadyFields ==
    ASSUME view \in Views, NEW iteration \in Nat, NEW proposal \in Proposals,
           OnReady(proposal, iteration)
    PROVE  /\ view' \in Views
           /\ view'.status = "awaiting_feedback"
           /\ view'.iteration = iteration /\ view'.proposal = proposal
<1>. DEFINE v == SetFromState("awaiting_feedback", iteration, proposal,
                              NoProposal)
<1>1. NoProposal \in Proposals /\ "awaiting_feedback" \in Statuses
    BY EmptyStateGood DEF Good, EmptyState, ClassifyState, Statuses
<1>2. v \in Views /\ v.status = "awaiting_feedback"
      /\ v.iteration = iteration /\ v.proposal = proposal
    BY <1>1, SetFromStateFields
<1>3. view' = [v EXCEPT !.progress = NoProgress]
    BY DEF OnReady
<1>. HIDE DEF v
<1>. QED
    BY <1>2, <1>3 DEF Views, NoProgress

LEMMA OnFailedFields ==
    ASSUME view \in Views, OnFailed
    PROVE  /\ view' \in Views
           /\ view'.status = view.status /\ view'.iteration = view.iteration
           /\ view'.proposal = view.proposal
BY DEF OnFailed, Views, NoProgress

LEMMA OnProgressFields ==
    ASSUME view \in Views, NEW completed \in Nat
    PROVE  LET v == OnProgress(completed)
           IN  /\ v \in Views
               /\ v.status = view.status /\ v.iteration = view.iteration
               /\ v.proposal = view.proposal
BY DEF OnProgress, Views

\* What the store keeps of the thread on the screen is unchanged.
LEMMA SameShown ==
    ASSUME ShownWhole, view'.status = view.status, ckpt'.songs = ckpt.songs,
           view'.iteration = view.iteration, view'.proposal = view.proposal
    PROVE  ShownWhole'
BY DEF ShownWhole

\* The store takes over a good state of the thread.
LEMMA TakesGoodState ==
    ASSUME NEW s, Good(s), SongsOf(s), view \in Views, NEW plan \in Proposals,
           ckpt'.songs = ckpt.songs,
           view' = SetFromState(s.status, s.iteration, s.proposal, plan)
    PROVE  /\ view' \in Views /\ ShownWhole'
           /\ view'.status = s.status /\ view'.proposal = s.proposal
<1>1. s.status \in Statuses /\ s.iteration \in Nat /\ s.proposal \in Proposals
    BY DEF Good, ClassifyState
<1>2. view' \in Views /\ view'.status = s.status
      /\ view'.iteration = s.iteration /\ view'.proposal = s.proposal
    BY <1>1, SetFromStateFields
<1>. QED
    BY <1>2, AskedIsWhole DEF ShownWhole, SongsOf

-----------------------------------------------------------------------------
(* The steps of the page.                                                   *)

LEMMA EmptyChannel ==
    ASSUME NEW n
    PROVE  /\ Unsubscribed \in Channels(n)
           /\ [subscribed |-> TRUE, inbox |-> <<>>] \in Channels(n)
<1>1. <<>> \in Seq(WholeMessages(n))
    OBVIOUS
<1>. QED
    BY <1>1 DEF Unsubscribed, Channels

\* What the page shows after a step that is not an answer of GET or of a
\* feedback: a proposal it was told of, or the same as before.
LEMMA StreamWhole ==
    ASSUME WholeInv,
           SnapshotReady \/ SnapshotFailed \/ Subscribe \/ Deliver
    PROVE  /\ channel' \in Channels(ckpt.songs) /\ view' \in Views
           /\ ShownWhole' /\ Good(snap)' /\ SongsOf(snap)' /\ got' = got
           /\ \/ view'.status = "awaiting_feedback"
              \/ view'.status = view.status /\ view'.proposal = view.proposal
<1>1. /\ channel \in Channels(ckpt.songs) /\ view \in Views /\ ShownWhole
      /\ Good(snap) /\ SongsOf(snap)
      /\ Good(EmptyState) /\ EmptyState.next = "absent"
    BY EmptyStateGood DEF WholeInv, EmptyState
<1>9. UNCHANGED ckpt
    BY DEF SnapshotReady, SnapshotFailed, Subscribe, Deliver, workflow
<1>2. snap.iteration \in Nat /\ snap.proposal \in Proposals
      /\ snap.completed \in Nat
    BY <1>1 DEF Good, ClassifyState
<1>3. CASE SnapshotReady
  <2>1. snap.status = "awaiting_feedback"
        /\ OnReady(snap.proposal, snap.iteration)
        /\ snap' = EmptyState /\ channel' = channel /\ got' = got
      BY <1>3 DEF SnapshotReady
  <2>2. /\ view' \in Views /\ view'.status = "awaiting_feedback"
        /\ view'.iteration = snap.iteration /\ view'.proposal = snap.proposal
      BY <1>1, <1>2, <2>1, OnReadyFields
  <2>3. ShownWhole'
      BY <1>1, <1>9, <2>1, <2>2, AskedIsWhole DEF ShownWhole, SongsOf
  <2>. QED
      BY <1>1, <1>9, <2>1, <2>2, <2>3 DEF SongsOf
<1>4. CASE SnapshotFailed
  <2>1. OnFailed /\ snap' = EmptyState /\ channel' = channel /\ got' = got
      BY <1>4 DEF SnapshotFailed
  <2>. QED
      BY <1>1, <1>9, <2>1, OnFailedFields, SameShown DEF SongsOf
<1>5. CASE Subscribe
  <2>1. /\ view' \in {view, OnProgress(snap.completed)}
        /\ channel' = [subscribed |-> TRUE, inbox |-> <<>>]
        /\ snap' = EmptyState /\ got' = got
      BY <1>5 DEF Subscribe
  <2>2. /\ view' \in Views
        /\ view'.status = view.status /\ view'.iteration = view.iteration
        /\ view'.proposal = view.proposal
      BY <1>1, <1>2, <2>1, OnProgressFields
  <2>. QED
      BY <1>1, <1>9, <2>1, <2>2, EmptyChannel, SameShown DEF SongsOf
<1>6. CASE Deliver
  <2>. DEFINE m == Head(channel.inbox)
  <2>1. channel.inbox \in Seq(WholeMessages(ckpt.songs)) /\ channel.inbox # <<>>
      BY <1>1, <1>6 DEF Deliver, Channels
  <2>2. m \in WholeMessages(ckpt.songs)
        /\ Tail(channel.inbox) \in Seq(WholeMessages(ckpt.songs))
      BY <2>1, HeadTailProperties
  <2>3. snap' = snap /\ got' = got
      BY <1>6 DEF Deliver
  <2>. HIDE DEF m
  <2>4. /\ m \in Messages
        /\ m.kind = "ready" => Whole(m.proposal, m.iteration, ckpt.songs)
      BY <2>2 DEF WholeMessages
  <2>5. CASE m.kind = "ready"
    <3>1. m.proposal \in Proposals /\ m.iteration \in Nat
        BY <2>4, <2>5 DEF Messages, Failed
    <3>2. OnReady(m.proposal, m.iteration) /\ channel' = Unsubscribed
        BY <1>6, <2>5 DEF Deliver, m
    <3>3. /\ view' \in Views /\ view'.status = "awaiting_feedback"
          /\ view'.iteration = m.iteration /\ view'.proposal = m.proposal
        BY <1>1, <3>1, <3>2, OnReadyFields
    <3>4. ShownWhole'
        BY <1>9, <2>4, <2>5, <3>3 DEF ShownWhole
    <3>. QED
        BY <1>1, <1>9, <2>3, <3>2, <3>3, <3>4, EmptyChannel DEF SongsOf
  <2>6. CASE m.kind = "failed"
    <3>1. OnFailed /\ channel' = Unsubscribed
        BY <1>6, <2>6 DEF Deliver, m
    <3>. QED
        BY <1>1, <1>9, <2>3, <3>1, OnFailedFields, SameShown, EmptyChannel
        DEF SongsOf
  <2>7. CASE m.kind = "progress"
    <3>1. m.completed \in Nat
        BY <2>4, <2>7 DEF Messages, Failed
    <3>2. view' = OnProgress(m.completed)
          /\ channel' = [channel EXCEPT !.inbox = Tail(@)]
        BY <1>6, <2>7 DEF Deliver, m
    <3>3. channel' \in Channels(ckpt.songs)
        BY <1>1, <2>2, <3>2 DEF Channels
    <3>. QED
        BY <1>1, <1>9, <2>3, <3>1, <3>2, <3>3, OnProgressFields, SameShown
        DEF SongsOf
  <2>. QED
      BY <2>4, <2>5, <2>6, <2>7 DEF Messages, Failed
<1>. QED
    BY <1>3, <1>4, <1>5, <1>6

\* GET answers, or a feedback does.
LEMMA AnswersTaken ==
    ASSUME WholeInv, NEW s, Good(s), SongsOf(s), NEW plan \in Proposals,
           ckpt'.songs = ckpt.songs,
           view' \in {view, SetFromState(s.status, s.iteration, s.proposal, plan)}
    PROVE  /\ view' \in Views /\ ShownWhole'
           /\ \/ view' = view
              \/ view'.status = s.status /\ view'.proposal = s.proposal
<1>1. CASE view' = view
    BY <1>1 DEF WholeInv, ShownWhole
<1>2. CASE view' = SetFromState(s.status, s.iteration, s.proposal, plan)
    BY <1>2, TakesGoodState DEF WholeInv
<1>. QED
    BY <1>1, <1>2

\* A step of the browser and the endpoint leaves the workflow alone.
LEMMA PageKeepsWorkflow ==
    ASSUME WorkflowInv, UNCHANGED workflow, NEW n, channel' \in Channels(n)
    PROVE  WorkflowInv'
<1>1. channel' \in [subscribed : BOOLEAN, inbox : Seq(Messages)]
  <2>1. Seq(WholeMessages(n)) \subseteq Seq(Messages)
      BY DEF WholeMessages
  <2>. QED
      BY <2>1 DEF Channels
<1>2. UNCHANGED <<ckpt, runs, api, http, audit, refines>>
    BY DEF workflow
<1>. QED
    BY <1>1, <1>2, SameRuns, WorkflowInvAssembled DEF WorkflowInv, TypeOK

\* A step is one of the workflow or one of the page.
LEMMA StreamStepKinds ==
    ASSUME [StreamNext]_streamVars
    PROVE  \/ [Next]_vars /\ UNCHANGED ui
           \/ PageStep /\ UNCHANGED workflow
           \/ \E f \in Feedbacks : Answered(f) /\ Next
<1>1. CASE WorkflowStep /\ UNCHANGED ui
    BY <1>1 DEF WorkflowStep, Next, ApiNext
<1>2. CASE PageStep
    BY <1>2 DEF PageStep, OpenStream, SnapshotReady, SnapshotFailed, Subscribe,
                Deliver, Drop, GetRead, GetArrives, workflow
<1>3. ASSUME NEW f \in Feedbacks, Submit(f)
      PROVE  Next /\ UNCHANGED ui
    BY <1>3 DEF Submit, Next, ApiNext
<1>4. ASSUME NEW f \in Feedbacks, Answered(f)
      PROVE  Next
    BY <1>4 DEF Answered, Next, ApiNext
<1>5. CASE UNCHANGED streamVars
    BY <1>5 DEF streamVars, vars, ui
<1>. QED
    BY <1>1, <1>2, <1>3, <1>4, <1>5 DEF StreamNext

\* The other steps of the page keep what it shows.
LEMMA PageWhole ==
    ASSUME WorkflowInv, WholeInv, PageStep, UNCHANGED workflow
    PROVE  WholeInv'
<1>1. /\ Good(ckpt) /\ Good(EmptyState)
      /\ SongsOf(ckpt) /\ EmptyState.next = "absent"
    BY EmptyStateGood DEF WorkflowInv, SongsOf, EmptyState
<1>2. ReportsDecided' /\ SelectionInv' /\ UNCHANGED ckpt
    BY DEF WholeInv, ReportsDecided, SelectionInv, SongsOf, workflow
<1>3. CASE SnapshotReady \/ SnapshotFailed \/ Subscribe \/ Deliver
    BY <1>2, <1>3, StreamWhole DEF WholeInv, SongsOf
<1>4. CASE OpenStream \/ Drop \/ GetRead
  <2>1. channel' \in {channel, Unsubscribed} /\ view' = view
        /\ snap' \in {snap, ckpt} /\ got' \in {got, ckpt}
      BY <1>4 DEF OpenStream, Drop, GetRead
  <2>2. channel' \in Channels(ckpt'.songs) /\ view' \in Views /\ ShownWhole'
      BY <1>2, <2>1, EmptyChannel DEF WholeInv, ShownWhole
  <2>3. Good(snap)' /\ Good(got)' /\ SongsOf(snap)' /\ SongsOf(got)'
      BY <1>1, <1>2, <2>1 DEF WholeInv, SongsOf
  <2>. QED
      BY <1>2, <2>2, <2>3 DEF WholeInv
<1>5. CASE GetArrives
  <2>1. /\ view' \in {view, SetFromState(got.status, got.iteration,
                                         got.proposal, got.plan)}
        /\ got' = EmptyState /\ channel' = channel /\ snap' = snap
      BY <1>5 DEF GetArrives
  <2>2. Good(got) /\ got.plan \in Proposals
      BY DEF WholeInv, Good, ClassifyState
  <2>. QED
      BY <1>1, <1>2, <2>1, <2>2, AnswersTaken DEF WholeInv, SongsOf
<1>. QED
    BY <1>3, <1>4, <1>5 DEF PageStep

\* What the answer of a feedback brings to the store.
LEMMA AnsweredStore ==
    ASSUME NEW f \in Feedbacks, Answered(f)
    PROVE  LET s == runs[f].st
           IN  /\ view' = SetFromState(s.status, s.iteration, s.proposal,
                                       NoProposal)
               /\ got' \in {got, EmptyState} /\ snap' = snap
               /\ UNCHANGED <<ckpt, runs, api, channel, audit, refines>>
BY DEF Answered, FeedbackAnswered

LEMMA WholeInvStep ==
    ASSUME WorkflowInv, WholeInv, [StreamNext]_streamVars
    PROVE  WorkflowInv' /\ WholeInv'
<1>1. CASE [Next]_vars /\ UNCHANGED ui
  <2>1. WorkflowInv' /\ channel' \in Channels(ckpt'.songs) /\ ReportsDecided'
      BY <1>1, WorkflowInvStep, WorkflowKeepsChannel DEF WholeInv
  <2>2. view' = view /\ snap' = snap /\ got' = got
      BY <1>1 DEF ui
  <2>3. SelectionInv' /\ (ckpt'.songs = ckpt.songs \/ ckpt.songs = 0)
      BY <1>1, SelectionStep DEF WholeInv
  <2>4. SongsOf(snap)' /\ SongsOf(got)'
      BY <2>2, <2>3 DEF WholeInv, SongsOf, Good, GoodBatches
  <2>5. ShownWhole'
      BY <2>2, <2>3 DEF WholeInv, ShownWhole, Whole
  <2>. QED
      BY <2>1, <2>2, <2>3, <2>4, <2>5 DEF WholeInv
<1>2. CASE PageStep /\ UNCHANGED workflow
    BY <1>2, PageWhole, PageKeepsWorkflow DEF WholeInv
<1>3. ASSUME NEW f \in Feedbacks, Answered(f), Next
      PROVE  WorkflowInv' /\ WholeInv'
  <2>. DEFINE s == runs[f].st
  <2>1. /\ WorkflowInv' /\ channel' \in Channels(ckpt'.songs)
        /\ ReportsDecided' /\ SelectionInv' /\ UNCHANGED ckpt
      BY <1>3, WorkflowInvStep, WorkflowKeepsChannel, SelectionStep,
         AnsweredStore DEF WholeInv
  <2>2. Good(s) /\ Good(EmptyState) /\ NoProposal \in Proposals
      BY EmptyStateGood DEF WorkflowInv, Runs, Good, EmptyState, ClassifyState
  <2>5. SongsOf(s) /\ EmptyState.next = "absent"
      BY DEF WholeInv, SelectionInv, Runs, EmptyState
  <2>3. view' = SetFromState(s.status, s.iteration, s.proposal, NoProposal)
        /\ got' \in {got, EmptyState} /\ snap' = snap
      BY <1>3, AnsweredStore
  <2>. HIDE DEF s
  <2>4. view' \in Views /\ ShownWhole'
      BY <2>1, <2>2, <2>3, <2>5, AnswersTaken
  <2>. QED
      BY <2>1, <2>2, <2>3, <2>4, <2>5 DEF WholeInv, SongsOf
<1>. QED
    BY <1>1, <1>2, <1>3, StreamStepKinds

LEMMA WholeInvInit == StreamInit => WorkflowInv /\ WholeInv
<1>. SUFFICES ASSUME StreamInit PROVE WorkflowInv /\ WholeInv
    OBVIOUS
<1>1. WorkflowInv
    BY WorkflowInvInit DEF StreamInit
<1>2. channel \in Channels(ckpt.songs) /\ SelectionInv
    BY SelectionInit, EmptyChannel DEF StreamInit, Init, Unsubscribed
<1>3. ReportsDecided
    BY DEF StreamInit, Init, ReportsDecided, Runs
<1>4. NoProposal \in Proposals
    BY EmptyStateGood DEF Good, EmptyState, ClassifyState
<1>5. view \in Views /\ view.status = ""
    BY <1>4 DEF StreamInit, Views, NoProgress, Statuses
<1>. QED
    BY <1>1, <1>2, <1>3, <1>5, EmptyStateGood
    DEF WholeInv, StreamInit, ShownWhole, SongsOf, EmptyState

LEMMA WholeInvariant == StreamSpec => [](WorkflowInv /\ WholeInv)
BY WholeInvInit, WholeInvStep, PTL DEF StreamSpec

\* Whichever of GET, SSE and the feedback answer wrote the store last, and
\* whether or not runs overlap, the page asks about proposals made from every
\* batch of the selection and shows the round of the proposal it shows
\* (stores/classify.ts, setFromState).
THEOREM AlwaysShownWhole == StreamSpec => []ShownProposalWhole
<1>1. WholeInv => ShownProposalWhole
    BY DEF WholeInv, ShownWhole, Whole, ShownProposalWhole
<1>. QED
    BY <1>1, WholeInvariant, PTL

-----------------------------------------------------------------------------
(* What confirm builds.  The plan is in the checkpoint only, what is shown  *)
(* may come from an old copy: every copy that has ended has the same plan.  *)

Ended == \A s \in States \cup {got} : s.next = "END" => s.plan = ckpt.plan

ShownFinal ==
    view.status = "finalized" =>
        view.proposal # NoProposal /\ view.proposal = ckpt.plan

\* The inductive invariant of confirm, on top of WorkflowInv and WholeInv.
FinalInv == SerialInv /\ Ended /\ ShownFinal

\* A copy that has ended agrees with the checkpoint after the step, too.
LEMMA EndedKept ==
    ASSUME WorkflowInv, ThreadStep(ckpt, ckpt'),
           NEW s, Good(s), s.next = "END", s.plan = ckpt.plan
    PROVE  s.plan = ckpt'.plan /\ ckpt.plan # NoProposal
<1>1. s.plan = s.proposal /\ s.proposal # NoProposal
    BY DecidedHasProposal DEF Good, GoodPlan, Decided
<1>2. ckpt.plan # NoProposal
    BY <1>1
<1>. QED
    BY <1>2, PlanKept DEF WorkflowInv

LEMMA EndedStep ==
    ASSUME WorkflowInv, WholeInv, Ended, ThreadStep(ckpt, ckpt'),
           \A q \in Runs : Copied(q),
           got' = got \/ got' = ckpt \/ got'.next # "END"
    PROVE  Ended'
<1>1. \A q \in Runs : Good(runs[q].st) /\ runs[q].st \in States
    BY DEF WorkflowInv, States
<1>2. ASSUME NEW q \in Runs, runs'[q].st.next = "END"
      PROVE  runs'[q].st.plan = ckpt'.plan
  <2>1. CASE runs'[q].st = runs[q].st
      BY <1>1, <1>2, <2>1, EndedKept DEF Ended
  <2>2. CASE runs'[q].st = ckpt'
      BY <2>2
  <2>. QED
      BY <1>2, <2>1, <2>2 DEF Copied
<1>3. ASSUME got'.next = "END"
      PROVE  got'.plan = ckpt'.plan
  <2>1. CASE got' = got
      BY <1>3, <2>1, EndedKept DEF Ended, WholeInv
  <2>2. CASE got' = ckpt
      BY <1>3, <2>2, EndedKept DEF WorkflowInv
  <2>. QED
      BY <1>3, <2>1, <2>2
<1>. QED
    BY <1>2, <1>3 DEF Ended, States

\* What the store shows as final stays the plan of the checkpoint.
LEMMA ShownFinalKept ==
    ASSUME WorkflowInv, ShownFinal, ThreadStep(ckpt, ckpt'),
           \/ view'.status = "awaiting_feedback"
           \/ view'.status = view.status /\ view'.proposal = view.proposal
    PROVE  ShownFinal'
<1>1. SUFFICES ASSUME view'.status = "finalized"
               PROVE  view'.proposal # NoProposal /\ view'.proposal = ckpt'.plan
    BY DEF ShownFinal
<1>2. view.status = "finalized" /\ view'.proposal = view.proposal
    BY <1>1
<1>3. view.proposal # NoProposal /\ view.proposal = ckpt.plan
    BY <1>2 DEF ShownFinal
<1>. QED
    BY <1>2, <1>3, PlanKept DEF WorkflowInv

\* A final state that reaches the store is that of the checkpoint.
LEMMA ShownFinalTaken ==
    ASSUME Ended, NEW s \in States \cup {got}, Good(s), UNCHANGED ckpt,
           view'.status = s.status, view'.proposal = s.proposal
    PROVE  ShownFinal'
<1>1. SUFFICES ASSUME s.status = "finalized"
               PROVE  s.proposal # NoProposal /\ s.proposal = ckpt.plan
    BY DEF ShownFinal
<1>2. s.next = "END" /\ s.plan = s.proposal
    BY <1>1 DEF Good, GoodPlan
<1>. QED
    BY <1>2, DecidedHasProposal DEF Ended, Decided

LEMMA FinalInvStep ==
    ASSUME Overlap = FALSE, WorkflowInv, WholeInv, FinalInv,
           [StreamNext]_streamVars
    PROVE  FinalInv'
<1>1. CASE [Next]_vars /\ UNCHANGED ui
  <2>1. SerialInv' /\ ThreadStep(ckpt, ckpt')
      BY <1>1, SerialStep DEF FinalInv
  <2>2. \A q \in Runs : Copied(q)
      BY <1>1, CopiesStep DEF vars, Copied
  <2>3. view' = view /\ got' = got
      BY <1>1 DEF ui
  <2>. QED
      BY <2>1, <2>2, <2>3, EndedStep, ShownFinalKept DEF FinalInv
<1>2. CASE PageStep /\ UNCHANGED workflow
  <2>1. /\ UNCHANGED <<ckpt, runs, api, audit, refines>>
        /\ ThreadStep(ckpt, ckpt') /\ \A q \in Runs : Copied(q)
      BY <1>2 DEF workflow, ThreadStep, Copied
  <2>2. SerialInv'
      BY <2>1, SameSerial DEF FinalInv
  <2>3. EmptyState.next # "END"
      BY DEF EmptyState
  <2>4. got' = got \/ got' = ckpt \/ got'.next # "END"
    <3>1. CASE SnapshotReady \/ SnapshotFailed \/ Subscribe \/ Deliver
        BY <3>1, StreamWhole
    <3>2. CASE OpenStream \/ Drop \/ GetRead \/ GetArrives
        BY <2>3, <3>2 DEF OpenStream, Drop, GetRead, GetArrives
    <3>. QED
        BY <1>2, <3>1, <3>2 DEF PageStep
  <2>5. ShownFinal'
    <3>1. CASE SnapshotReady \/ SnapshotFailed \/ Subscribe \/ Deliver
        BY <2>1, <3>1, StreamWhole, ShownFinalKept DEF FinalInv
    <3>2. CASE OpenStream \/ Drop \/ GetRead
        BY <2>1, <3>2, ShownFinalKept DEF FinalInv, OpenStream, Drop, GetRead
    <3>3. CASE GetArrives
      <4>1. view' \in {view, SetFromState(got.status, got.iteration,
                                          got.proposal, got.plan)}
          BY <3>3 DEF GetArrives
      <4>2. Good(got) /\ got.plan \in Proposals
          BY DEF WholeInv, Good, ClassifyState
      <4>3. \/ view' = view
            \/ view'.status = got.status /\ view'.proposal = got.proposal
          BY <2>1, <4>1, <4>2, AnswersTaken DEF WholeInv
      <4>. QED
          BY <2>1, <4>2, <4>3, ShownFinalKept, ShownFinalTaken DEF FinalInv
    <3>. QED
        BY <1>2, <3>1, <3>2, <3>3 DEF PageStep
  <2>. QED
      BY <2>1, <2>2, <2>4, <2>5, EndedStep DEF FinalInv
<1>3. ASSUME NEW f \in Feedbacks, Answered(f), Next
      PROVE  FinalInv'
  <2>. DEFINE s == runs[f].st
  <2>1. SerialInv' /\ ThreadStep(ckpt, ckpt') /\ \A q \in Runs : Copied(q)
      BY <1>3, SerialStep, CopiesStep DEF FinalInv
  <2>2. /\ view' = SetFromState(s.status, s.iteration, s.proposal, NoProposal)
        /\ got' \in {got, EmptyState} /\ UNCHANGED ckpt
      BY <1>3, AnsweredStore
  <2>3. Good(s) /\ SongsOf(s) /\ s \in States /\ NoProposal \in Proposals
      BY EmptyStateGood
      DEF WorkflowInv, WholeInv, SelectionInv, Runs, States, Good, EmptyState,
          ClassifyState
  <2>4. EmptyState.next # "END"
      BY DEF EmptyState
  <2>. HIDE DEF s
  <2>5. view'.status = s.status /\ view'.proposal = s.proposal
      BY <2>2, <2>3, TakesGoodState DEF WholeInv
  <2>6. ShownFinal'
      BY <2>2, <2>3, <2>5, ShownFinalTaken DEF FinalInv
  <2>. QED
      BY <2>1, <2>2, <2>4, <2>6, EndedStep DEF FinalInv
<1>. QED
    BY <1>1, <1>2, <1>3, StreamStepKinds

LEMMA FinalInvInit == StreamInit => FinalInv
<1>. SUFFICES ASSUME StreamInit PROVE FinalInv
    OBVIOUS
<1>1. SerialInv
    BY SerialInvInit DEF StreamInit
<1>2. \A s \in States \cup {got} : s = EmptyState
    BY DEF StreamInit, Init, States
<1>3. EmptyState.next # "END"
    BY DEF EmptyState
<1>4. Ended
    BY <1>2, <1>3 DEF Ended
<1>5. ShownFinal
    BY DEF StreamInit, ShownFinal
<1>. QED
    BY <1>1, <1>4, <1>5 DEF FinalInv

\* The plan confirm will build is the proposal on the page when the button is
\* enabled, although page and plan come by different ways (api/classify.py,
\* confirm; ClassifyWorkbench.tsx).
THEOREM ConfirmsTheShown ==
    ASSUME Overlap = FALSE
    PROVE  StreamSpec => []ConfirmBuildsWhatIsShown
<1>1. WorkflowInv /\ WholeInv /\ FinalInv /\ [StreamNext]_streamVars => FinalInv'
    BY FinalInvStep
<1>2. FinalInv => ConfirmBuildsWhatIsShown
    BY DEF FinalInv, ShownFinal, ConfirmBuildsWhatIsShown
<1>. QED
    BY <1>1, <1>2, FinalInvInit, WholeInvariant, PTL DEF StreamSpec

=============================================================================
