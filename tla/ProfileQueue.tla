----------------------------- MODULE ProfileQueue -----------------------------
(***************************************************************************)
(* From a loaded profile to classifications: the clusters that the user    *)
(* opens as song lists (frontend/src/pages/Profile.tsx), the queue that    *)
(* starts them one after the other and outlives the page                   *)
(* (frontend/src/stores/profileQueue.ts), and the endpoint that counts the *)
(* starts of a day and keeps them an interval apart                        *)
(* (backend/app/ratelimit/deps.py, backend/app/api/classify.py).           *)
(***************************************************************************)
EXTENDS Naturals, Sequences

CONSTANTS
    Clusters,       \* names of the profile's clusters
    EmptyClusters,  \* those without songs
    MaxQueue,       \* bound on the clusters put into the queue
    MaxDaily        \* rate_limit_user_daily

ASSUME QueueAssumption ==
    EmptyClusters \subseteq Clusters /\ MaxQueue \in Nat /\ MaxDaily \in Nat

VARIABLES
    here,       \* is the profile page shown?
    queue,      \* of profileQueue
    calls,      \* entries whose start is on its way, by their place
    daily,      \* rl:user:{uid}:{date}
    hot,        \* is rl:classify:{uid} there?
    started     \* entries whose start was let through (history)

vars == <<here, queue, calls, daily, hot, started>>

QueueTypeOK ==
    /\ here \in BOOLEAN
    /\ queue \in Seq([cluster : Clusters \ EmptyClusters,
                      status : {"pending", "running", "done", "failed"}])
    /\ Len(queue) <= MaxQueue
    /\ calls \in Seq(DOMAIN queue)
    /\ daily \in 0..MaxDaily + 1 /\ hot \in BOOLEAN
    /\ started \subseteq DOMAIN queue

QueueInit ==
    /\ here = TRUE
    /\ queue = <<>> /\ calls = <<>>
    /\ daily = 0 /\ hot = FALSE /\ started = {}

-----------------------------------------------------------------------------
(* The queue.  Entries stay where they were put, but are found again by the  *)
(* name of their cluster: every entry of the name takes the status, also one *)
(* that was put in meanwhile, with the songs of another profile.             *)

Marked(q, name, status) ==
    [i \in DOMAIN q |-> IF q[i].cluster = name THEN [q[i] EXCEPT !.status = status] ELSE q[i]]

Pending(q) == {i \in DOMAIN q : q[i].status = "pending"}

\* The first pending entry of q is started, if there is one; others are the calls that
\* are on their way meanwhile.
ProcessNext(q, others) ==
    \/ Pending(q) = {} /\ queue' = q /\ calls' = others
    \/ \E i \in Pending(q) :
        /\ \A j \in Pending(q) : i <= j
        /\ queue' = Marked(q, q[i].cluster, "running")
        /\ calls' = Append(others, i)

\* Fault: a running entry does not hold the next one back.
EnqueueAtOnce(c) ==
    ProcessNext(Append(queue, [cluster |-> c, status |-> "pending"]), calls)

Enqueue(c) ==
    LET q == Append(queue, [cluster |-> c, status |-> "pending"])
        hasRunning == \E i \in DOMAIN q : q[i].status = "running" IN
    IF hasRunning THEN queue' = q /\ UNCHANGED calls ELSE ProcessNext(q, calls)

\* The clusters are buttons of the page, which is left for the song list.
HandleOpenAsPlaylist(c) ==
    /\ here /\ here' = FALSE
    /\ c \notin EmptyClusters
    /\ Len(queue) < MaxQueue
    /\ Enqueue(c)
    /\ UNCHANGED <<daily, hot, started>>

-----------------------------------------------------------------------------
(* The endpoint: the day is counted, then the interval is tested.           *)

Counted == IF daily > MaxDaily THEN daily ELSE daily + 1

\* A start is let through; the counter stops at its bound.
Passes == daily < MaxDaily /\ ~hot

Limited == /\ daily' = Counted
           /\ hot' = (hot \/ Passes)

\* The queue when the start on its way has ended.
Ended(status) == Marked(queue, queue[Head(calls)].cluster, status)

\* Fault: a refused start ends the queue.
AnsweredStops ==
    /\ calls # <<>>
    /\ Limited
    /\ queue' = Ended(IF Passes THEN "done" ELSE "failed")
    /\ calls' = Tail(calls)
    /\ started' = IF Passes THEN started \cup {Head(calls)} ELSE started
    /\ UNCHANGED here

\* The answer, accepted or 429, and with it the next entry at once.
StartAnswered ==
    /\ calls # <<>>
    /\ Limited
    /\ started' = IF Passes THEN started \cup {Head(calls)} ELSE started
    /\ ProcessNext(Ended(IF Passes THEN "done" ELSE "failed"), Tail(calls))
    /\ UNCHANGED here

\* Fault: an error is taken for an answer.
LostAsDone ==
    /\ calls # <<>>
    /\ ProcessNext(Ended("done"), Tail(calls))
    /\ UNCHANGED <<here, daily, hot, started>>

\* The request is lost, or its answer is: it may have been counted, and accepted.
Lost ==
    /\ calls # <<>>
    /\ \/ UNCHANGED <<daily, hot, started>>
       \/ Limited /\ started' = IF Passes THEN started \cup {Head(calls)} ELSE started
    /\ ProcessNext(Ended("failed"), Tail(calls))
    /\ UNCHANGED here

\* Starts of the song list page, which the queue does not know of.
StartElsewhere == Limited /\ UNCHANGED <<queue, calls, started, here>>

IntervalExpires ==
    hot /\ hot' = FALSE /\ UNCHANGED <<queue, calls, daily, started, here>>

NewDay ==
    daily > 0 /\ daily' = 0 /\ UNCHANGED <<queue, calls, hot, started, here>>

-----------------------------------------------------------------------------
\* With a profile that was generated again.
ComeBack == ~here /\ here' = TRUE /\ UNCHANGED <<queue, calls, daily, hot, started>>

Start == StartAnswered \/ Lost

Next ==
    \/ ComeBack
    \/ \E c \in Clusters : HandleOpenAsPlaylist(c)
    \/ Start \/ StartElsewhere \/ IntervalExpires \/ NewDay

\* A request is answered or lost.
Spec == QueueInit /\ [][Next]_vars /\ WF_vars(Start)

-----------------------------------------------------------------------------
(* Properties.                                                              *)

\* The queue has one start on its way at most, for a cluster it shows as running, and
\* none waits while none runs: whatever is put in, twice or while one runs.
OneStart ==
    /\ Len(calls) <= 1
    /\ \A i \in DOMAIN queue :
        /\ queue[i].status = "running" => 
              \E j \in DOMAIN calls : queue[calls[j]].cluster = queue[i].cluster
        /\ queue[i].status = "pending" => calls # <<>>

\* Of every name that the queue calls done, an entry was started, although a start may
\* be refused or lost before or after another one of the name, and takes its status
\* along: an entry that is the only one of its name was started itself.
DoneWasStarted ==
    \A i \in DOMAIN queue :
        queue[i].status = "done" =>
            \E j \in started : queue[j].cluster = queue[i].cluster

Waiting(i) == i \in DOMAIN queue /\ queue[i].status \in {"pending", "running"}

\* Every entry comes to its end: refused and lost starts do not stop the queue.
QueueSettles == \A i \in 1..MaxQueue : Waiting(i) ~> ~Waiting(i)

=============================================================================
