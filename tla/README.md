# TuneSet: verification project

TLA+ models of [TuneSet](../src/README.md), model-checked with TLC, with
theorems checked by TLAPS. TuneSet classifies the songs a user likes on QQ
Music with an AI, in several rounds of feedback, and builds song lists from the
result. The repository is a FastAPI backend, Celery workers and beat, Redis
(broker, pub/sub, checkpoints, rate-limit counters), SQLite, and a React
frontend behind nginx. Paths below are relative to `src/`.

## 1. The system

### 1.1 Components, their state and their operations

| Component | State | Operations | Module |
|---|---|---|---|
| Classification workflow (`backend/app/workflow`, `tasks/classify_task.py`, `api/classify.py` start/feedback) | one LangGraph checkpoint per thread in Redis; the local state of every Celery run; audit rows | start, split, batch_propose (3 attempts), merge, await_feedback (interrupt), refine, finalize, failure handler, resume | ClassifyWorkflow |
| Progress stream (`api/classify.py` stream, `hooks/queries.ts`, `nginx.conf`) | the EventSource, the endpoint's snapshot, the pub/sub subscription, the zustand store | open, snapshot, subscribe, deliver, reconnect, GET, submit feedback | ClassifyStream |
| Workbench (`ClassifyWorkbench.tsx`, `stores/classify.ts`, `api/classify.py` confirm/cancel) | one store for all threads, the query cache, song lists on QQ Music | drag, submit, confirm category by category, cancel, leave by a button or otherwise | Workbench |
| QQ binding (`api/qq.py`, `qqmusic/credential_store.py`) | the encrypted credential and masked euin in SQLite, the QR session in Redis | get QR, poll, save, refresh, clear | QqBinding |
| QR login page (`QrLogin.tsx`) | `qrKey`, status and image, one timer per run of the effect | ask for a code, poll, retry, jump, leave | QrLogin |
| Favourites push and song list page (`api/stream.py`, `tasks/fav_cache.py`, `SonglistInput.tsx`) | `fav:cred` and `fav:cache` with their lives, a pub/sub channel, the page and its EventSource | subscribe, stream, periodic refresh, start a classification | Favourites |
| Listening profile (`tasks/profile_task.py`, `api/profile.py`, `useProfileStream.ts`, `Profile.tsx`) | `profile:result:*`, pub/sub events, the hook, the page | generate, stream, fetch result, refresh, retry | ProfileGeneration, ProfilePage |
| Sharing of profiles (`api/profile.py`, `Profile.tsx`, `ProfileShared.tsx`) | `profile:share:*`, `profile:share_tokens:*`, the dialog, the public page | open, list, create, copy, revoke, expire, visit | ProfileSharing |
| Profile-to-classification queue and limits of a start (`stores/profileQueue.ts`, `ratelimit/deps.py`) | a queue of style clusters; the daily counter and the interval key | enqueue, process, answer, refuse | ProfileQueue |
| Session in the browser (`api.ts`, `Login.tsx`, `AuthProvider.tsx`) | tokens in localStorage, the single-flight refresh of every tab | login, open, intercept 401, refresh, retry, leave | BrowserSession |
| Accounts (`api/auth.py`, `auth/*`, `db/base.py`) | users, invite codes, superadmin | register, promote | not modelled (login and refresh: BrowserSession) |
| AI provider and proxy settings (`ai/*`, `api/settings.py`) | the encrypted proxy row | build client per call, test, save | not modelled |
| Limit per address (`ratelimit/middleware.py`), logging, configuration, schemas, charts, layout | one counter; none | count; pure I/O | not modelled |

### 1.2 How they interact

The browser talks HTTP to the API and reads two kinds of SSE streams. The API
enqueues Celery tasks; tasks write checkpoints and results to Redis and publish
events on Redis channels, which keep nothing for later subscribers. The feedback
endpoint blocks on the result of its task (120 s). Confirm and the favourites
push call QQ Music with the stored credential, which they refresh first.

### 1.3 What is hard here

* **Concurrent runs of one thread.** Each task loads the latest checkpoint and
  writes whole checkpoints from its copy; two runs overwrite each other.
* **Death between two checkpoints.** Celery acknowledges early; a run over
  `task_time_limit=600` is killed without its `except` branch.
* **Publish against checkpoint against subscribe.** Three systems, no order
  between them: events may precede the state they announce or precede the
  subscriber.
* **Read, await, write.** Credential refresh, invite codes, rate limits and the
  browser's token refresh all read, wait, and write what may have changed.
* **Answers that outlive their page.** Timers, EventSources and awaits of React
  components go on after the component is gone, or has been given another thread.
* **Expiry.** Keys in Redis expire under the streams and links that rely on them.

`PROJECT.json` lists every hazard at its line, with the properties about it.

## 2. Modules

### 2.1 ClassifyWorkflow

State: `ckpt`, the latest checkpoint (`ClassifyState` with the node LangGraph
will run next); `runs`, one record per Celery run (label, local copy, attempt of
`batch_propose`, and whether its `Command(resume=...)` is still to be taken);
`api`, `http` for the two endpoints; `channel`, the Redis channel as its one SSE
subscriber sees it; `audit`; `refines` (history), the runs that asked the AI to
reclassify, in order.

One action per step of the code: `Start`/`StartAudit` (the task is enqueued
before the audit row), `Feedback`/`FeedbackAnswered`/`FeedbackFails`,
`BeginClassify`/`BeginResume` (what `graph.invoke` loads), one action per node,
`BatchRetry` and `NodeFails` for AI errors, `Checkpoint` apart from
`BatchPropose` and `Merge` because these two publish first and are checkpointed
later, `AskRefine` apart from `Refine` because the AI is paid before its answer is
parsed and the round checkpointed, `ReportAudit`/`Announce` and `HandleFailure`/`AnnounceFailure` for what
`classify_task` does after `invoke`, and `Kill`.

Abstraction: songs are a number; a proposal is `[covers, applied]`, the batches
the AI saw and the feedbacks applied since; a plan is the proposal it regroups.
LangGraph and Celery are external, modelled by what the code relies on: a run
loads the latest checkpoint, commits one checkpoint per node, a resume value is
taken by the first interrupt of the first superstep or dropped, `update_state`
keeps the pending node. Not modelled: a Redis outage (nothing works without it),
and an AI answer that is valid JSON but no list of items.

`Overlap` says whether a feedback may be posted while a run is active. The code
allows it (two tabs, the 120 s timeout, the workbench shown while the first run
works); `Overlap = FALSE` states what a patient single tab gets.

`ClassifyPromise` is what a user who polls `GET /{thread_id}` may rely on;
`KeepsPromise` is the refinement, checked with `Overlap = FALSE`. The promise lets a
thread end in any round, because the documents let the user confirm; the program
ends it in the last one only (section 7).

### 2.2 ClassifyStream

Extends the workflow with one tab: `es`, `snap` (the endpoint reads the
checkpoint, later subscribes), `get`/`got` (the query in flight) and `view` (the
store). `IdleTimeout` is nginx's `proxy_read_timeout 300s`, which closes a
silent stream; the EventSource then reconnects and reads a new snapshot.

`setFromState` is one operator because the three writers (GET, `classify_ready`,
feedback answer) share it; what differs is what they leave out: only GET has a
plan, and only `OnReady` closes the stream. `Submit` is `Feedback` of the
workflow under the conditions of the button (`ClassifyWorkbench.tsx`).
This module has one thread and every event of its stream; what the rest of the
page does to the store, thread after thread, is the Workbench module.

### 2.3 QqBinding

State: `row` (`qq_credential_enc`, `qq_euin_masked` of one user), `qr` (is the
session's key in Redis, who confirmed it on the phone), `req` (label, the copy
of the row that `get_current_user` loaded into the request's SQLAlchemy session,
the credential at hand), `keys` and `expired` (what QQ Music issued and which
musickeys have run out). A credential is `[account, key, named]`: `named` says
whether it has the `encrypt_uin` that `save_credential` makes the mask from; without
it the mask is NULL (`Columns`). The masks of different accounts are taken to differ.

Every place where the code awaits QQ Music is a boundary between two actions:
`CheckQrcode` / `CheckNotDone` or `CheckAnswered` / `CheckSaves` for the login
poll, `GetValidCredential` / `Refreshed` or `RefreshFails` / `RefreshSaves` /
`Act` for everything that needs a credential, `Unbind` / `ClearCredential`.
`Flush` is what a commit of the session writes: only the columns that differ
from the copy loaded, because a second `select` in the session does not refresh
the object. Any two requests may overlap.

Three variables are history. `binding` is the account of the login or unbind saved
last; `overtaken` are the requests that loaded the row before that; `spoilt` says
that the row is not what that login or unbind meant it to be, for one of two reasons:
its commit left a column alone that another request had written since it was loaded
(`Overlooks`), or an overtaken refresh has been saved over it. The next login or
unbind ends that. `RowIsBinding` and `ActsOnBinding` are claimed while it is false.

### 2.4 BrowserSession

State: `storage` (localStorage, shared by the tabs), `tab` (the page, and the
refresh token that the refresh call in flight has sent), `req` (label, access
token sent, kind), and the lives of the tokens: `issued`, `expired`,
`refreshOver`, `qqOver`. `Refused`, `RefusedLoggedOut`, `RefusedAgain`,
`Refreshed` (with `Woken`), `RefreshRefused` and `RefreshFails` are the branches
of the response interceptor and of `doRefresh`; `Leave` is `location.assign`
with what it takes along. A 401 has three causes (`Unauthorized`): an access
token that has expired, a QQ login that has ended, and a wrong password on the
login page (`LoginWrong`), which the interceptor takes for the first.
`RefreshTokens` has `"undefined"` because `setToken` stores a `refresh_token`
that the answer of `/auth/refresh` does not have.

### 2.5 ProfileGeneration and ProfilePage

ProfileGeneration is the task and the hook for one thread: `task` (label,
progress events published, outcome), `result` (the Redis key), `inbox` (events
sent to a connected subscriber; nobody else gets them), `es`, `retries`, `fetch`
and `view` of `useProfileStream`. The task's ends are told apart by the order of
publish and store: `StoreComplete` then `Finish` for a complete profile,
`AnnounceOther` then `Finish` for the others. `Refused` is both what `GET
/result` answers with an error and what the hook takes for "not ready". The
result lives an hour, longer than all retries of the page take, so its expiry is
left out here (ProfileSharing has it).

ProfilePage extends it with `Profile.tsx` around the hook, one generation after
the other: the screens as state predicates in the order of the code, the three
buttons that call `handleGenerate`, the cached profile, the fetch of an earlier
thread that no cleanup takes back (`late`), and the ErrorBoundary (`"crashed"`)
that the result of an exception, which has no `radar`, brings up.

### 2.6 Workbench

One user walks through threads on one store. `server` is the checkpoint of a
thread as GET answers it. The runs of a thread are taken in few steps here:
`first` is its first run, which ends with a proposal (`Propose`) or not (`GiveUp`),
and a feedback makes a resume run (`TakeFeedback`, then `Refine`, which does what
the pending node and those after it make of the checkpoint, `Refined`). A run that
ends between the two leaves `"refining"`, and the next feedback executes the pending
node again. A feedback may come while the first run is at work; that run then goes on
with its own copy and overwrites what the resume run has written (`NextBatch`,
`Propose`), and the thread is `Raced`.

`store` is `useClassifyStore` field by field; `cache` is what TanStack Query keeps;
`calls` are the requests and streams on their way. What the server reads for one of
them (`Read`) is a step apart from the request and from the answer, and answers write
the store whatever page is mounted by then. The confirm loop is one action per
category (`CreateSonglist`), so that it can fail half-way (`ConfirmFails`); `built`
counts the lists on QQ Music. The screens of the page are predicates
(`ResultsScreen`, `FailedScreen`, `RunningScreen`, `Loading`, `Board`), and every
button is an action under the predicate that shows it.

`disorder` is history: it is `"now"` from where a workbench is left without `reset`
(brand mark, back button, link), or by a button that resets while requests are on
their way, or is used after "cancel" was pressed, to where one is left by a button
with nothing but its stream on the way. Late answers do write the store of the next
page in that time, so the properties about page and store are not claimed in it.
What they do claim is that nothing else mixes threads up. One disorder is a bound of
the model, and so is that the user neither drags nor submits while it lasts.

`Wide = FALSE` bounds what the user goes through, for TLC: runs race and confirmations
fail (`Only`) for a user of one thread, a second thread is started, and a workbench left
in disorder, where nothing of that has happened (`Smooth`), and disorder begins before
the first round. The theorems hold for `Wide = TRUE` as well.

### 2.7 QrLogin

Every value of `qrKey` runs the effect once (`run`): it asks for a code and polls
by a timer that does not wait for the last answer (`Tick`, slots `Polls`). A run
is stopped by the next or by leaving (`Cleanup`), its polls are not, and their
answers still write the page (`Show`, if the component is the same). The server
side has what the page can tell apart: a code is issued, used or gone; two polls
of one confirmed code are QqBinding's subject and one step here.

### 2.8 Favourites

Time is counted in push intervals: `Tick` is the beat, the expiry of the two keys
and the cut of a silent stream by nginx, whose `proxy_read_timeout` has the same
300 s as the interval. A collection is the number of its last change, and the
fetch page by page one read. `StreamReads`/`StreamListens` are the two halves of
the SSE endpoint. A subscription is the same on the server whether somebody waits for
it or not (`Serve`): the one that its page has left, or has given up for an error of
the network, is `orphan`, goes on to store credential and cache, and its answer opens
an EventSource that nobody owns (`OrphanEnds`; `leaks`, counted against `rash`). One
orphan at a time is a bound of the model.

### 2.9 ProfileSharing

`stored` are the results of all users by the position of their random key,
`share` and `userTokens` the two places of a token, `opening` the handlers
`openShare` on their way (a chain of two requests, which a second click starts
again), `dialog` the dialog, `visit` the public page with its two reads. `copied`,
`drawn`, `ended` and `rash` are history.

### 2.10 ProfileQueue

`queue` is the zustand store, `calls` the starts on their way, by the place of the
entry that sent them; `started` (history) are the places whose start was let through.
The code finds entries again by the name of their cluster (`Marked`), so that all
entries of a name take the status of one: an entry that was put in twice, or is the
cluster of the same name of a profile that was generated again, with other songs.
`Limited` is `enforce_classify_limits`: it spends the day first and tests the interval
then; a start of the song list page (`StartElsewhere`) spends the same. `clear` has no caller.

### 2.11 MC modules and proof modules

`MCWorkflow`, `MCBinding` and `MCWorkbench` define symmetry sets. `*Proofs`
extend the module they are named after; ClassifyProofs extends ClassifyStream, and
ProfileProofs both ProfilePage and ProfileQueue, whose names are distinct for its
sake (section 6).

## 3. Order of the work and what is left

The classification came first, with its stream, then the credential every call
needs, the session, the profile, then the pages (workbench, QR login, song list,
profile) and what is made of a profile (links, queue). What would come next:
invite codes and superadmin as database transactions, and the settings of the
proxy against running AI calls.

## 4. Runs

| Run | Specification | Bounds | What it shows |
|---|---|---|---|
| workflow_overlap | `Spec`, `Overlap = TRUE` | 3 songs in batches of 2, one round, 2 feedbacks | whatever overlaps, fails or is killed, no checkpoint and no run has skipped, repeated or lost a batch (`BatchesInOrder`, `ProposalCoversSelection`), a wrong round (`RoundsMatchProposal`) or a plan too early (`PlanIsFinalProposal`), and a feedback costs one AI reclassification at most (`OneCallPerFeedback`) |
| workflow_serial | `Spec`, `Overlap = FALSE` | 3 songs in batches of 2, 2 rounds, 4 feedbacks | one run at a time implements `ClassifyPromise` (`KeepsPromise`), applies no feedback twice (`FeedbackAppliedOnce`) and loses none (`ProposalExtends`), keeps its plan (`PlanStable`), and the audit log does not run ahead (`AuditedHasProposal`) |
| stream_page | `FairStreamSpec`, `Overlap = FALSE` | 2 batches, one round, 2 feedbacks | the page shows whole proposals with their round, confirm builds what is shown, and the page gets out of waiting (`StreamEnds`) |
| workbench_board | `Spec`, `Wide = FALSE` | 2 threads, 2 songs, 2 categories, one round, one failed confirmation (5.3 million states) | board, drags that are sent and results belong to the thread of the page (`StoreOfPage`, `ResultsAreBuilt`), confirm builds the board unless the runs raced (`ConfirmBuildsBoard`), a category gets one list, and one more per failed confirmation (`BuiltOnce`), a drag is forgotten only by a reset, a later move, or the answer of a feedback that had sent it or was on its way (`DragsKept`) |
| binding_overlap | `Spec` | 2 accounts, 3 requests, one QR session, 3 keys | credential and mask are those of the login or unbind saved last (`RowIsBinding`), and requests act on it (`ActsOnBinding`), until `spoilt` |
| qr_page | `FairSpec` | 2 runs of the effect, 2 polls | only the code on the screen is polled and one that waits is (`PolledIsShown`), only the last run moves the user on (`OnlyLastJumps`), a confirmed code comes to an end (`ConfirmedSettles`) |
| favourites_push | `Spec` | 5 versions, one of them empty, keys of 2 intervals, 2 leaks | the "in sync" badge shows a collection at most two refreshes old (`BadgeIsTrue`), over an open stream of this page (`BadgeHasStream`); streams outlive their page in one way only (`LeaksOnlyByLeaving`) |
| session_tabs | `FairSpec` | 2 tabs, 2 requests in one and 1 in the other, 3 tokens | no request is left behind or retried with the refused token, and each comes to an end |
| profile_page | `PageSpec` | 3 retries, as in the code; 4 generations | the profile shown is that of the last thread (`ShownIsLast`), a stream gives one verdict (`OneVerdict`), and the spinner ends (`PageSettles`) |
| profile_sharing | `Spec` | 2 tokens, 2 handlers, 2 result keys | a link given away can be revoked from the open dialog (`LivingLinksListed`), a dead link shows nothing (`RevokedIsDead`) |
| profile_sharing_owners | `Spec` | the same | violation of `SharedIsOwners`: a visitor sees the profile of another user |
| profile_queue | `Spec` | 4 entries of 3 names and an empty cluster, 2 starts a day | one start at a time and nothing waits for nothing (`OneStart`), of every name called done an entry was started (`DoneWasStarted`), every entry ends (`QueueSettles`) |

Exceptions the properties name, each of them something the code lets happen:
`BuiltOnce` counts one list more per confirmation that failed half-way;
Workbench's `disorder` and `Raced`, and the drags made while a feedback is on its way
(`late`); QqBinding's `spoilt`; `LivingLinksListed` is not claimed after `openShare` was
pressed while it waited (`rash`), `ShownIsLast` not after a generation was asked
for while one was (`again`); `PageSettles` excepts too few songs and a worker that
dies between "done" and the result; `ConfirmedSettles` excepts a lost answer
"bound" and a code that expired before it was polled; `BadgeIsTrue` excepts
refreshes that failed.

Why the bounds are enough. Two batches are the least that merge, and three
songs in batches of two make a last batch that is not full; zero and `MaxSongs + 1`
songs are the two selections `start` refuses, and one and two songs give the
single batch without merge. Two feedbacks are the least that overlap with each
other and, with the first run, make three runs that write one thread; the serial
run has four, so that two rounds, one finalization and one feedback too many fit,
also when one of the runs is killed. With two rounds "the round after the first"
and "the last round" are different. Two threads are what a store shared by
threads can confuse, two categories what a confirm loop can fail between, one failure
what a repetition needs. Races and failures are a matter of a thread by itself, and
`Wide = FALSE` leaves them to the user of one; the way from one thread to the next is
taken with feedbacks, drags and confirmations that succeed. Three requests let a refresh be overtaken by another
refresh, or by an unbind, while a third request starts from the new row; three keys
are a login and two refreshes, or two logins and a refresh. Three access tokens let a
token that was itself the answer to a refresh expire; two requests of one tab
share a refresh while the other tab has its own. Two runs of the QR effect are one
code and its successor, two polls an overlap. Five versions let the collection
change after a subscription, its two refreshes and the expiry of its keys. Four
generations are a first one, a refresh, and one more on top of a late fetch. Two
tokens, handlers and keys are what a second click and another user need. Four
entries are two names put in twice. `MaxKeys`, `MaxTokens`, `BusyTabs`,
`MaxThreads`, `MaxChange`, `MaxLeaks`, `Wide`, `MaxFailures`, `MaxQueue`, `Tokens`,
`Openers`, `Polls` and the number of feedbacks are bounds of the models (guards of
the actions that count); `MaxSongs`, `BatchSize`, `MaxIterations`, `MaxRetries`,
`MaxDaily` and `Ttl` are parameters of the code.

`CHECK_DEADLOCK FALSE` is set where the system may stop because a bound is used up
or the user is done: feedbacks, tokens, threads, runs of the QR effect, generations,
links, places in the queue. The run of QqBinding checks deadlock.

Requests, accounts, QR sessions, feedbacks, and the threads, songs and categories
of the workbench are interchangeable, which the safety runs use as symmetry
(`MCWorkflow`, `MCBinding`, `MCWorkbench`); runs with a liveness property use none.

## 5. Fairness

* `StreamFairness`: a run takes its steps while its worker lives (Celery
  consumes the queue; an AI call answers, raises, or the time limit kills the
  run, which is the action `Kill` and disables the rest); the endpoint and the
  browser deliver what is there; the EventSource reconnects; a silent stream is
  cut (nginx.conf, `proxy_read_timeout 300s`). Nothing is assumed of the user
  (`Submit` is not fair), of `Kill`, or of `GetRead`.
* `Fairness` of BrowserSession: every call is answered or fails. `axios.create`
  (`api.ts:25`) sets no timeout; it is nginx that cuts a request the backend does not
  answer (`proxy_read_timeout`), and the browser that reports a lost connection.
  Tokens need not expire and users need not do anything.
* `PageFairness` of ProfilePage: task, stream, fetch and the answer to generate
  keep going, each as a whole; the timers of the page fire. `Kill`, `Lose` and the
  buttons are not fair.
* `Fairness` of QrLogin: timers fire, polls are answered, answers arrive. Strong
  fairness of `CheckSaves` says that neither QQ Music nor the network fails every
  poll of a confirmed code: the page polls it again and again, and each poll may
  fail.
* `WF(Start)` of ProfileQueue: a start is answered, or cut by nginx or lost.

The other specifications state safety only and assume nothing.

## 6. Proofs

All theorems hold for every value of the constants under the named assumptions of
the modules (`SizesAssumption`, `FeedbacksAssumption`, `MaxKeysAssumption`,
`AccountsAssumption`, `NoCredAssumption`, `MaxTokensAssumption`, `TabsAssumption`,
`KeysAssumption`, `MaxRetriesAssumption`, `MaxThreadsAssumption`, `QueueAssumption`,
`QrAssumption`, `FavAssumption`, `WorkbenchAssumption`, and `OverlapAssumption` and
`IdleTimeoutAssumption`, the types of two Booleans). Five theorems about the
classification have `Overlap = FALSE`, and the one about the badge `Ttl <= 2`, as a
hypothesis of their own. The provers are Z3 and Zenon for the steps and LS4 for the
temporal ones.

**ClassifyProofs** has four parts. *Part 1* proves `TypeOK`, `BatchesInOrder`,
`ProposalCoversSelection`, `RoundsMatchProposal` and `PlanIsFinalProposal` for any
number of songs, batches, rounds and overlapping runs. None of them is inductive
about the checkpoint alone, because a checkpoint is written from the copy of a run
that began earlier. The inductive invariant `WorkflowInv` therefore says the same
of the checkpoint *and of every copy*: `Good(s)`, a conjunction of parts per phase
of a thread (before split, while batches are classified, once a proposal exists,
at the end), plus `GoodRun`, which ties the label of a run to the node its copy is
at, and `NotStarted`. The argument is then local. Each node maps a good state to
a good state (one lemma per node), every commit writes a good state over a good
state, so it does not matter who overwrites whom.

*Part 2* proves `FeedbackAppliedOnce`. Here states are not independent of each
other: a feedback applied in one copy must be unknown to the run that still
carries it. `OnceInv` adds that a feedback whose run has not come to its interrupt
(`Unused`) is mentioned in no state anywhere, and that a state about to refine does
not have its feedback in the proposal yet; `Posted` says that a run begins with its
request, so that a feedback id is used by one run only. The same part proves
`OneCallPerFeedback`: a run that has asked the AI to reclassify (`Spent`) carries no
resume value any more and can only go to the interrupt, where it ends, also when it
executed a `refine` that another run had left pending.

*Part 3* assumes `Overlap = FALSE`: a feedback is posted while no run of the thread
is active. It excludes what the code does not prevent, a second tab, a feedback
after the 120 s the endpoint waits, and a workbench opened while the first run
works; a kill, failures of the AI and lost resume values remain. `SerialInv` says
that at most one run is active (`OneRun`), that there is no checkpoint before the
first run has begun (`Unopened`), that the copy of a run that holds one is the
latest checkpoint (`CopiesLatest`), where the first run can be (`FirstRunAt`), that
the status belongs to the pending node (`InStep`), and that the audit row of a
proposal comes after it. `AuditedHasProposal` follows from the invariant. The rest is about steps: every step of the program does
to the checkpoint one of eight things (`ThreadStep`: nothing, opening, working,
proposing, taking a feedback, reclassifying, ending, giving up), and each of
`PlanStable`, `ProposalExtends` and the refinement of `ClassifyPromise`
(`KeepsPromise`) is a case analysis of those, independent of who made the step.

*Part 4* is ClassifyStream. `ShownProposalWhole` holds whether or not runs overlap:
`WholeInv` follows what can still be written to the store, the events in the
channel, the ones a run has yet to publish (`ReportsDecided`), the snapshot of the
endpoint and the answer of GET. `ConfirmBuildsWhatIsShown` needs `Overlap = FALSE`:
the plan that confirm builds is in the checkpoint, what is shown may come from an
old copy, and `FinalInv` says that every copy that has ended has the plan of the
checkpoint (`Ended`), and so has what the store shows as final (`ShownFinal`).

**WorkbenchProofs** proves `TypeOK`, `StoreOfPage`, `ConfirmBuildsBoard`,
`ResultsAreBuilt`, `BuiltOnce` and the action property `DragsKept` for any number of
threads, songs, categories, rounds and failures, with and without overlapping runs.
In `WorkbenchInv`, `Terminal` says that nothing comes after "finalized" for a thread
whose runs did not race, also not in an answer on its way, wherever the user is;
`SentOrLate`, that what is in the drag log is sent by every feedback on its way or was
dragged after it; while the workbench is in order (`disorder # "now"`), every call on
its way is of the thread of the page and the store holds that thread or nothing
(`Own`), and, without a race, what is shown as final is the plan of the server
(`Agreed`); as long as the workbench was never out of order, lists and failed
confirmations are balanced with what a running confirmation has still to build
(`Paid`). An answer may arrive in any order, so the steps are sorted by what they do
to store, cache and calls.

**QqBindingProofs** proves `TypeOK`, `RowIsBinding` and `ActsOnBinding` for any
number of accounts, requests and keys that overlap in any way. `BindingInv` adds what
each request carries by its label (`Carries`), and what its copy of the row is worth:
as long as the row is not `spoilt`, a request that began after the last login or
unbind may have an old copy, but one of the account bound (`Fresh`). This is what
makes the column-wise `Flush` of an old copy harmless: it writes the credential, and
the mask, which is that of the account or NULL whether it is written or left alone.
A login or an unbind that overlooks nothing writes both columns.

**BrowserSessionProofs** proves `TypeOK`, `WaitersHaveCall` and the action property
`RetryHasFreshToken` for any number of tabs, requests and tokens. `SessionInv` adds
that no token in the browser is newer than the last one issued (`TokensIssued`):
the token of a refresh is the next number, hence newer than whatever a request had
sent and than whatever has expired. Four lemmas carry the steps (leaving a page, a
request that goes on, a request that is refused, a refresh that is answered).

**ProfileProofs** has two parts. *Part 1* proves `PageTypeOK`, `OneVerdict` and
`ShownIsLast` of ProfilePage for any number of retries and generations. `PageInv`
adds that a stream that goes on has not been given up (`Listening`), which is what
"done" relies on when it arrives, that streams belong to numbered threads
(`Numbered`), and that nothing but a complete profile is stored before its task is
over (`StoredEnds`), so that a result once fetched does not change. `ShownIsLast`
follows from `InTurn`, which is claimed only while the button was not pressed while
it waited: no fetch of an earlier thread goes on, stream and fetch are those of the
thread given last, its id is set until its end was shown, and what is in the hook is
its result. The steps are sorted by what they do to the stream (`StreamFacts`) and
to the page when a result comes (`TakenType`).

*Part 2* proves `QueueTypeOK`, `OneStart` and `DoneWasStarted` for any
number of clusters and entries. `OneStart` is not inductive: `processNext` may
start an entry because none is shown running, which is right only if then no start
is on its way either (`CallIsRunning`, by the name of the entry called). One lemma is about `ProcessNext` from a
queue at rest, one about the end of the start that was on its way; marking by name
needs no exception, because entries of a name change together.

**ProfileSharingProofs** proves `TypeOK`, `LivingLinksListed` and `RevokedIsDead`
for any number of tokens, handlers and results. `SharingInv` follows a link from
the list the handler was answered to the dialog: whatever was copied and still
opens is in the list of the user (`Entered`), the one handler that waits is alone
while the dialog is closed (`Lone`) and brings all that was copied (`Complete`),
the link in the field is in the list beside it (`UrlListed`). `DeadIsRefused` is
the corresponding statement about the two reads of the public page.

**QrLoginProofs** proves `TypeOK`, `PolledIsShown` and the action property
`OnlyLastJumps` for any number of runs of the effect and of polls on their way.
`QrInv` says what the cleanup is for: a run that started and was not stopped is the
last one, on the screen (`OpenIsLast`), a timer is that of an open run whose code is
shown (`TimerIsShown`), and there are no runs after the last (`NoneAfterKey`). An
answer may come from any run, also one that was replaced, so the steps are sorted by
what they do to the runs: a new run after closed ones (`NextRunKeepsInv`), a run that
loses its timer or may jump (`Settled`), and leaving (`LeavingKeepsInv`).

**FavouritesProofs** proves `BadgeHasStream` and `LeaksOnlyByLeaving` for any number
of changes and pages and any life of the keys, and `BadgeIsTrue` for keys that live
at most two intervals (`Ttl <= 2`). `FavInv` adds that a page
that subscribes has neither a stream nor the badge (`SubscribingIsBare`), which is
why the answer may open a stream without looking for an old one, and that a
subscription whose page is gone is counted before it is answered (`LeaksCounted`).
`BadgeIsTrue` counts intervals. `SyncInv` compares every number that may still reach
the page, in the cache, the subscription, the snapshot and the events, with the
collection at the last two ticks: what a refresh of this interval fetched is at least
`past[1]`, everything else at least `past[2]`. The step that matters is the tick, when
`past[1]` becomes `past[2]`. A stream that survives it was not silent (`Heard`), so it
has brought this interval's version, or a refresh has failed, or the subscription is
so young that the beat goes on (`WillHear`). The hypothesis is about the code's
`fav_push_interval * 2`: with keys of three intervals a subscription is answered with
a cache entry that is too old, which TLC finds at once with `Ttl = 3`.

Only model-checked: everything with fairness (`StreamEnds`, `RefusedSettles`,
`ConfirmedSettles`, `PageSettles`, `QueueSettles`), which is out of the prover's
reach. Every invariant, action property and refinement of the runs that pass is a
theorem.

## 7. Disagreements between the code and what is said of it

The run profile_sharing_owners shows one, by a counterexample to `SharedIsOwners`:
`GET /shared/{token}` is said to show the profile its owner has shared
(`api/profile.py:81`, `ProfileShared.tsx:117`, `Profile.tsx:456`), and shows the last
result of all users in the order of random keys (`api/profile.py:160`).

The others have no run; the models contain what happens, and the properties are
stated so that they hold beside it:

| Said | Done |
|---|---|
| the thread is finalized after the last round or when the user confirms (`nodes.py:4`, `nodes.py:195`, `docs/plan.md:61-62`, `batch-classify-design.md:150`) | only the last round finalizes (`RouteAfterFeedback`); `PlanIsFinalProposal` and `ClassifyPromise` do not say in which round; the button waits for "finalized" (`ClassifyWorkbench.tsx:155`), confirm answers 400 without a plan (`api/classify.py:155`): a user who is content must give feedback until the rounds are used up |
| at most 5 AI reclassifications per task (`docs/plan.md:34`) | rounds are counted with the checkpoint, the AI is asked before (`nodes.py:79`): an answer that cannot be parsed and a killed run cost a call that is not counted, with one feedback at a time as well; overlapping runs each count their own. `OneCallPerFeedback` is what holds |
| the store is reset on leaving the workbench (`stores/classify.ts:44`) | by three buttons only; and answers that come later write it again (`disorder`) |
| the result of a drag is kept by the page (`frontend-refactor.md:69`) | an answer of GET or the stream that comes later puts the song back, the drag log stays |
| `/status` tells whether the user is bound (`api/qq.py:95`) | it tells whether the mask is set, which is NULL for a credential without `encrypt_uin` (`credential_store.py:29`) |
| unbinding clears the stored credential (`api/qq.py:105`) | a refresh in flight stores it again (`credential_store.py:62`) |
| the second start waits for the answer to the first and is then sent (`listening-profile-design.md:283`) | an entry of the same name as the one on its way is called done with it and never sent (`profileQueue.ts:54`); `DoneWasStarted` is what holds |
| a feedback continues from the interrupt (`classify_task.py:70`) | dropped, with 200, when the last run died before the interrupt |
| the ready event's proposal is rendered (`batch-classify-design.md:247`) | a GET that arrives later replaces it by an empty list |
| 401, refresh, replay (`frontend-refactor.md:52`), 30 days (`config.py:32`) | works once per login; the second refresh sends `"undefined"` |
| the page tells the user the songs are too few (`listening-profile-design.md:108`) | it asks for the result for ever |
| the queue keeps starts from being refused (`listening-profile-design.md:283`, `:388`) | the next start follows the last answer at once, inside the 30 s that `enforce_classify_limits` refuses |
| the drags are cleared once submitted (`queries.ts:106`, after a feedback succeeded) | with them the drags made while the feedback was on its way, which nobody has sent |

## 8. Not modelled

In Workbench a run is taken in few steps, and a feedback that failed before its run
has begun is not taken later by it; ClassifyWorkflow has runs node by node and
requests that give up while theirs go on. A confirmation whose answer is lost after
the last list is not there either.

The wording of prompts and the content of AI answers (an answer is success or
failure, and what it was shown); the content of songs, profiles and audit rows;
the names, reasons and texts of the board; encryption, signatures and claims of
tokens; a Redis or SQLite outage; the order in which QQ Music rotates its own
refresh tokens (a credential once issued and not expired is taken to work).

Registration, invite codes and the superadmin are single database transactions:
what two of them see of each other is decided by the database's isolation, which
the code does not set. The proxy settings are one row, written by one
administrator and read once per AI call. The limit per address is one counter
in front of `/auth/register` and `/auth/login` only (`ratelimit/middleware.py:18`). The
test and the writing of the interval key (`ratelimit/deps.py:37`) are one step of
ProfileQueue. Song lists shared by others are read page by page without any state.
Logging, configuration, schemas, charts and layout change nothing.
