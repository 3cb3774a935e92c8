----------------------------- MODULE ProfilePage -----------------------------
(***************************************************************************)
(* The page of the listening profile (frontend/src/pages/Profile.tsx)      *)
(* around the hook and the task of ProfileGeneration, for as many          *)
(* generations as the user asks for.                                       *)
(*                                                                         *)
(* "generate", "retry" and "refresh" are one handler; the last two can be  *)
(* pressed again while it waits.  The variables of ProfileGeneration are   *)
(* those of the thread the page was given last; what is left of an earlier *)
(* one is its fetch, which no cleanup takes back.                          *)
(***************************************************************************)
EXTENDS ProfileGeneration

CONSTANT
    MaxThreads      \* bound on the generations asked for

ASSUME MaxThreadsAssumption == MaxThreads \in Nat

VARIABLES
    page,       \* "away", "here", or "crashed": the ErrorBoundary is shown
    asks,       \* POST /generate on their way
    generating, \* state of the component
    threadId,   \* is it set?
    cached,     \* cachedProfile
    thread,     \* the thread given last, numbered
    of,         \* the thread whose profile is in view.data (history)
    late,       \* earlier threads whose fetch goes on
    again       \* history: was a generation asked for while one was asked for?

state == <<page, asks, generating, threadId, cached, thread, of, late, again>>
allvars == <<hook, state>>

Profiles == Results \ {"songs_too_few"}

PageTypeOK ==
    /\ TypeOK
    /\ page \in {"away", "here", "crashed"}
    /\ generating \in BOOLEAN /\ threadId \in BOOLEAN /\ again \in BOOLEAN
    /\ asks \in 0..MaxThreads
    /\ {view.data, cached} \subseteq Profiles
    /\ thread \in 0..MaxThreads /\ of \in 0..thread
    /\ late \subseteq 1..thread - 1
    /\ threadId => page = "here" /\ ~view.done

PageInit ==
    /\ Init
    /\ page = "away" /\ asks = 0
    /\ generating = FALSE /\ threadId = FALSE /\ cached = "none"
    /\ thread = 0 /\ of = 0 /\ late = {} /\ again = FALSE

-----------------------------------------------------------------------------
(* The screens, in the order of the code.                                   *)

profile == IF view.data # "none" THEN view.data ELSE cached

InitialScreen ==
    page = "here" /\ profile = "none" /\ ~view.loading /\ ~generating

LoadingScreen ==
    /\ page = "here" /\ ~InitialScreen
    /\ view.loading \/ generating
    /\ view.data = "none" /\ ~view.error

ErrorScreen ==
    page = "here" /\ ~InitialScreen /\ ~LoadingScreen /\ view.error /\ profile = "none"

LoadedScreen ==
    page = "here" /\ ~InitialScreen /\ ~LoadingScreen /\ ~ErrorScreen

-----------------------------------------------------------------------------
(* Coming and going.  The state of the page ends with it; tasks go on, and   *)
(* what was on its way is answered to nobody.                               *)

Fresh == /\ asks' = 0 /\ generating' = FALSE /\ threadId' = FALSE
         /\ cached' = "none" /\ of' = 0 /\ late' = {} /\ again' = FALSE
         /\ es' = "none" /\ inbox' = <<>> /\ retries' = 0 /\ fetch' = "none"
         /\ view' = [loading |-> FALSE, done |-> FALSE, error |-> FALSE,
                     data |-> "none"]
         /\ UNCHANGED <<task, result, thread>>

Visit == page = "away" /\ page' = "here" /\ Fresh

\* By a link, or by opening a cluster as a song list.
Leave == page = "here" /\ page' = "away" /\ Fresh

\* The button of the ErrorBoundary.
Reload == page = "crashed" /\ page' = "here" /\ Fresh

-----------------------------------------------------------------------------
(* handleGenerate.                                                          *)

HandleGenerate ==
    /\ thread + asks < MaxThreads
    /\ asks' = asks + 1
    /\ generating' = TRUE
    /\ again' = (again \/ asks > 0)
    /\ UNCHANGED <<hook, page, threadId, thread, of, late>>

Generate == (InitialScreen \/ ErrorScreen) /\ HandleGenerate /\ UNCHANGED cached

\* Fault: the profile that is to be replaced is not forgotten.
HandleRefreshKeeps == LoadedScreen /\ HandleGenerate /\ UNCHANGED cached

\* After the dialog that asks whether to go on.
HandleRefresh == LoadedScreen /\ HandleGenerate /\ cached' = "none"

\* setThreadId: the cleanup closes the stream and clears the last timer; requests on
\* their way are not taken back.
Answered ==
    /\ page = "here" /\ asks > 0
    /\ asks' = asks - 1
    /\ thread' = thread + 1 /\ threadId' = TRUE
    /\ NewThread
    /\ late' \in SUBSET (IF fetch \in {"asked", "timer"} THEN late \cup {thread} ELSE late)
    /\ UNCHANGED <<page, generating, cached, of, again>>

GenerateFails ==
    /\ page = "here" /\ asks > 0
    /\ asks' = asks - 1
    /\ generating' = FALSE
    /\ UNCHANGED <<hook, page, threadId, cached, thread, of, late, again>>

-----------------------------------------------------------------------------
(* The result arrives: the effect of the page takes the thread id away, and  *)
(* the next rendering reads profile.radar, which an exception has not.       *)

Taken(data, n) ==
    /\ page' = IF data = "exception" THEN "crashed" ELSE "here"
    /\ generating' = FALSE /\ threadId' = FALSE
    /\ cached' = data /\ of' = n

Fetch ==
    /\ page = "here"
    /\ FetchStep
    /\ IF view'.done /\ fetch' = "done" THEN Taken(view'.data, thread)
       ELSE UNCHANGED <<page, generating, threadId, cached, of>>
    /\ UNCHANGED <<asks, thread, late, again>>

\* An earlier thread's profile: it is shown, and the stream of the last one closed.
LateAnswered(n) ==
    /\ page = "here" /\ n \in late
    /\ \E data \in {"complete", "ai_failed", "exception"} :
        /\ view' = [view EXCEPT !.data = data, !.done = TRUE, !.loading = FALSE]
        /\ Taken(data, n)
    /\ es' = "closed" /\ inbox' = <<>>
    /\ fetch' \in IF fetch = "timer" THEN {"timer", "none"} ELSE {fetch}
    /\ late' \in SUBSET (late \ {n})
    /\ UNCHANGED <<task, result, retries, asks, thread, again>>

-----------------------------------------------------------------------------
Task == TaskStep /\ UNCHANGED state
Stream == page = "here" /\ StreamStep /\ UNCHANGED state
Generation == Answered \/ GenerateFails

PageNext ==
    \/ Visit \/ Leave \/ Reload
    \/ Generate \/ HandleRefresh \/ Generation
    \/ Task \/ Stream \/ Fetch
    \/ (Kill \/ Lose) /\ UNCHANGED state
    \/ \E n \in late : LateAnswered(n)

\* The worker, the requests, the connection and the timers of the page keep going, and
\* a stream that stays silent is cut in the end.
PageFairness ==
    WF_allvars(Generation) /\ WF_allvars(Task) /\ WF_allvars(Stream) /\ WF_allvars(Fetch)

PageSpec == PageInit /\ [][PageNext]_allvars /\ PageFairness

-----------------------------------------------------------------------------
(* Properties.                                                              *)

\* The profile on the screen is the one stored for the thread the page was given last,
\* although "done" may be announced before the result is there (404), for an end that
\* leaves no profile (400), and after a refresh that replaces or fails.  Excepted: the
\* user pressed the button again while it waited (LateAnswered).
ShownIsLast ==
    LoadedScreen /\ ~again => of = thread /\ profile = result /\ ~Refused

\* A page that shows its spinner comes to show something else, whatever events and
\* connections it loses and however often its buttons are pressed.  Excepted: too few
\* songs, and a worker that dies between "done" and the result.
PageSettles ==
    LoadingScreen ~> ~LoadingScreen \/ LostAfterDone \/ result = "songs_too_few"

=============================================================================
