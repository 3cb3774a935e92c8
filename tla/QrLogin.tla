------------------------------- MODULE QrLogin -------------------------------
(***************************************************************************)
(* The page that binds QQ Music (frontend/src/pages/QrLogin.tsx) against   *)
(* the endpoints that issue and check a QR code (backend/app/api/qq.py).   *)
(*                                                                         *)
(* Every value of qrKey runs the effect once: it asks for a code and polls *)
(* it by a timer that does not wait for answers.  A run is stopped by the  *)
(* next one or by leaving; its polls on their way are not, and their       *)
(* answers still write the page.  What the server does with two polls of   *)
(* one confirmed code is QqBinding's; here it is one step.                 *)
(***************************************************************************)
EXTENDS Naturals

CONSTANTS MaxKeys,   \* bound on the runs of the effect
          Polls      \* bound on the polls on their way, as a set of slots

ASSUME QrAssumption == MaxKeys \in Nat

Keys == 1..MaxKeys

VARIABLES
    user,     \* is an account logged in here (useAuth)?
    mounted,  \* is the page on the screen?
    first,    \* the first run of this mount
    key,      \* the last run (qrKey)
    run,      \* the runs: label, timer, the jump that waits 800 ms
    status,   \* QrStatus
    img,      \* the run whose code is shown, 0 for none
    poll,     \* polls on their way: of which run, and the answer
    code,     \* the QR session of each run in Redis
    confirmed,\* the runs whose code the user has confirmed on the phone
    bound,    \* is the credential stored?
    unsaid    \* runs whose successful answer was lost (history)

page == <<user, mounted, first, key, run, status, img>>
server == <<code, confirmed, bound>>
vars == <<page, poll, server, unsaid>>

QrStatus == {"loading", "waiting", "scanned", "success", "expired", "error",
             "network_error", "device_limit"}
Fatal == {"NETWORK_ERROR", "DEVICE_LIMIT"}
CheckQrResponse == Fatal \cup {"bound", "expired", "scanned", "other", "error"}
Run == [at : {"none", "asking", "asked"}, stopped : BOOLEAN,
        timer : BOOLEAN, jump : BOOLEAN]
NotRun == [at |-> "none", stopped |-> FALSE, timer |-> FALSE, jump |-> FALSE]
Idle == [of |-> 0, answer |-> "none"]

TypeOK ==
    /\ user \in BOOLEAN /\ mounted \in BOOLEAN /\ bound \in BOOLEAN
    /\ first \in 0..MaxKeys /\ key \in 0..MaxKeys
    /\ run \in [Keys -> Run]
    /\ status \in QrStatus
    /\ img \in 0..key
    /\ poll \in [Polls -> [of : 0..key, answer : CheckQrResponse \cup {"none"}]]
    /\ code \in [Keys -> {"none", "issued", "used", "gone"}]
    /\ confirmed \subseteq Keys /\ unsaid \subseteq Keys
    /\ img # 0 => code[img] # "none"

Init ==
    /\ user \in BOOLEAN
    /\ mounted = FALSE /\ first = 0 /\ key = 0
    /\ run = [k \in Keys |-> NotRun]
    /\ status = "loading" /\ img = 0
    /\ poll = [p \in Polls |-> Idle]
    /\ code = [k \in Keys |-> "none"]
    /\ confirmed = {} /\ bound = FALSE /\ unsaid = {}

\* Does a setState of run k reach the component on the screen?
Live(k) == mounted /\ k >= first

Show(k, s) == status' = IF Live(k) THEN s ELSE status

-----------------------------------------------------------------------------
(* The page.                                                                *)

\* Without an account there is a link to the login and no effect.
LoginCard == mounted /\ ~user

ShowImg == /\ mounted /\ user /\ img # 0
           /\ status \notin {"expired", "error", "loading", "network_error",
                             "device_limit"}
RetryButton == mounted /\ user /\ status \in {"error", "network_error", "device_limit"}

Stopped(r, k) == [r EXCEPT ![k].stopped = TRUE, ![k].timer = FALSE]

\* Fault: the cleanup clears the timer only.
CleanupTimerOnly == IF key = 0 THEN run ELSE [run EXCEPT ![key].timer = FALSE]

\* The cleanup of the run before.
Cleanup == IF key = 0 THEN run ELSE Stopped(run, key)

\* The body of the effect up to its first await.
NextRun(runs) ==
    /\ key < MaxKeys
    /\ key' = key + 1
    /\ run' = [runs EXCEPT ![key + 1].at = "asking"]
    /\ status' = "loading" /\ img' = 0

Mount ==
    /\ ~mounted /\ user
    /\ mounted' = TRUE
    /\ first' = key + 1
    /\ NextRun(run)
    /\ UNCHANGED <<user, poll, server, unsaid>>

MountLoggedOut ==
    /\ ~mounted /\ ~user
    /\ mounted' = TRUE
    /\ UNCHANGED <<user, first, key, run, status, img, poll, server, unsaid>>

\* The link of the card leads to the login page and from there to the song list.
LogIn ==
    /\ LoginCard
    /\ user' = TRUE /\ mounted' = FALSE
    /\ UNCHANGED <<first, key, run, status, img, poll, server, unsaid>>

Leave ==
    /\ mounted /\ user
    /\ mounted' = FALSE
    /\ run' = Cleanup
    /\ UNCHANGED <<user, first, key, status, img, poll, server, unsaid>>

Retry ==
    /\ RetryButton
    /\ NextRun(Cleanup)
    /\ UNCHANGED <<user, mounted, first, poll, server, unsaid>>

QrcodeArrives(k) ==
    /\ run[k].at = "asking"
    /\ code' = [code EXCEPT ![k] = "issued"]
    /\ run' = [run EXCEPT ![k].at = "asked", ![k].timer = ~run[k].stopped]
    /\ img' = IF run[k].stopped THEN img ELSE k
    /\ status' = IF run[k].stopped THEN status ELSE "waiting"
    /\ UNCHANGED <<user, mounted, first, key, poll, confirmed, bound, unsaid>>

QrcodeFails(k) ==
    /\ run[k].at = "asking"
    /\ run' = [run EXCEPT ![k].at = "asked"]
    /\ status' = IF run[k].stopped THEN status ELSE "error"
    /\ UNCHANGED <<user, mounted, first, key, img, poll, server, unsaid>>

\* setInterval: the next poll does not wait for the last one.
Tick(k, p) ==
    /\ run[k].timer /\ ~run[k].stopped
    /\ poll[p] = Idle
    /\ poll' = [poll EXCEPT ![p] = [of |-> k, answer |-> "none"]]
    /\ UNCHANGED <<page, server, unsaid>>

\* Fault: the jump does not look whether its run was stopped.
JumpAnyway(k) ==
    /\ run[k].jump
    /\ mounted' = FALSE
    /\ run' = [Cleanup EXCEPT ![k].jump = FALSE]
    /\ UNCHANGED <<user, first, key, status, img, poll, server, unsaid>>

Jump(k) ==
    /\ run[k].jump
    /\ mounted' = (mounted /\ run[k].stopped)
    /\ run' = [IF run[k].stopped THEN run ELSE Cleanup EXCEPT ![k].jump = FALSE]
    /\ UNCHANGED <<user, first, key, status, img, poll, server, unsaid>>

-----------------------------------------------------------------------------
(* POST /api/qq/check.                                                      *)

Answer(p, a) == poll' = [poll EXCEPT ![p].answer = a]

CheckSaves(p) ==
    /\ poll[p].of # 0 /\ poll[p].answer = "none"
    /\ code[poll[p].of] = "issued" /\ poll[p].of \in confirmed
    /\ bound' = TRUE
    /\ code' = [code EXCEPT ![poll[p].of] = "used"]
    /\ Answer(p, "bound")
    /\ UNCHANGED <<page, confirmed, unsaid>>

\* 404, QQ_API_ERROR and the events the page does not know are "error" and "other".
CheckAnswers(p) ==
    /\ poll[p].of # 0 /\ poll[p].answer = "none"
    /\ \/ code[poll[p].of] # "issued" /\ Answer(p, "error")
       \/ /\ code[poll[p].of] = "issued"
          /\ \E a \in Fatal \cup {"error"} : Answer(p, a)
       \/ /\ code[poll[p].of] = "issued" /\ poll[p].of \notin confirmed
          /\ \E a \in {"expired", "scanned", "other"} : Answer(p, a)
    /\ UNCHANGED <<page, server, unsaid>>

\* The user scans the code that is, or was, on the screen.
Confirm(k) ==
    /\ run[k].at = "asked" /\ code[k] = "issued" /\ k \notin confirmed
    /\ k = key => ShowImg
    /\ confirmed' = confirmed \cup {k}
    /\ UNCHANGED <<page, poll, code, bound, unsaid>>

\* The Redis key lives 300 s.
CodeExpires(k) ==
    /\ code[k] = "issued"
    /\ code' = [code EXCEPT ![k] = "gone"]
    /\ UNCHANGED <<page, poll, confirmed, bound, unsaid>>

-----------------------------------------------------------------------------
(* An answer arrives, whatever run is the last by then.                     *)

Taken(p, answers) ==
    /\ poll[p].answer \in answers
    /\ poll' = [poll EXCEPT ![p] = Idle]
    /\ UNCHANGED <<server, unsaid>>

NoTimer(k) == [run EXCEPT ![k].timer = FALSE]

OnBound(p) ==
    /\ Taken(p, {"bound"})
    /\ LET k == poll[p].of
       IN  /\ run' = [NoTimer(k) EXCEPT ![k].jump = TRUE]
           /\ Show(k, "success")
    /\ UNCHANGED <<user, mounted, first, key, img>>

\* setQrKey(k + 1): the run that is the last one is stopped, not only this one.
OnExpired(p) ==
    /\ Taken(p, {"expired"})
    /\ LET k == poll[p].of
       IN  IF Live(k)
           THEN NextRun([Cleanup EXCEPT ![k].timer = FALSE])
           ELSE run' = NoTimer(k) /\ UNCHANGED <<key, status, img>>
    /\ UNCHANGED <<user, mounted, first>>

OnScanned(p) ==
    /\ Taken(p, {"scanned"})
    /\ Show(poll[p].of, "scanned")
    /\ UNCHANGED <<user, mounted, first, key, run, img>>

OnFatal(p) ==
    /\ Taken(p, Fatal)
    /\ run' = NoTimer(poll[p].of)
    /\ Show(poll[p].of, IF poll[p].answer = "DEVICE_LIMIT" THEN "device_limit"
                        ELSE "network_error")
    /\ UNCHANGED <<user, mounted, first, key, img>>

\* Fault: an answer the page does not know ends the polling.
OnOtherStops(p) ==
    /\ Taken(p, {"other", "error"})
    /\ run' = NoTimer(poll[p].of)
    /\ UNCHANGED <<user, mounted, first, key, status, img>>

OnOther(p) ==
    /\ Taken(p, {"other", "error"})
    /\ UNCHANGED page

\* A poll fails on its way: the next one tries again.
Lose(p) ==
    /\ poll[p].of # 0
    /\ unsaid' = IF poll[p].answer = "bound" THEN unsaid \cup {poll[p].of} ELSE unsaid
    /\ poll' = [poll EXCEPT ![p] = Idle]
    /\ UNCHANGED <<page, server>>

-----------------------------------------------------------------------------
Arrive(p) == OnBound(p) \/ OnExpired(p) \/ OnScanned(p) \/ OnFatal(p) \/ OnOther(p)

User == Mount \/ MountLoggedOut \/ LogIn \/ Leave \/ Retry
        \/ \E k \in Keys : Confirm(k)

Next ==
    \/ User
    \/ \E k \in Keys : QrcodeArrives(k) \/ QrcodeFails(k) \/ Jump(k) \/ CodeExpires(k)
    \/ \E k \in Keys, p \in Polls : Tick(k, p)
    \/ \E p \in Polls : CheckSaves(p) \/ CheckAnswers(p) \/ Arrive(p) \/ Lose(p)

Spec == Init /\ [][Next]_vars

\* Timers fire, requests end, and the server answers; neither QQ Music nor the network
\* fails every poll, as long as a confirmed code is being polled.
Fairness ==
    /\ \A k \in Keys : WF_vars(\E p \in Polls : Tick(k, p)) /\ WF_vars(Jump(k))
    /\ \A p \in Polls : WF_vars(CheckAnswers(p)) /\ WF_vars(Arrive(p))
    /\ \A k \in Keys : SF_vars(\E p \in Polls : poll[p].of = k /\ CheckSaves(p))

FairSpec == Spec /\ Fairness

-----------------------------------------------------------------------------
(* Properties.                                                              *)

\* Only the code on the screen is polled, and one that waits to be scanned is:
\* whatever order codes arrive, expire and are asked for again in, a run that was
\* replaced or left has no timer, and answers that overlap do not stop the last
\* one under a page that still waits.
PolledIsShown ==
    /\ \A k \in Keys : run[k].timer => k = key /\ mounted /\ img = k
    /\ mounted /\ status = "waiting" => \E k \in Keys : run[k].timer

\* A login that ends late does not take the user away from where he went, nor
\* from the next code: only the last run, on the screen, jumps to the song list.
OnlyLastJumps ==
    [][\A k \in Keys :
          mounted /\ ~mounted' /\ run[k].jump /\ ~run'[k].jump
              => k = key /\ Live(k)]_vars

\* A code confirmed while it is polled ends in a success or an error on the page, a new
\* code, or the user's leaving.  Excepted: the answer that said so was lost
\* (polls get 404 from then on), and the code expired before a poll saw it.  The
\* last run is left out: the bound lets none follow it.
ConfirmedSettles ==
    \A k \in Keys \ {MaxKeys} :
        (k \in confirmed /\ run[k].timer)
            ~> \/ status \in {"success", "network_error", "device_limit"}
               \/ k # key \/ ~mounted
               \/ k \in unsaid \/ code[k] = "gone"

=============================================================================
