---------------------------- MODULE QrLoginProofs ----------------------------
(***************************************************************************)
(* Proofs about QrLogin for every number of runs of the effect and of polls *)
(* on their way.                                                           *)
(***************************************************************************)
EXTENDS QrLogin, TLAPS

\* PolledIsShown's first part, with what the timer's run is itself.
TimerIsShown ==
    \A k \in Keys : run[k].timer => /\ k = key /\ mounted /\ img = k
                                    /\ ~run[k].stopped /\ run[k].at = "asked"

\* A run that started and was not stopped is the last one, on the screen.
OpenIsLast == \A k \in Keys : run[k].at # "none" /\ ~run[k].stopped => k = key /\ mounted

NoneAfterKey == \A k \in Keys : k > key => run[k] = NotRun

JumpHasRun == \A k \in Keys : run[k].jump => run[k].at # "none"

\* A mount with an account has runs; without one there never was a run.
MountHasRun == mounted /\ user => first \in 1..key

LoggedOutIdle == ~user => key = 0 /\ status = "loading"

WaitingIsPolled == mounted /\ status = "waiting" => \E k \in Keys : run[k].timer

PollHasRun ==
    /\ \A p \in Polls : poll[p].answer # "none" => poll[p].of # 0
    /\ \A p \in Polls : poll[p].of # 0 => run[poll[p].of].at # "none"

\* The inductive invariant.
QrInv ==
    /\ TypeOK
    /\ TimerIsShown
    /\ OpenIsLast
    /\ NoneAfterKey
    /\ JumpHasRun
    /\ MountHasRun
    /\ LoggedOutIdle
    /\ WaitingIsPolled
    /\ PollHasRun

-----------------------------------------------------------------------------
(* What the helpers do to the runs.                                         *)

\* Updates of one run by name: the steps cite what they do, not the records.
At(r, k, at) == [r EXCEPT ![k].at = at]
MayJump(r, k) == [r EXCEPT ![k].jump = TRUE]
NoJump(r, k) == [r EXCEPT ![k].jump = FALSE]
Arrived(r, k) == [r EXCEPT ![k].at = "asked", ![k].timer = ~r[k].stopped]

LEMMA NoTimerRuns ==
    ASSUME NEW r \in [Keys -> Run], NEW k \in Keys
    PROVE  LET n == [r EXCEPT ![k].timer = FALSE]
           IN  /\ n \in [Keys -> Run]
               /\ ~n[k].timer /\ n[k].at = r[k].at
               /\ n[k].stopped = r[k].stopped /\ n[k].jump = r[k].jump
               /\ \A j \in Keys \ {k} : n[j] = r[j]
    BY DEF Run

LEMMA AtRuns ==
    ASSUME NEW r \in [Keys -> Run], NEW k \in Keys, NEW at \in {"asking", "asked"}
    PROVE  LET n == At(r, k, at)
           IN  /\ n \in [Keys -> Run]
               /\ n[k].at = at /\ n[k].timer = r[k].timer
               /\ n[k].stopped = r[k].stopped /\ n[k].jump = r[k].jump
               /\ \A j \in Keys \ {k} : n[j] = r[j]
    BY DEF Run, At

LEMMA MayJumpRuns ==
    ASSUME NEW r \in [Keys -> Run], NEW k \in Keys
    PROVE  LET n == MayJump(r, k)
           IN  /\ n \in [Keys -> Run]
               /\ n[k].jump = TRUE /\ n[k].timer = r[k].timer
               /\ n[k].stopped = r[k].stopped /\ n[k].at = r[k].at
               /\ \A j \in Keys \ {k} : n[j] = r[j]
    BY DEF Run, MayJump

LEMMA NoJumpRuns ==
    ASSUME NEW r \in [Keys -> Run], NEW k \in Keys
    PROVE  LET n == NoJump(r, k)
           IN  /\ n \in [Keys -> Run]
               /\ n[k].jump = FALSE /\ n[k].timer = r[k].timer
               /\ n[k].stopped = r[k].stopped /\ n[k].at = r[k].at
               /\ \A j \in Keys \ {k} : n[j] = r[j]
    BY DEF Run, NoJump

LEMMA ArrivedRuns ==
    ASSUME NEW r \in [Keys -> Run], NEW k \in Keys
    PROVE  LET n == Arrived(r, k)
           IN  /\ n \in [Keys -> Run]
               /\ n[k].at = "asked" /\ n[k].timer = ~r[k].stopped
               /\ n[k].stopped = r[k].stopped /\ n[k].jump = r[k].jump
               /\ \A j \in Keys \ {k} : n[j] = r[j]
    BY DEF Run, Arrived

LEMMA StoppedRuns ==
    ASSUME NEW r \in [Keys -> Run], NEW k \in Keys
    PROVE  /\ Stopped(r, k) \in [Keys -> Run]
           /\ ~Stopped(r, k)[k].timer /\ Stopped(r, k)[k].stopped
           /\ Stopped(r, k)[k].at = r[k].at /\ Stopped(r, k)[k].jump = r[k].jump
           /\ \A j \in Keys \ {k} : Stopped(r, k)[j] = r[j]
    BY DEF Stopped, Run

\* After the cleanup no run is left that is polled or could jump.
LEMMA CleanupRuns ==
    ASSUME QrInv
    PROVE  /\ Cleanup \in [Keys -> Run]
           /\ \A j \in Keys : /\ Cleanup[j].at = run[j].at
                              /\ Cleanup[j].jump = run[j].jump
                              /\ ~Cleanup[j].timer
                              /\ Cleanup[j].at # "none" => Cleanup[j].stopped
                              /\ j > key => Cleanup[j] = NotRun
<1>1. CASE key = 0
  <2>1. Cleanup = run /\ \A j \in Keys : j > key
      BY <1>1, QrAssumption DEF Cleanup, Keys
  <2>2. \A j \in Keys : run[j] = NotRun
      BY <2>1 DEF QrInv, NoneAfterKey
  <2>. QED
      BY <2>1, <2>2 DEF QrInv, TypeOK, NotRun
<1>2. CASE key # 0
  <2>1. key \in Keys /\ Cleanup = Stopped(run, key) /\ run \in [Keys -> Run]
      BY <1>2, QrAssumption DEF Cleanup, Keys, QrInv, TypeOK
  <2>2. \A j \in Keys \ {key} : Cleanup[j] = run[j]
      BY <2>1, StoppedRuns
  <2>3. /\ ~Cleanup[key].timer /\ Cleanup[key].stopped /\ Cleanup \in [Keys -> Run]
        /\ Cleanup[key].at = run[key].at /\ Cleanup[key].jump = run[key].jump
      BY <2>1, StoppedRuns
  <2>4. \A j \in Keys \ {key} : ~run[j].timer /\ (run[j].at # "none" => run[j].stopped)
      BY DEF QrInv, TimerIsShown, OpenIsLast
  <2>5. \A j \in Keys : j > key => j # key /\ run[j] = NotRun
      BY <2>1 DEF QrInv, NoneAfterKey, Keys
  <2>. QED
      BY <2>1, <2>2, <2>3, <2>4, <2>5
<1>. QED
    BY <1>1, <1>2

\* Runs of which none is polled or open, up to the last one.
Closed(r) ==
    /\ r \in [Keys -> Run]
    /\ \A j \in Keys : /\ ~r[j].timer
                       /\ r[j].at # "none" => r[j].stopped
                       /\ r[j].jump => r[j].at # "none"
                       /\ run[j].at # "none" => r[j].at # "none"
                       /\ j > key => r[j] = NotRun

LEMMA CleanupCloses == QrInv => Closed(Cleanup)
    BY CleanupRuns DEF Closed, QrInv, JumpHasRun

\* A new run after closed ones keeps the invariant.
LEMMA NextRunKeepsInv ==
    ASSUME QrInv, NEW r, Closed(r), NextRun(r),
           user' = TRUE, mounted' = TRUE, first' \in 1..key + 1,
           poll' \in [Polls -> [of : 0..key, answer : CheckQrResponse \cup {"none"}]],
           \A p \in Polls : poll'[p] = poll[p] \/ poll'[p] = Idle,
           UNCHANGED <<server, unsaid>>
    PROVE  QrInv'
<1>. DEFINE n == key + 1
<1>1. /\ key \in Nat /\ MaxKeys \in Nat /\ n \in Keys /\ key' = n
      /\ 0..key \subseteq 0..key' /\ first' \in 0..MaxKeys /\ key' \in 0..MaxKeys
      /\ first' \in 1..key'
    BY QrAssumption DEF NextRun, QrInv, TypeOK, Keys
<1>2. /\ run' \in [Keys -> Run]
      /\ run'[n].at = "asking" /\ ~run'[n].timer /\ ~run'[n].stopped /\ ~run'[n].jump
      /\ \A j \in Keys \ {n} : run'[j] = r[j]
  <2>1. r[n] = NotRun /\ r \in [Keys -> Run] /\ n \in Keys
      BY <1>1 DEF Closed
  <2>. HIDE DEF n
  <2>2. run' = At(r, n, "asking")
      BY DEF NextRun, At, n
  <2>3. /\ run' \in [Keys -> Run]
        /\ run'[n].at = "asking" /\ run'[n].timer = r[n].timer
        /\ run'[n].stopped = r[n].stopped /\ run'[n].jump = r[n].jump
        /\ \A j \in Keys \ {n} : run'[j] = r[j]
      BY <2>1, <2>2, AtRuns
  <2>. QED
      BY <2>1, <2>3 DEF NotRun
<1>. HIDE DEF n
<1>3. TypeOK'
  <2>1. poll' \in [Polls -> [of : 0..key', answer : CheckQrResponse \cup {"none"}]]
      BY <1>1
  <2>2. img' = 0 /\ img' \in 0..key' /\ status' \in QrStatus
      BY <1>1 DEF NextRun, QrStatus
  <2>3. /\ bound' = bound /\ code' = code /\ confirmed' = confirmed /\ unsaid' = unsaid
        /\ user' \in BOOLEAN /\ mounted' \in BOOLEAN
      BY DEF server
  <2>. QED
      BY <1>1, <1>2, <2>1, <2>2, <2>3 DEF TypeOK, QrInv
<1>4. TimerIsShown' /\ OpenIsLast' /\ JumpHasRun'
    BY <1>1, <1>2 DEF Closed, TimerIsShown, OpenIsLast, JumpHasRun
<1>5. NoneAfterKey'
  <2>1. \A j \in Keys : j > key' => j # n /\ j > key
      BY <1>1 DEF n, Keys
  <2>. QED
      BY <1>2, <2>1 DEF NoneAfterKey, Closed
<1>6. MountHasRun' /\ LoggedOutIdle' /\ WaitingIsPolled'
    BY <1>1 DEF MountHasRun, LoggedOutIdle, WaitingIsPolled, NextRun
<1>7. PollHasRun'
  <2>1. \A p \in Polls : poll'[p].of # 0 =>
            /\ poll'[p] = poll[p] /\ poll[p].of \in Keys /\ run[poll[p].of].at # "none"
    <3>1. \A p \in Polls : poll'[p].of # 0 => poll'[p] = poll[p]
        BY DEF Idle
    <3>2. \A p \in Polls : poll[p].of \in 0..key
        BY DEF QrInv, TypeOK
    <3>3. \A i \in 0..key : i # 0 => i \in Keys
        BY <1>1 DEF Keys, QrInv, TypeOK
    <3>. QED
        BY <3>1, <3>2, <3>3 DEF QrInv, PollHasRun
  <2>2. \A j \in Keys : run[j].at # "none" => run'[j].at # "none"
      BY <1>1, <1>2 DEF Closed
  <2>. QED
      BY <2>1, <2>2 DEF PollHasRun, QrInv, Idle
<1>. QED
    BY <1>3, <1>4, <1>5, <1>6, <1>7 DEF QrInv

-----------------------------------------------------------------------------
(* Steps that leave key, the mount and the user alone.                      *)

\* The run k takes a step that opens nothing: it loses its timer, or may jump.
Settled(r, k) ==
    /\ r \in [Keys -> Run]
    /\ \A j \in Keys \ {k} : r[j] = run[j]
    /\ r[k].at = run[k].at /\ r[k].stopped = run[k].stopped
    /\ r[k].timer => run[k].timer

LEMMA SettledKeepsRuns ==
    ASSUME QrInv, NEW k \in Keys, run[k].at # "none", Settled(run', k),
           UNCHANGED <<user, mounted, first, key, img>>
    PROVE  TimerIsShown' /\ OpenIsLast' /\ NoneAfterKey' /\ JumpHasRun' /\ MountHasRun'
<1>1. ~(k > key)
    BY DEF QrInv, NoneAfterKey, NotRun
<1>. QED
    BY <1>1 DEF QrInv, Settled, TimerIsShown, OpenIsLast, NoneAfterKey, JumpHasRun,
                MountHasRun

\* An answer that is taken, or lost, leaves the other polls alone.
LEMMA TakenPolls ==
    ASSUME QrInv, NEW p \in Polls, poll' = [poll EXCEPT ![p] = Idle]
    PROVE  /\ poll' \in [Polls -> [of : 0..key, answer : CheckQrResponse \cup {"none"}]]
           /\ \A q \in Polls : poll'[q] = poll[q] \/ poll'[q] = Idle
<1>1. 0 \in 0..key
    BY QrAssumption DEF QrInv, TypeOK
<1>. QED
    BY <1>1 DEF QrInv, TypeOK, Idle

\* An answer is of a run that has started, with a user who is logged in.
LEMMA AnswerHasRun ==
    ASSUME QrInv, NEW p \in Polls, poll[p].of # 0
    PROVE  poll[p].of \in Keys /\ run[poll[p].of].at # "none" /\ user = TRUE
<1>1. poll[p].of \in 0..key /\ key \in 0..MaxKeys
    BY DEF QrInv, TypeOK
<1>2. poll[p].of \in Keys /\ key # 0
    BY <1>1, QrAssumption DEF Keys
<1>. QED
    BY <1>2 DEF QrInv, PollHasRun, LoggedOutIdle, TypeOK

\* A run that is polled reaches the page.
LEMMA TimerIsLive ==
    ASSUME QrInv, NEW k \in Keys, run[k].timer
    PROVE  k = key /\ mounted /\ user /\ Live(k)
<1>1. k = key /\ mounted /\ key # 0
    BY QrAssumption DEF QrInv, TimerIsShown, Keys
<1>2. user = TRUE /\ first \in 1..key
    BY <1>1 DEF QrInv, LoggedOutIdle, MountHasRun, TypeOK
<1>. QED
    BY <1>1, <1>2, QrAssumption DEF Live, QrInv, TypeOK

-----------------------------------------------------------------------------
(* One lemma for each group of actions.                                     *)

\* The page is left: by the user, or by the jump, which also spends itself.
LEMMA LeavingKeepsInv ==
    ASSUME QrInv, Closed(run'), mounted' = FALSE,
           UNCHANGED <<user, first, key, status, img, poll, server, unsaid>>
    PROVE  QrInv'
<1>1. TypeOK'
    BY DEF QrInv, TypeOK, Closed, server
<1>2. PollHasRun'
  <2>1. \A p \in Polls : poll[p].of # 0 => poll[p].of \in Keys
      BY AnswerHasRun
  <2>. QED
      BY <2>1 DEF QrInv, PollHasRun, Closed
<1>3. /\ TimerIsShown' /\ OpenIsLast' /\ NoneAfterKey' /\ JumpHasRun'
      /\ MountHasRun' /\ LoggedOutIdle' /\ WaitingIsPolled'
    BY DEF QrInv, Closed, TimerIsShown, OpenIsLast, NoneAfterKey, JumpHasRun,
           MountHasRun, LoggedOutIdle, WaitingIsPolled
<1>. QED
    BY <1>1, <1>2, <1>3 DEF QrInv

LEMMA InitHolds == Init => QrInv
<1>. SUFFICES ASSUME Init PROVE QrInv
    OBVIOUS
<1>1. 0 \in 0..MaxKeys /\ 0 \in 0..0 /\ \A k \in Keys : k # 0
    BY QrAssumption DEF Keys
<1>2. TypeOK
    BY <1>1 DEF Init, TypeOK, Run, NotRun, Idle, QrStatus
<1>3. /\ TimerIsShown /\ OpenIsLast /\ NoneAfterKey /\ JumpHasRun
      /\ MountHasRun /\ LoggedOutIdle /\ WaitingIsPolled
    BY DEF Init, NotRun, TimerIsShown, OpenIsLast, NoneAfterKey, JumpHasRun,
           MountHasRun, LoggedOutIdle, WaitingIsPolled
<1>4. PollHasRun
    BY DEF Init, Idle, PollHasRun
<1>. QED
    BY <1>2, <1>3, <1>4 DEF QrInv

LEMMA UserKeepsInv == QrInv /\ User => QrInv'
<1>. SUFFICES ASSUME QrInv, User PROVE QrInv'
    OBVIOUS
<1>0. /\ key \in 0..MaxKeys /\ MaxKeys \in Nat /\ first \in 0..MaxKeys
      /\ poll \in [Polls -> [of : 0..key, answer : CheckQrResponse \cup {"none"}]]
    BY QrAssumption DEF QrInv, TypeOK
<1>1. CASE Mount
  <2>1. Closed(run)
      BY <1>1 DEF Mount, Closed, QrInv, TypeOK, TimerIsShown, OpenIsLast, JumpHasRun,
                  NoneAfterKey
  <2>2. /\ user' = TRUE /\ mounted' = TRUE /\ first' \in 1..key + 1 /\ NextRun(run)
        /\ UNCHANGED <<poll, server, unsaid>>
      BY <1>0, <1>1 DEF Mount, QrInv, TypeOK
  <2>. QED
      BY <1>0, <2>1, <2>2, NextRunKeepsInv
<1>2. CASE Retry
  <2>1. user = TRUE /\ mounted = TRUE /\ first \in 1..key
      BY <1>2 DEF Retry, RetryButton, QrInv, TypeOK, MountHasRun
  <2>2. /\ user' = TRUE /\ mounted' = TRUE /\ first' \in 1..key + 1 /\ NextRun(Cleanup)
        /\ UNCHANGED <<poll, server, unsaid>>
      BY <1>0, <1>2, <2>1 DEF Retry
  <2>. QED
      BY <1>0, <2>2, CleanupCloses, NextRunKeepsInv
<1>3. CASE MountLoggedOut \/ LogIn
  <2>1. /\ mounted' \in BOOLEAN /\ user' \in BOOLEAN
        /\ UNCHANGED <<first, key, run, status, img, poll, server, unsaid>>
      BY <1>3 DEF MountLoggedOut, LogIn, QrInv, TypeOK
  <2>2. ~user /\ key = 0 /\ status = "loading" /\ (user' => ~mounted')
      BY <1>3 DEF MountLoggedOut, LogIn, LoginCard, QrInv, LoggedOutIdle
  <2>3. \A k \in Keys : run[k] = NotRun
      BY <2>2 DEF QrInv, NoneAfterKey, Keys
  <2>4. TypeOK'
      BY <2>1 DEF TypeOK, QrInv, server
  <2>. QED
      BY <2>1, <2>2, <2>3, <2>4 DEF QrInv, NotRun, TimerIsShown, OpenIsLast, NoneAfterKey,
           JumpHasRun, MountHasRun, LoggedOutIdle, WaitingIsPolled, PollHasRun
<1>4. CASE Leave
  <2>1. /\ mounted' = FALSE /\ run' = Cleanup
        /\ UNCHANGED <<user, first, key, status, img, poll, server, unsaid>>
      BY <1>4 DEF Leave
  <2>2. Closed(run')
      BY <2>1, CleanupCloses, CleanupRuns DEF Closed
  <2>. QED
      BY <2>1, <2>2, LeavingKeepsInv
<1>5. ASSUME NEW k \in Keys, Confirm(k) PROVE QrInv'
  <2>1. confirmed' \subseteq Keys /\ UNCHANGED <<page, poll, code, bound, unsaid>>
      BY <1>5 DEF Confirm, QrInv, TypeOK
  <2>. QED
      BY <2>1 DEF QrInv, page, TypeOK, TimerIsShown, OpenIsLast, NoneAfterKey,
           JumpHasRun, MountHasRun, LoggedOutIdle, WaitingIsPolled, PollHasRun
<1>. QED
    BY <1>1, <1>2, <1>3, <1>4, <1>5 DEF User

LEMMA QrcodeKeepsInv ==
    ASSUME QrInv, NEW k \in Keys, QrcodeArrives(k) \/ QrcodeFails(k)
    PROVE  QrInv'
<1>0. /\ run \in [Keys -> Run] /\ run[k].at = "asking" /\ ~(k > key) /\ ~run[k].timer
    BY DEF QrInv, TypeOK, QrcodeArrives, QrcodeFails, NoneAfterKey, NotRun, TimerIsShown
<1>1. ~run[k].stopped => k = key /\ mounted
    BY <1>0 DEF QrInv, OpenIsLast
<1>2. /\ run' \in [Keys -> Run]
      /\ run'[k].at = "asked" /\ (run'[k].timer => ~run[k].stopped)
      /\ run'[k].stopped = run[k].stopped /\ run'[k].jump = run[k].jump
      /\ \A j \in Keys \ {k} : run'[j] = run[j]
  <2>1. CASE run' = [run EXCEPT ![k].at = "asked"]
    <3>1. /\ run' \in [Keys -> Run]
          /\ run'[k].at = "asked" /\ run'[k].timer = run[k].timer
          /\ run'[k].stopped = run[k].stopped /\ run'[k].jump = run[k].jump
          /\ \A j \in Keys \ {k} : run'[j] = run[j]
      <4>1. run' = At(run, k, "asked")
          BY <2>1 DEF At
      <4>. QED
          BY <1>0, <4>1, AtRuns
    <3>. QED
        BY <1>0, <3>1
  <2>2. CASE run' = [run EXCEPT ![k].at = "asked", ![k].timer = ~run[k].stopped]
    <3>1. /\ run' \in [Keys -> Run]
          /\ run'[k].at = "asked" /\ run'[k].timer = ~run[k].stopped
          /\ run'[k].stopped = run[k].stopped /\ run'[k].jump = run[k].jump
          /\ \A j \in Keys \ {k} : run'[j] = run[j]
      <4>1. run' = Arrived(run, k)
          BY <2>2 DEF Arrived
      <4>. QED
          BY <1>0, <4>1, ArrivedRuns
    <3>. QED
        BY <3>1
  <2>. QED
      BY <2>1, <2>2 DEF QrcodeArrives, QrcodeFails
<1>3. UNCHANGED <<user, mounted, first, key, poll, confirmed, bound, unsaid>>
    BY DEF QrcodeArrives, QrcodeFails, server
<1>4. NoneAfterKey' /\ OpenIsLast' /\ JumpHasRun' /\ MountHasRun' /\ PollHasRun'
  <2>1. NoneAfterKey' /\ OpenIsLast' /\ JumpHasRun' /\ MountHasRun'
      BY <1>0, <1>1, <1>2, <1>3 DEF QrInv, NoneAfterKey, OpenIsLast, JumpHasRun, MountHasRun
  <2>2. \A p \in Polls : poll[p].of # 0 => poll[p].of \in Keys
      BY AnswerHasRun
  <2>3. PollHasRun'
      BY <1>2, <1>3, <2>2 DEF QrInv, PollHasRun
  <2>. QED
      BY <2>1, <2>3
<1>5. LoggedOutIdle'
  <2>1. key # 0 /\ key' = key /\ user' = user
      BY <1>0, <1>3, QrAssumption DEF QrInv, TypeOK, Keys
  <2>. QED
      BY <2>1 DEF QrInv, LoggedOutIdle
<1>6. ASSUME run[k].stopped PROVE QrInv'
  <2>1. run'[k].timer = FALSE /\ img' = img /\ status' = status
      BY <1>2, <1>6 DEF QrcodeArrives, QrcodeFails, Run
  <2>2. TimerIsShown' /\ WaitingIsPolled'
      BY <1>0, <1>2, <1>3, <2>1 DEF QrInv, TimerIsShown, WaitingIsPolled
  <2>3. code' \in [Keys -> {"none", "issued", "used", "gone"}]
        /\ (img # 0 => code'[img] # "none")
    <3>1. code' = code \/ code' = [code EXCEPT ![k] = "issued"]
        BY DEF QrcodeArrives, QrcodeFails, server
    <3>2. img # 0 => img \in Keys
        BY QrAssumption DEF QrInv, TypeOK, Keys
    <3>. QED
        BY <3>1, <3>2 DEF QrInv, TypeOK
  <2>4. TypeOK'
      BY <1>2, <1>3, <2>1, <2>3 DEF QrInv, TypeOK
  <2>. QED
      BY <1>4, <1>5, <2>2, <2>4 DEF QrInv
<1>7. ASSUME ~run[k].stopped, QrcodeArrives(k) PROVE QrInv'
  <2>1. /\ run'[k].timer = TRUE /\ img' = k /\ status' = "waiting"
        /\ code' = [code EXCEPT ![k] = "issued"]
    <3>1. run'[k].timer = ~run[k].stopped
      <4>1. run' = Arrived(run, k)
          BY <1>7 DEF QrcodeArrives, Arrived
      <4>. QED
          BY <1>0, <4>1, ArrivedRuns
    <3>. QED
        BY <1>7, <3>1 DEF QrcodeArrives
  <2>2. TimerIsShown' /\ WaitingIsPolled'
      BY <1>0, <1>1, <1>2, <1>3, <1>7, <2>1 DEF QrInv, TimerIsShown, WaitingIsPolled
  <2>3. img' \in 0..key' /\ img' \in Keys
      BY <1>1, <1>3, <1>7, <2>1, QrAssumption DEF QrInv, TypeOK, Keys
  <2>4. code' \in [Keys -> {"none", "issued", "used", "gone"}] /\ code'[k] # "none"
      BY <2>1 DEF QrInv, TypeOK
  <2>5. TypeOK'
      BY <1>2, <1>3, <2>1, <2>3, <2>4 DEF QrInv, TypeOK, QrStatus
  <2>. QED
      BY <1>4, <1>5, <2>2, <2>5 DEF QrInv
<1>8. ASSUME ~run[k].stopped, QrcodeFails(k) PROVE QrInv'
  <2>1. run' = [run EXCEPT ![k].at = "asked"] /\ status' = "error" /\ img' = img /\ code' = code
      BY <1>8 DEF QrcodeFails, server
  <2>2. run'[k].timer = run[k].timer
    <3>1. run' = At(run, k, "asked")
        BY <2>1 DEF At
    <3>. QED
        BY <1>0, <3>1, AtRuns
  <2>3. TimerIsShown' /\ WaitingIsPolled'
      BY <1>0, <1>2, <1>3, <2>1, <2>2 DEF QrInv, TimerIsShown, WaitingIsPolled
  <2>4. TypeOK'
      BY <1>2, <1>3, <2>1 DEF QrInv, TypeOK, QrStatus
  <2>. QED
      BY <1>4, <1>5, <2>3, <2>4 DEF QrInv
<1>. QED
    BY <1>6, <1>7, <1>8

LEMMA JumpKeepsInv ==
    ASSUME QrInv, NEW k \in Keys, Jump(k)
    PROVE  QrInv'
<1>0. /\ run \in [Keys -> Run] /\ run[k].jump /\ run[k].at # "none"
      /\ UNCHANGED <<user, first, key, status, img, poll, server, unsaid>>
    BY DEF QrInv, TypeOK, Jump, JumpHasRun
<1>1. CASE run[k].stopped
  <2>1. run' = [run EXCEPT ![k].jump = FALSE] /\ mounted' = mounted
      BY <1>1 DEF Jump, QrInv, TypeOK
  <2>2. /\ run' \in [Keys -> Run]
        /\ run'[k].timer = run[k].timer
        /\ run'[k].stopped = run[k].stopped /\ run'[k].at = run[k].at
        /\ \A j \in Keys \ {k} : run'[j] = run[j]
    <3>1. run' = NoJump(run, k)
        BY <2>1 DEF NoJump
    <3>. QED
        BY <1>0, <3>1, NoJumpRuns
  <2>3. Settled(run', k)
      BY <2>2 DEF Settled
  <2>4. TimerIsShown' /\ OpenIsLast' /\ NoneAfterKey' /\ JumpHasRun' /\ MountHasRun'
      BY <1>0, <2>1, <2>3, SettledKeepsRuns
  <2>5. TypeOK'
      BY <1>0, <2>1, <2>2 DEF QrInv, TypeOK, server
  <2>6. LoggedOutIdle' /\ WaitingIsPolled'
      BY <1>0, <2>1, <2>2 DEF QrInv, LoggedOutIdle, WaitingIsPolled
  <2>7. PollHasRun'
      BY <1>0, <2>2, AnswerHasRun DEF QrInv, PollHasRun
  <2>. QED
      BY <2>4, <2>5, <2>6, <2>7 DEF QrInv
<1>2. CASE ~run[k].stopped
  <2>1. run' = [Cleanup EXCEPT ![k].jump = FALSE] /\ mounted' = FALSE
      BY <1>2 DEF Jump
  <2>2. Closed(Cleanup) /\ Cleanup \in [Keys -> Run] /\ ~(k > key)
      BY <1>0, CleanupCloses DEF Closed, QrInv, NoneAfterKey, NotRun
  <2>. DEFINE c == Cleanup
  <2>. HIDE DEF c
  <2>3. /\ run' \in [Keys -> Run]
        /\ run'[k].jump = FALSE /\ run'[k].timer = c[k].timer
        /\ run'[k].stopped = c[k].stopped /\ run'[k].at = c[k].at
        /\ \A j \in Keys \ {k} : run'[j] = c[j]
    <3>1. c \in [Keys -> Run] /\ run' = NoJump(c, k)
        BY <2>1, <2>2 DEF c, NoJump
    <3>. QED
        BY <3>1, NoJumpRuns
  <2>4. Closed(c)
      BY <2>2 DEF c
  <2>5. Closed(run')
      BY <2>2, <2>3, <2>4 DEF Closed
  <2>. QED
      BY <1>0, <2>1, <2>5, LeavingKeepsInv
<1>. QED
    BY <1>1, <1>2

LEMMA ServerKeepsInv ==
    ASSUME QrInv,
           \/ \E k \in Keys : CodeExpires(k)
           \/ \E k \in Keys, p \in Polls : Tick(k, p)
           \/ \E p \in Polls : CheckSaves(p) \/ CheckAnswers(p) \/ Lose(p)
    PROVE  QrInv'
<1>1. ASSUME UNCHANGED page,
             poll' \in [Polls -> [of : 0..key, answer : CheckQrResponse \cup {"none"}]],
             PollHasRun',
             code' \in [Keys -> {"none", "issued", "used", "gone"}],
             \A k \in Keys : code[k] # "none" => code'[k] # "none",
             confirmed' = confirmed, bound' \in BOOLEAN, unsaid' \subseteq Keys
      PROVE  QrInv'
  <2>1. img # 0 => img \in Keys
      BY QrAssumption DEF QrInv, TypeOK, Keys
  <2>2. TypeOK'
      BY <1>1, <2>1 DEF QrInv, TypeOK, page
  <2>. QED
      BY <1>1, <2>2 DEF QrInv, page, TimerIsShown, OpenIsLast, NoneAfterKey,
           JumpHasRun, MountHasRun, LoggedOutIdle, WaitingIsPolled
<1>2. ASSUME NEW k \in Keys, CodeExpires(k) PROVE QrInv'
  <2>1. /\ code' \in [Keys -> {"none", "issued", "used", "gone"}]
        /\ \A j \in Keys : code[j] # "none" => code'[j] # "none"
      BY <1>2 DEF CodeExpires, QrInv, TypeOK
  <2>2. PollHasRun'
      BY <1>2 DEF CodeExpires, page, QrInv, PollHasRun
  <2>. QED
      BY <1>1, <1>2, <2>1, <2>2 DEF CodeExpires, QrInv, TypeOK
<1>3. ASSUME NEW k \in Keys, NEW p \in Polls, Tick(k, p) PROVE QrInv'
  <2>1. k = key /\ k \in 0..key /\ run[k].at = "asked"
      BY <1>3, QrAssumption DEF Tick, QrInv, TypeOK, TimerIsShown, Keys
  <2>2. poll' = [poll EXCEPT ![p] = [of |-> k, answer |-> "none"]]
      BY <1>3 DEF Tick
  <2>3. poll' \in [Polls -> [of : 0..key, answer : CheckQrResponse \cup {"none"}]]
      BY <2>1, <2>2 DEF QrInv, TypeOK
  <2>4. PollHasRun'
      BY <1>3, <2>1, <2>2 DEF Tick, page, QrInv, TypeOK, PollHasRun
  <2>. QED
      BY <1>1, <1>3, <2>3, <2>4 DEF Tick, server, QrInv, TypeOK
<1>4. ASSUME NEW p \in Polls, CheckSaves(p) \/ CheckAnswers(p) PROVE QrInv'
  <2>1. PICK a \in CheckQrResponse : Answer(p, a)
      BY <1>4 DEF CheckSaves, CheckAnswers, CheckQrResponse, Fatal
  <2>2. poll[p].of # 0 /\ poll[p].of \in Keys /\ UNCHANGED <<page, confirmed, unsaid>>
      BY <1>4, AnswerHasRun DEF CheckSaves, CheckAnswers, server
  <2>3. /\ poll' \in [Polls -> [of : 0..key, answer : CheckQrResponse \cup {"none"}]]
        /\ \A q \in Polls : poll'[q].of = poll[q].of
        /\ \A q \in Polls \ {p} : poll'[q] = poll[q]
      BY <2>1 DEF Answer, QrInv, TypeOK
  <2>4. PollHasRun'
      BY <2>2, <2>3 DEF page, QrInv, PollHasRun
  <2>5. /\ code' \in [Keys -> {"none", "issued", "used", "gone"}]
        /\ \A j \in Keys : code[j] # "none" => code'[j] # "none"
        /\ bound' \in BOOLEAN
      BY <1>4, <2>2 DEF CheckSaves, CheckAnswers, server, QrInv, TypeOK
  <2>. QED
      BY <1>1, <2>2, <2>3, <2>4, <2>5 DEF QrInv, TypeOK
<1>5. ASSUME NEW p \in Polls, Lose(p) PROVE QrInv'
  <2>1. poll[p].of \in Keys /\ poll' = [poll EXCEPT ![p] = Idle] /\ UNCHANGED <<page, server>>
      BY <1>5, AnswerHasRun DEF Lose
  <2>2. /\ poll' \in [Polls -> [of : 0..key, answer : CheckQrResponse \cup {"none"}]]
        /\ \A q \in Polls : poll'[q] = poll[q] \/ poll'[q] = Idle
      BY <2>1, TakenPolls
  <2>3. PollHasRun'
      BY <2>1, <2>2 DEF page, Idle, QrInv, PollHasRun
  <2>4. unsaid' \subseteq Keys
      BY <1>5, <2>1 DEF Lose, QrInv, TypeOK
  <2>. QED
      BY <1>1, <2>1, <2>2, <2>3, <2>4 DEF server, QrInv, TypeOK
<1>. QED
    BY <1>2, <1>3, <1>4, <1>5

\* The answers that end or do not end the polling of their run, but no new run.
LEMMA AnswerKeepsInv ==
    ASSUME QrInv, NEW p \in Polls, NEW s \in QrStatus, s # "waiting",
           poll[p].of # 0, poll' = [poll EXCEPT ![p] = Idle],
           Settled(run', poll[p].of),
           Show(poll[p].of, s) \/ (status' = status /\ run' = run),
           UNCHANGED <<user, mounted, first, key, img, server, unsaid>>
    PROVE  QrInv'
<1>. DEFINE k == poll[p].of
<1>1. k \in Keys /\ run[k].at # "none" /\ user = TRUE
    BY AnswerHasRun
<1>2. TimerIsShown' /\ OpenIsLast' /\ NoneAfterKey' /\ JumpHasRun' /\ MountHasRun'
    BY <1>1, SettledKeepsRuns
<1>3. status' = status \/ status' = s
    BY DEF Show
<1>4. LoggedOutIdle'
    BY <1>1 DEF LoggedOutIdle
<1>5. poll' \in [Polls -> [of : 0..key, answer : CheckQrResponse \cup {"none"}]]
      /\ \A q \in Polls : poll'[q] = poll[q] \/ poll'[q] = Idle
    BY TakenPolls
<1>6. PollHasRun'
  <2>1. \A j \in Keys : run'[j].at = run[j].at
      BY <1>1 DEF Settled
  <2>. QED
      BY <1>5, <2>1, AnswerHasRun DEF Idle, QrInv, PollHasRun
<1>7. TypeOK'
    BY <1>3, <1>5 DEF server, Settled, QrInv, TypeOK
<1>8. WaitingIsPolled'
  <2>. SUFFICES ASSUME mounted, status' = "waiting" PROVE \E j \in Keys : run'[j].timer
      BY DEF WaitingIsPolled
  <2>1. status = "waiting"
      BY <1>3
  <2>2. PICK j \in Keys : run[j].timer
      BY <2>1 DEF QrInv, WaitingIsPolled
  <2>3. Live(j) /\ j = key
      BY <2>2, TimerIsLive
  <2>4. ~run[k].timer \/ run' = run
      BY <1>1, <2>2, <2>3, TimerIsLive DEF Show
  <2>5. j # k \/ run' = run
      BY <2>2, <2>4
  <2>. QED
      BY <2>2, <2>5 DEF Settled
<1>. QED
    BY <1>2, <1>4, <1>6, <1>7, <1>8 DEF QrInv

LEMMA ArriveKeepsInv ==
    ASSUME QrInv, NEW p \in Polls, Arrive(p)
    PROVE  QrInv'
<1>. DEFINE k == poll[p].of
<1>1. /\ poll[p].of # 0 /\ poll' = [poll EXCEPT ![p] = Idle] /\ UNCHANGED <<server, unsaid>>
    BY DEF Arrive, OnBound, OnExpired, OnScanned, OnFatal, OnOther, Taken, Fatal,
           QrInv, PollHasRun
<1>2. k \in Keys /\ run[k].at # "none" /\ user = TRUE /\ run \in [Keys -> Run]
    BY <1>1, AnswerHasRun DEF QrInv, TypeOK
<1>3. /\ NoTimer(k) \in [Keys -> Run]
      /\ ~NoTimer(k)[k].timer /\ NoTimer(k)[k].at = run[k].at
      /\ NoTimer(k)[k].stopped = run[k].stopped /\ NoTimer(k)[k].jump = run[k].jump
      /\ \A j \in Keys \ {k} : NoTimer(k)[j] = run[j]
    BY <1>2, NoTimerRuns, Zenon DEF NoTimer
<1>4. Settled(run, k) /\ Settled(NoTimer(k), k)
    BY <1>2, <1>3 DEF Settled
<1>5. CASE OnBound(p)
  <2>1. /\ run' = [NoTimer(k) EXCEPT ![k].jump = TRUE]
        /\ Show(k, "success") /\ UNCHANGED <<user, mounted, first, key, img>>
      BY <1>5 DEF OnBound
  <2>. DEFINE n == NoTimer(k)
  <2>2. /\ n \in [Keys -> Run] /\ ~n[k].timer /\ n[k].at = run[k].at
        /\ n[k].stopped = run[k].stopped /\ \A j \in Keys \ {k} : n[j] = run[j]
      BY <1>3
  <2>3. k \in Keys /\ n \in [Keys -> Run] /\ run' = MayJump(n, k)
      BY <1>2, <2>1, <2>2 DEF MayJump
  <2>. HIDE DEF n, k
  <2>4. /\ run' \in [Keys -> Run] /\ run'[k].timer = n[k].timer /\ run'[k].at = n[k].at
        /\ run'[k].stopped = n[k].stopped /\ \A j \in Keys \ {k} : run'[j] = n[j]
      BY <2>3, MayJumpRuns
  <2>5. Settled(run', k)
      BY <2>2, <2>4 DEF Settled
  <2>6. "success" \in QrStatus
      BY DEF QrStatus
  <2>. QED
      BY <1>1, <2>1, <2>5, <2>6, AnswerKeepsInv DEF k
<1>6. CASE OnExpired(p)
  <2>1. UNCHANGED <<user, mounted, first>>
      BY <1>6 DEF OnExpired
  <2>2. CASE Live(k)
    <3>1. NextRun([Cleanup EXCEPT ![k].timer = FALSE])
        BY <1>6, <2>2 DEF OnExpired
    <3>. DEFINE c == Cleanup  r == [c EXCEPT ![k].timer = FALSE]
    <3>2. Closed(c) /\ c \in [Keys -> Run] /\ ~(k > key)
        BY <1>2, CleanupCloses DEF Closed, QrInv, NoneAfterKey, NotRun
    <3>. HIDE DEF c, k
    <3>3. /\ r \in [Keys -> Run] /\ ~r[k].timer /\ r[k].at = c[k].at
          /\ r[k].stopped = c[k].stopped /\ r[k].jump = c[k].jump
          /\ \A j \in Keys \ {k} : r[j] = c[j]
        BY <1>2, <3>2, NoTimerRuns, Zenon
    <3>. HIDE DEF r
    <3>4. Closed(r)
        BY <3>2, <3>3 DEF Closed
    <3>5. mounted = TRUE /\ user = TRUE /\ first \in 1..key + 1
        BY <1>2, <2>2, QrAssumption DEF Live, QrInv, TypeOK, MountHasRun
    <3>6. NextRun(r)
        BY <3>1 DEF r, c
    <3>7. /\ poll' \in [Polls -> [of : 0..key, answer : CheckQrResponse \cup {"none"}]]
          /\ \A q \in Polls : poll'[q] = poll[q] \/ poll'[q] = Idle
        BY <1>1, TakenPolls
    <3>. QED
        BY <1>1, <2>1, <3>4, <3>5, <3>6, <3>7, NextRunKeepsInv
  <2>3. CASE ~Live(k)
    <3>1. run' = NoTimer(k) /\ UNCHANGED <<key, status, img>>
        BY <1>6, <2>3 DEF OnExpired
    <3>2. Settled(run', k) /\ Show(k, "expired") /\ "expired" \in QrStatus
        BY <1>4, <2>3, <3>1 DEF Show, QrStatus
    <3>. QED
        BY <1>1, <2>1, <3>1, <3>2, AnswerKeepsInv
  <2>. QED
      BY <2>2, <2>3
<1>7. CASE OnScanned(p) \/ OnOther(p)
  <2>1. UNCHANGED <<user, mounted, first, key, run, img>>
        /\ (Show(k, "scanned") \/ status' = status)
      BY <1>7 DEF OnScanned, OnOther, page
  <2>2. Settled(run', k) /\ "scanned" \in QrStatus
      BY <1>4, <2>1 DEF QrStatus
  <2>. QED
      BY <1>1, <2>1, <2>2, AnswerKeepsInv
<1>8. CASE OnFatal(p)
  <2>1. PICK s \in {"device_limit", "network_error"} : Show(k, s)
      BY <1>8 DEF OnFatal
  <2>2. run' = NoTimer(k) /\ UNCHANGED <<user, mounted, first, key, img>>
      BY <1>8 DEF OnFatal
  <2>3. Settled(run', k) /\ s \in QrStatus /\ s # "waiting"
      BY <1>4, <2>2 DEF QrStatus
  <2>. QED
      BY <1>1, <2>1, <2>2, <2>3, AnswerKeepsInv
<1>. QED
    BY <1>5, <1>6, <1>7, <1>8 DEF Arrive

-----------------------------------------------------------------------------
(* The theorems.                                                            *)

LEMMA NextKeepsInv == QrInv /\ [Next]_vars => QrInv'
<1>. SUFFICES ASSUME QrInv, [Next]_vars PROVE QrInv'
    OBVIOUS
<1>1. CASE Next
    BY <1>1, UserKeepsInv, QrcodeKeepsInv, JumpKeepsInv, ServerKeepsInv, ArriveKeepsInv
       DEF Next
<1>2. CASE UNCHANGED vars
    BY <1>2 DEF vars, page, server, QrInv, TypeOK, TimerIsShown, OpenIsLast, NoneAfterKey,
           JumpHasRun, MountHasRun, LoggedOutIdle, WaitingIsPolled, PollHasRun
<1>. QED
    BY <1>1, <1>2

\* The inductive invariant holds in every state, whatever run an answer comes from.
THEOREM QrInvAlways == Spec => []QrInv
<1>. QED
    BY InitHolds, NextKeepsInv, PTL DEF Spec

\* Every run, poll and code of the page stays of its type, whatever the order in
\* which codes and answers arrive.
THEOREM QrTypeCorrect == Spec => []TypeOK
<1>1. QrInv => TypeOK
    BY DEF QrInv
<1>. QED
    BY <1>1, QrInvAlways, PTL

\* Only the code on the screen is ever polled, and a page that waits polls, for any
\* number of codes asked for and of polls that overlap.
THEOREM PolledAlwaysShown == Spec => []PolledIsShown
<1>1. QrInv => PolledIsShown
    BY DEF QrInv, TimerIsShown, WaitingIsPolled, PolledIsShown
<1>. QED
    BY <1>1, QrInvAlways, PTL

\* No step of Next but the jump of a run takes its jump away and the page with it;
\* the run that jumps was not stopped, so it is the last.
LEMMA StepJumpsLast ==
    QrInv /\ [Next]_vars =>
        [\A k \in Keys : mounted /\ ~mounted' /\ run[k].jump /\ ~run'[k].jump
                            => k = key /\ Live(k)]_vars
<1>. SUFFICES ASSUME QrInv, Next, NEW k \in Keys,
                     mounted, ~mounted', run[k].jump, ~run'[k].jump
              PROVE  k = key /\ Live(k)
    BY DEF vars
<1>1. PICK j \in Keys : Jump(j)
  <2>1. ~Leave /\ ~LogIn
    <3>1. ~Leave
        BY CleanupRuns DEF Leave
    <3>2. ~LogIn
        BY DEF LogIn
    <3>. QED
        BY <3>1, <3>2
  <2>2. ~ \E p \in Polls : Arrive(p)
      BY DEF Arrive, OnBound, OnExpired, OnScanned, OnFatal, OnOther, page
  <2>. QED
      BY <2>1, <2>2 DEF Next, User, Mount, MountLoggedOut, Retry, Confirm, QrcodeArrives,
         QrcodeFails, CodeExpires, Tick, CheckSaves, CheckAnswers, Lose, page
<1>2. ~run[j].stopped /\ run[j].jump /\ run[j].at # "none" /\ j = key
    BY <1>1 DEF Jump, QrInv, TypeOK, JumpHasRun, OpenIsLast
<1>3. j = k
  <2>. SUFFICES ASSUME j # k PROVE FALSE
      OBVIOUS
  <2>1. run'[k] = Cleanup[k]
    <3>1. Cleanup \in [Keys -> Run] /\ run' = [Cleanup EXCEPT ![j].jump = FALSE]
        BY <1>1, <1>2, CleanupRuns DEF Jump
    <3>. DEFINE c == Cleanup
    <3>2. c \in [Keys -> Run] /\ run' = [c EXCEPT ![j].jump = FALSE]
        BY <3>1
    <3>. HIDE DEF c
    <3>3. run'[k] = c[k]
        BY <3>2
    <3>. QED
        BY <3>3 DEF c
  <2>. QED
      BY <2>1, CleanupRuns
<1>4. user = TRUE
    BY <1>2, QrAssumption DEF QrInv, TypeOK, LoggedOutIdle, Keys
<1>. QED
    BY <1>2, <1>3, <1>4, QrAssumption DEF QrInv, MountHasRun, Live, TypeOK

\* A success that is answered late takes nobody off a page he went back to, nor off
\* the next code: only the last run on the screen jumps.
THEOREM JumpsOnlyLast == Spec => OnlyLastJumps
<1>. QED
    BY QrInvAlways, StepJumpsLast, PTL DEF Spec, OnlyLastJumps

=============================================================================
