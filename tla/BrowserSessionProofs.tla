------------------------ MODULE BrowserSessionProofs ------------------------
(***************************************************************************)
(* Proofs about BrowserSession for every number of tabs, requests and      *)
(* tokens.                                                                 *)
(***************************************************************************)
EXTENDS BrowserSession, TLAPS

\* No token in the browser is newer than the last one issued.
TokensIssued ==
    /\ storage.token <= issued
    /\ \A t \in Tabs, r \in Requests : req[t][r].token <= issued

\* The inductive invariant.
SessionInv == TypeOK /\ WaitersHaveCall /\ TokensIssued

\* What req holds, per tab and request.
Request == [pc : Labels, token : 0..MaxTokens, kind : Kinds]

-----------------------------------------------------------------------------
LEMMA IdleIsRequest ==
    /\ IdleRequest \in Request /\ Quiet \in [Requests -> Request]
    /\ \A r \in Requests : Quiet[r].pc = "idle" /\ Quiet[r].token = 0
    BY MaxTokensAssumption DEF IdleRequest, Quiet, Request, Labels, Kinds

LEMMA OneIsRequest == OneRequest \in Requests
    BY TabsAssumption DEF OneRequest

LEMMA InitInv == Init => SessionInv
<1>. SUFFICES ASSUME Init PROVE SessionInv
    OBVIOUS
<1>1. req \in [Tabs -> [Requests -> Request]]
    BY IdleIsRequest DEF Init
<1>2. 0 \in 0..MaxTokens /\ 0 \in 0..0
    BY MaxTokensAssumption
<1>3. /\ storage \in [token : 0..MaxTokens, refresh : RefreshTokens]
      /\ tab \in [Tabs -> [page : Pages, refreshing : Calls]]
    BY <1>2 DEF Init, NoTokens, RefreshTokens, Pages, Calls
<1>4. TypeOK
    BY <1>1, <1>2, <1>3 DEF Init, TypeOK, Request
<1>5. WaitersHaveCall /\ TokensIssued
    BY IdleIsRequest DEF Init, WaitersHaveCall, TokensIssued, NoTokens
<1>. QED
    BY <1>4, <1>5 DEF SessionInv

\* Leaving a page quietens its tab and leaves the others alone.
LEMMA LeaveKeepsInv ==
    ASSUME SessionInv, NEW t \in Tabs, Leave(t),
           UNCHANGED <<issued, expired, refreshOver, qqOver>>
    PROVE  SessionInv'
<1>1. TypeOK'
    BY IdleIsRequest, MaxTokensAssumption
    DEF SessionInv, TypeOK, Leave, NoTokens, RefreshTokens, Pages, Calls, Request
<1>2. WaitersHaveCall'
    BY IdleIsRequest DEF SessionInv, TypeOK, Leave, WaitersHaveCall
<1>3. TokensIssued'
    BY IdleIsRequest DEF SessionInv, TypeOK, Leave, NoTokens, TokensIssued
<1>. QED
    BY <1>1, <1>2, <1>3 DEF SessionInv

\* A request that goes on to a label other than waiting, with a token that was issued.
LEMMA RequestKeepsInv ==
    ASSUME SessionInv, NEW t \in Tabs, NEW r \in Requests, NEW q \in Request,
           q.pc # "waiting", q.token <= issued,
           req' = [req EXCEPT ![t][r] = q],
           UNCHANGED <<storage, tab, issued, expired, refreshOver, qqOver>>
    PROVE  SessionInv'
<1>1. TypeOK'
    BY DEF SessionInv, TypeOK, Request
<1>2. WaitersHaveCall' /\ TokensIssued'
    BY DEF SessionInv, TypeOK, WaitersHaveCall, TokensIssued
<1>. QED
    BY <1>1, <1>2 DEF SessionInv

-----------------------------------------------------------------------------
LEMMA RefusedKeepsInv ==
    ASSUME SessionInv, NEW t \in Tabs, NEW r \in Requests, Refused(t, r)
    PROVE  SessionInv'
<1>1. req[t][r] \in Request
    BY DEF SessionInv, TypeOK, Request
<1>2. TypeOK'
    BY <1>1 DEF SessionInv, TypeOK, Refused, RefreshTokens, Calls, Labels, Request
<1>3. WaitersHaveCall'
    BY DEF SessionInv, TypeOK, Refused, WaitersHaveCall
<1>4. TokensIssued'
    BY DEF SessionInv, TypeOK, Refused, TokensIssued
<1>. QED
    BY <1>2, <1>3, <1>4 DEF SessionInv

LEMMA WokenType ==
    ASSUME SessionInv, issued < MaxTokens, NEW q \in Request, q.token <= issued
    PROVE  /\ Woken(q, issued + 1) \in Request
           /\ Woken(q, issued + 1).pc # "waiting"
           /\ Woken(q, issued + 1).token <= issued + 1
           /\ Woken(q, issued + 1).pc = "resent" /\ q.pc = "waiting"
                => Woken(q, issued + 1).token = issued + 1
<1>. DEFINE sent == [q EXCEPT !.pc = "resent", !.token = issued + 1]
<1>1. issued + 1 \in 0..MaxTokens /\ q.token <= issued + 1 /\ issued + 1 <= issued + 1
    BY MaxTokensAssumption DEF SessionInv, TypeOK, Request
<1>2. sent \in Request /\ sent.pc = "resent" /\ sent.token = issued + 1
    BY <1>1 DEF Request, Labels
<1>3. CASE q.pc = "waiting"
  <2>1. Woken(q, issued + 1) = sent
      BY <1>3 DEF Woken
  <2>. QED
      BY <1>1, <1>2, <2>1
<1>4. CASE q.pc # "waiting"
    BY <1>1, <1>4 DEF Woken
<1>. QED
    BY <1>3, <1>4

\* What Refreshed does to req, request by request.
LEMMA RefreshedRequests ==
    ASSUME SessionInv, NEW t \in Tabs, Refreshed(t)
    PROVE  /\ \A r \in Requests : /\ req[t][r] \in Request
                                  /\ req'[t][r] = Woken(req[t][r], issued + 1)
           /\ \A s \in Tabs \ {t} : req'[s] = req[s] /\ req[s] \in [Requests -> Request]
           /\ req' = [req EXCEPT ![t] =
                         [r \in Requests |-> Woken(req[t][r], issued + 1)]]
<1>1. req \in [Tabs -> [Requests -> Request]]
    BY DEF SessionInv, TypeOK, Request
<1>2. req' = [req EXCEPT ![t] = [r \in Requests |-> Woken(req[t][r], issued + 1)]]
    BY DEF Refreshed
<1>3. req'[t] = [r \in Requests |-> Woken(req[t][r], issued + 1)]
    BY <1>1, <1>2
<1>4. \A s \in Tabs \ {t} : req'[s] = req[s] /\ req[s] \in [Requests -> Request]
    BY <1>1, <1>2
<1>5. \A r \in Requests : /\ req[t][r] \in Request
                          /\ req'[t][r] = Woken(req[t][r], issued + 1)
    BY <1>1, <1>3
<1>. QED
    BY <1>2, <1>4, <1>5

LEMMA RefreshedKeepsInv ==
    ASSUME SessionInv, NEW t \in Tabs, Refreshed(t)
    PROVE  SessionInv'
<1>1. issued < MaxTokens
    BY DEF Refreshed
<1>2. \A r \in Requests : /\ req'[t][r] \in Request
                          /\ req'[t][r].pc # "waiting"
                          /\ req'[t][r].token <= issued + 1
    BY <1>1, WokenType, RefreshedRequests DEF SessionInv, TokensIssued
<1>3. [r \in Requests |-> Woken(req[t][r], issued + 1)] \in [Requests -> Request]
    BY <1>2, RefreshedRequests
<1>4. req' \in [Tabs -> [Requests -> Request]]
    BY <1>3, RefreshedRequests DEF SessionInv, TypeOK, Request
<1>5. issued' \in 0..MaxTokens /\ expired' \in 0..issued'
    BY <1>1, MaxTokensAssumption DEF Refreshed, SessionInv, TypeOK
<1>6. /\ storage' \in [token : 0..MaxTokens, refresh : RefreshTokens]
      /\ tab' \in [Tabs -> [page : Pages, refreshing : Calls]]
    BY <1>5 DEF Refreshed, SessionInv, TypeOK, RefreshTokens, Calls
<1>7. TypeOK'
    BY <1>4, <1>5, <1>6 DEF Refreshed, SessionInv, TypeOK, Request
<1>8. WaitersHaveCall'
  <2>1. \A s \in Tabs \ {t} : tab'[s] = tab[s]
      BY DEF SessionInv, TypeOK, Refreshed
  <2>. QED
      BY <1>2, <2>1, RefreshedRequests DEF SessionInv, WaitersHaveCall
<1>9. TokensIssued'
  <2>1. \A s \in Tabs \ {t}, r \in Requests : req'[s][r].token <= issued + 1
    <3>1. \A s \in Tabs \ {t}, r \in Requests :
            req'[s][r].token = req[s][r].token /\ req[s][r].token \in 0..MaxTokens
        BY RefreshedRequests DEF Request
    <3>. QED
        BY <3>1, MaxTokensAssumption DEF SessionInv, TypeOK, TokensIssued
  <2>2. issued' = issued + 1 /\ storage'.token = issued + 1 /\ issued + 1 \in Nat
      BY <1>5 DEF Refreshed, SessionInv, TypeOK
  <2>. QED
      BY <1>2, <2>1, <2>2 DEF TokensIssued
<1>. QED
    BY <1>7, <1>8, <1>9 DEF SessionInv

LEMMA NextKeepsInv == SessionInv /\ [Next]_vars => SessionInv'
<1>. SUFFICES ASSUME SessionInv, [Next]_vars PROVE SessionInv'
    OBVIOUS
<1>1. CASE UNCHANGED vars
    BY <1>1 DEF vars, SessionInv, TypeOK, WaitersHaveCall, TokensIssued
<1>2. CASE AccessExpires \/ RefreshExpires \/ QqChanges
  <2>1. expired' \in 0..issued'
      BY <1>2 DEF AccessExpires, RefreshExpires, QqChanges, SessionInv, TypeOK
  <2>2. /\ UNCHANGED <<storage, tab, req, issued>>
        /\ refreshOver' \in BOOLEAN /\ qqOver' \in BOOLEAN
      BY <1>2 DEF AccessExpires, RefreshExpires, QqChanges, SessionInv, TypeOK
  <2>. QED
      BY <2>1, <2>2 DEF SessionInv, TypeOK, WaitersHaveCall, TokensIssued
<1>3. ASSUME NEW t \in Tabs, Login(t) PROVE SessionInv'
  <2>1. /\ issued' = issued + 1 /\ issued' \in 0..MaxTokens
        /\ expired' \in 0..issued'
      BY <1>3, MaxTokensAssumption DEF Login, SessionInv, TypeOK
  <2>2. /\ storage' \in [token : 0..MaxTokens, refresh : RefreshTokens]
        /\ storage'.token <= issued'
        /\ tab' \in [Tabs -> [page : Pages, refreshing : Calls]]
      BY <1>3, <2>1 DEF Login, SessionInv, TypeOK, RefreshTokens, Pages
  <2>3. TypeOK'
      BY <1>3, <2>1, <2>2 DEF Login, SessionInv, TypeOK
  <2>4. WaitersHaveCall'
      BY <1>3 DEF Login, SessionInv, TypeOK, WaitersHaveCall
  <2>5. TokensIssued'
    <3>1. \A s \in Tabs, r \in Requests :
            req'[s][r] = req[s][r] /\ req[s][r].token \in 0..MaxTokens
        BY <1>3 DEF Login, SessionInv, TypeOK
    <3>2. issued \in Nat
        BY MaxTokensAssumption DEF SessionInv, TypeOK
    <3>. QED
        BY <2>1, <2>2, <3>1, <3>2, MaxTokensAssumption DEF SessionInv, TokensIssued
  <2>. QED
      BY <2>3, <2>4, <2>5 DEF SessionInv
<1>4. ASSUME NEW t \in Tabs, LoginWrong(t) PROVE SessionInv'
  <2>1. [pc |-> "sent", token |-> storage.token, kind |-> "wrong"] \in Request
      BY DEF SessionInv, TypeOK, Request, Labels, Kinds
  <2>. QED
      BY <1>4, <2>1, OneIsRequest, RequestKeepsInv
      DEF LoginWrong, SessionInv, TokensIssued
<1>5. ASSUME NEW t \in Tabs, Open(t) PROVE SessionInv'
    BY <1>5 DEF Open, SessionInv, TypeOK, Pages, WaitersHaveCall, TokensIssued
<1>6. ASSUME NEW t \in Tabs, Logout(t) \/ RefreshRefused(t) \/ RefreshFails(t)
      PROVE  SessionInv'
    BY <1>6, LeaveKeepsInv DEF Logout, RefreshRefused, RefreshFails
<1>7. ASSUME NEW t \in Tabs, NEW r \in Requests, NEW kind \in {"plain", "qq"},
             Send(t, r, kind)
      PROVE  SessionInv'
  <2>1. [pc |-> "sent", token |-> storage.token, kind |-> kind] \in Request
      BY DEF SessionInv, TypeOK, Request, Labels, Kinds
  <2>. QED
      BY <1>7, <2>1, RequestKeepsInv DEF Send, SessionInv, TokensIssued
<1>8. ASSUME NEW t \in Tabs, NEW r \in Requests, Answered(t, r) \/ RefusedAgain(t, r)
      PROVE  SessionInv'
  <2>1. 0 <= issued
      BY MaxTokensAssumption DEF SessionInv, TypeOK
  <2>. QED
      BY <1>8, <2>1, IdleIsRequest, RequestKeepsInv
      DEF Answered, RefusedAgain, IdleRequest
<1>9. ASSUME NEW t \in Tabs, NEW r \in Requests, RefusedLoggedOut(t, r)
      PROVE  SessionInv'
    BY <1>9, LeaveKeepsInv DEF RefusedLoggedOut
<1>. QED
    BY <1>1, <1>2, <1>3, <1>4, <1>5, <1>6, <1>7, <1>8, <1>9,
       RefusedKeepsInv, RefreshedKeepsInv
    DEF Next, RefreshEnds, Responses

-----------------------------------------------------------------------------
(* Theorems.                                                                *)

LEMMA AlwaysInv == Spec => []SessionInv
    BY InitInv, NextKeepsInv, PTL DEF Spec

\* The type invariant of the tokens, tabs and requests.
THEOREM SessionTypeCorrect == Spec => []TypeOK
<1>1. SessionInv => TypeOK
    BY DEF SessionInv
<1>. QED
    BY <1>1, AlwaysInv, PTL

\* A waiting request has a refresh to wait for, however many are refused at once
\* and whatever the other tabs do to the tokens meanwhile.
THEOREM WaitersAlwaysHaveCall == Spec => []WaitersHaveCall
<1>1. SessionInv => WaitersHaveCall
    BY DEF SessionInv
<1>. QED
    BY <1>1, AlwaysInv, PTL

\* A step wakes a waiting request with a token newer than its own and than all that
\* have expired.
LEMMA StepRetriesFresh ==
    ASSUME SessionInv, [Next]_vars,
           NEW t \in Tabs, NEW r \in Requests,
           req[t][r].pc = "waiting", req'[t][r].pc = "resent"
    PROVE  req'[t][r].token > req[t][r].token /\ req'[t][r].token > expired
<1>1. ASSUME NEW s \in Tabs, Leave(s) PROVE FALSE
    BY <1>1, IdleIsRequest DEF Leave, SessionInv, TypeOK
<1>2. ASSUME NEW s \in Tabs, NEW p \in Requests, NEW q \in Request, q.pc # "resent",
             req' = [req EXCEPT ![s][p] = q]
      PROVE  FALSE
    BY <1>2 DEF SessionInv, TypeOK
<1>3. CASE req' = req
    BY <1>3
<1>4. ASSUME NEW s \in Tabs, Refreshed(s)
      PROVE  req'[t][r].token > req[t][r].token /\ req'[t][r].token > expired
  <2>1. s = t
      BY <1>4, RefreshedRequests
  <2>2. req'[t][r].token = issued + 1
    <3>1. req[t][r] \in Request /\ req'[t][r] = Woken(req[t][r], issued + 1)
        BY <1>4, <2>1, RefreshedRequests
    <3>2. issued < MaxTokens /\ req[t][r].token <= issued
        BY <1>4 DEF Refreshed, SessionInv, TokensIssued
    <3>. QED
        BY <3>1, <3>2, WokenType
  <2>3. req[t][r].token <= issued /\ req[t][r].token \in Nat
        /\ expired <= issued /\ expired \in Nat /\ issued \in Nat
      BY MaxTokensAssumption DEF SessionInv, TypeOK, TokensIssued
  <2>. QED
      BY <2>2, <2>3
<1>6. ASSUME NEW s \in Tabs, LoginWrong(s) PROVE FALSE
  <2>1. [pc |-> "sent", token |-> storage.token, kind |-> "wrong"] \in Request
      BY DEF SessionInv, TypeOK, Request, Labels, Kinds
  <2>. QED
      BY <1>6, <2>1, <1>2, OneIsRequest DEF LoginWrong
<1>7. ASSUME NEW s \in Tabs, NEW p \in Requests, NEW kind \in {"plain", "qq"},
             Send(s, p, kind)
      PROVE  FALSE
  <2>1. [pc |-> "sent", token |-> storage.token, kind |-> kind] \in Request
      BY DEF SessionInv, TypeOK, Request, Labels, Kinds
  <2>. QED
      BY <1>7, <2>1, <1>2 DEF Send
<1>8. ASSUME NEW s \in Tabs, NEW p \in Requests, Answered(s, p) \/ RefusedAgain(s, p)
      PROVE  FALSE
    BY <1>8, <1>2, IdleIsRequest DEF Answered, RefusedAgain, IdleRequest
<1>9. ASSUME NEW s \in Tabs, NEW p \in Requests, Refused(s, p) PROVE FALSE
    BY <1>9 DEF Refused, SessionInv, TypeOK
<1>10. ASSUME NEW s \in Tabs, Logout(s) \/ RefreshRefused(s) \/ RefreshFails(s)
       PROVE  FALSE
    BY <1>10, <1>1 DEF Logout, RefreshRefused, RefreshFails
<1>11. ASSUME NEW s \in Tabs, NEW p \in Requests, RefusedLoggedOut(s, p) PROVE FALSE
    BY <1>11, <1>1 DEF RefusedLoggedOut
<1>12. CASE \/ UNCHANGED vars \/ AccessExpires \/ RefreshExpires \/ QqChanges
            \/ \E s \in Tabs : Login(s) \/ Open(s)
    BY <1>12, <1>3
    DEF vars, AccessExpires, RefreshExpires, QqChanges, Login, Open
<1>. QED
    BY <1>4, <1>6, <1>7, <1>8, <1>9, <1>10, <1>11, <1>12
    DEF Next, RefreshEnds, Responses

\* The retry of a refused request is never spent on a token that had expired, in
\* any number of tabs that refresh at the same time.
THEOREM RetriesAlwaysFresh == Spec => RetryHasFreshToken
<1>. DEFINE Fresh == \A t \in Tabs, r \in Requests :
                        req[t][r].pc = "waiting" /\ req'[t][r].pc = "resent"
                            => req'[t][r].token > req[t][r].token
                               /\ req'[t][r].token > expired
<1>1. SessionInv /\ [Next]_vars => [Fresh]_vars
    BY StepRetriesFresh
<1>. HIDE DEF Fresh
<1>2. Spec => [][Fresh]_vars
    BY <1>1, AlwaysInv, PTL DEF Spec
<1>. QED
    BY <1>2 DEF Fresh, RetryHasFreshToken

=============================================================================
