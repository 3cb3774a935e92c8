---------------------------- MODULE BrowserSession ----------------------------
(***************************************************************************)
(* The account session in the browser: the tokens in localStorage, which   *)
(* all tabs share, and the axios interceptors of every tab                 *)
(* (frontend/src/api.ts), against the endpoints that issue tokens          *)
(* (backend/app/api/auth.py) and the two reasons for an answer 401: the    *)
(* account token has expired, or the QQ Music login has                    *)
(* (backend/app/qqmusic/credential_store.py).  The interceptors also take  *)
(* the 401 of a wrong password (frontend/src/pages/Login.tsx) for one of   *)
(* them.                                                                   *)
(***************************************************************************)
EXTENDS Naturals

CONSTANTS
    Tabs,       \* browser tabs, each with its own interceptors
    Requests,   \* requests a tab may have in flight
    MaxTokens,  \* bound on the access tokens issued
    BusyTabs    \* bound: tabs that have several requests in flight, and such that need
                \* the QQ Music login; the others have one at a time

ASSUME MaxTokensAssumption == MaxTokens \in Nat
ASSUME TabsAssumption ==
    BusyTabs \subseteq Tabs /\ Requests # {}

VARIABLES
    storage,    \* localStorage: access token (0: none) and refresh token
    tab,        \* per tab: the page, and the refresh call it has in flight
    req,        \* per tab and request: label, token sent, what it asks for
    issued,     \* access tokens issued so far
    expired,    \* access tokens up to this one have expired
    refreshOver,\* has the life of the refresh token of the last login ended?
    qqOver      \* has the QQ Music login ended (cannot be refreshed)?

vars == <<storage, tab, req, issued, expired, refreshOver, qqOver>>

\* What localStorage holds under "refresh": nothing, the token of the login, or
\* the string that setItem makes of a missing refresh_token.
RefreshTokens == {"none", "login", "undefined"}

Pages == {"app", "login"}
Calls == {"none", "login", "undefined"}     \* the token doRefresh has sent
Labels == {"idle", "sent", "waiting", "resent"}

\* Requests with the account only, those that need QQ Music, and a login with a wrong
\* password.
Kinds == {"plain", "qq", "wrong"}

TypeOK ==
    /\ storage \in [token : 0..MaxTokens, refresh : RefreshTokens]
    /\ tab \in [Tabs -> [page : Pages, refreshing : Calls]]
    /\ req \in [Tabs -> [Requests -> [pc : Labels, token : 0..MaxTokens,
                                      kind : Kinds]]]
    /\ issued \in 0..MaxTokens
    /\ expired \in 0..issued
    /\ refreshOver \in BOOLEAN
    /\ qqOver \in BOOLEAN

NoTokens == [token |-> 0, refresh |-> "none"]
IdleRequest == [pc |-> "idle", token |-> 0, kind |-> "plain"]
OneRequest == CHOOSE r \in Requests : TRUE
Quiet == [r \in Requests |-> IdleRequest]

Init ==
    /\ storage = NoTokens
    /\ tab = [t \in Tabs |-> [page |-> "login", refreshing |-> "none"]]
    /\ req = [t \in Tabs |-> Quiet]
    /\ issued = 0
    /\ expired = 0
    /\ refreshOver = FALSE
    /\ qqOver = FALSE

-----------------------------------------------------------------------------
(* Leaving the application: the page is loaded anew, whatever was in flight  *)
(* is gone with it.                                                          *)

Leave(t) ==
    /\ storage' = NoTokens
    /\ tab' = [tab EXCEPT ![t] = [page |-> "login", refreshing |-> "none"]]
    /\ req' = [req EXCEPT ![t] = Quiet]

\* The pages behind ProtectedRoute, and the login page.
AppPage(t) == tab[t].page = "app"
LoginPage(t) == tab[t].page = "login"

\* POST /login: both tokens.  While a login is on its way the button is disabled.
Login(t) ==
    /\ LoginPage(t) /\ req[t] = Quiet
    /\ issued < MaxTokens
    /\ issued' = issued + 1
    /\ storage' = [token |-> issued + 1, refresh |-> "login"]
    /\ tab' = [tab EXCEPT ![t].page = "app"]
    /\ refreshOver' = FALSE
    /\ UNCHANGED <<req, expired, qqOver>>

\* A wrong password; another tab may be logged in.
LoginWrong(t) ==
    /\ LoginPage(t) /\ req[t] = Quiet
    /\ req' = [req EXCEPT ![t][OneRequest] = [pc |-> "sent", token |-> storage.token,
                                              kind |-> "wrong"]]
    /\ UNCHANGED <<storage, tab, issued, expired, refreshOver, qqOver>>

\* GET /me is answered: the tab is opened, or looked at again, while another one is
\* logged in.
Open(t) ==
    /\ LoginPage(t)
    /\ storage.token > expired
    /\ tab' = [tab EXCEPT ![t].page = "app"]
    /\ UNCHANGED <<storage, req, issued, expired, refreshOver, qqOver>>

Logout(t) ==
    /\ AppPage(t)
    /\ Leave(t)
    /\ UNCHANGED <<issued, expired, refreshOver, qqOver>>

\* Time passes: minutes, days, and the credential at QQ Music.
AccessExpires ==
    /\ expired < issued
    /\ expired' = issued
    /\ UNCHANGED <<storage, tab, req, issued, refreshOver, qqOver>>

RefreshExpires ==
    /\ issued > 0 /\ ~refreshOver
    /\ refreshOver' = TRUE
    /\ UNCHANGED <<storage, tab, req, issued, expired, qqOver>>

QqChanges ==
    /\ qqOver' = ~qqOver
    /\ UNCHANGED <<storage, tab, req, issued, expired, refreshOver>>

-----------------------------------------------------------------------------
(* Requests.                                                                *)

\* The request interceptor adds the token of localStorage, if there is one.
Send(t, r, kind) ==
    /\ AppPage(t)
    /\ req[t][r].pc = "idle"
    /\ t \in BusyTabs \/ r = OneRequest
    /\ req' = [req EXCEPT ![t][r] = [pc |-> "sent", token |-> storage.token,
                                     kind |-> kind]]
    /\ UNCHANGED <<storage, tab, issued, expired, refreshOver, qqOver>>

\* get_current_user first, get_valid_credential after it; login asks for no token.
Unauthorized(q) ==
    CASE q.kind = "wrong" -> TRUE
      [] q.kind = "qq" -> q.token <= expired \/ qqOver
      [] q.kind = "plain" -> q.token <= expired

Answered(t, r) ==
    /\ req[t][r].pc \in {"sent", "resent"}
    /\ ~Unauthorized(req[t][r])
    /\ req' = [req EXCEPT ![t][r] = IdleRequest]
    /\ UNCHANGED <<storage, tab, issued, expired, refreshOver, qqOver>>

\* The first 401: join the refresh in flight, or start one.
Refused(t, r) ==
    /\ req[t][r].pc = "sent"
    /\ Unauthorized(req[t][r])
    /\ tab[t].refreshing # "none" \/ storage.refresh # "none"
    /\ req' = [req EXCEPT ![t][r].pc = "waiting"]
    /\ tab' = IF tab[t].refreshing # "none" THEN tab
              ELSE [tab EXCEPT ![t].refreshing = storage.refresh]
    /\ UNCHANGED <<storage, issued, expired, refreshOver, qqOver>>

\* doRefresh finds no refresh token: another tab has left.
RefusedLoggedOut(t, r) ==
    /\ req[t][r].pc = "sent"
    /\ Unauthorized(req[t][r])
    /\ tab[t].refreshing = "none" /\ storage.refresh = "none"
    /\ Leave(t)
    /\ UNCHANGED <<issued, expired, refreshOver, qqOver>>

\* The 401 of the request sent again goes to the caller.
RefusedAgain(t, r) ==
    /\ req[t][r].pc = "resent"
    /\ Unauthorized(req[t][r])
    /\ req' = [req EXCEPT ![t][r] = IdleRequest]
    /\ UNCHANGED <<storage, tab, issued, expired, refreshOver, qqOver>>

\* Fault: the requests that joined are not woken.
RefreshedWakesNobody(t) ==
    /\ tab[t].refreshing = "login"
    /\ ~refreshOver
    /\ issued < MaxTokens
    /\ issued' = issued + 1
    /\ storage' = [token |-> issued + 1, refresh |-> "undefined"]
    /\ tab' = [tab EXCEPT ![t].refreshing = "none"]
    /\ UNCHANGED <<req, expired, refreshOver, qqOver>>

\* Fault: the request is sent again as it was.
RefreshedResendsOld(t) ==
    /\ tab[t].refreshing = "login"
    /\ ~refreshOver
    /\ issued < MaxTokens
    /\ issued' = issued + 1
    /\ storage' = [token |-> issued + 1, refresh |-> "undefined"]
    /\ tab' = [tab EXCEPT ![t].refreshing = "none"]
    /\ req' = [req EXCEPT ![t] = [r \in Requests |->
                  IF @[r].pc = "waiting" THEN [@[r] EXCEPT !.pc = "resent"]
                  ELSE @[r]]]
    /\ UNCHANGED <<expired, refreshOver, qqOver>>

\* A request that waited for the refresh is sent again with the new token.
Woken(q, token) ==
    IF q.pc = "waiting" THEN [q EXCEPT !.pc = "resent", !.token = token] ELSE q

\* POST /refresh answers an access token only; setToken stores both names.
Refreshed(t) ==
    /\ tab[t].refreshing = "login"
    /\ ~refreshOver
    /\ issued < MaxTokens
    /\ issued' = issued + 1
    /\ storage' = [token |-> issued + 1, refresh |-> "undefined"]
    /\ tab' = [tab EXCEPT ![t].refreshing = "none"]
    /\ req' = [req EXCEPT ![t] = [r \in Requests |-> Woken(req[t][r], issued + 1)]]
    /\ UNCHANGED <<expired, refreshOver, qqOver>>

\* The server does not accept the refresh token: the tokens are cleared.
RefreshRefused(t) ==
    /\ \/ tab[t].refreshing = "undefined"
       \/ tab[t].refreshing = "login" /\ refreshOver
    /\ Leave(t)
    /\ UNCHANGED <<issued, expired, refreshOver, qqOver>>

\* The call fails otherwise (network, 5xx): cleared just the same.
RefreshFails(t) ==
    /\ tab[t].refreshing # "none"
    /\ Leave(t)
    /\ UNCHANGED <<issued, expired, refreshOver, qqOver>>

-----------------------------------------------------------------------------
Responses(t, r) ==
    Answered(t, r) \/ Refused(t, r) \/ RefusedLoggedOut(t, r)
    \/ RefusedAgain(t, r)

RefreshEnds(t) == Refreshed(t) \/ RefreshRefused(t) \/ RefreshFails(t)

Next ==
    \/ AccessExpires \/ RefreshExpires \/ QqChanges
    \/ \E t \in Tabs :
          \/ Login(t) \/ LoginWrong(t) \/ Open(t) \/ Logout(t)
          \/ RefreshEnds(t)
          \/ \E r \in Requests : \/ Send(t, r, "plain")
                                 \/ t \in BusyTabs /\ Send(t, r, "qq")
                                 \/ Responses(t, r)

\* Every call is answered or fails: nginx cuts what takes too long, and the browser
\* reports a lost connection (axios sets no timeout).
Fairness ==
    \A t \in Tabs : /\ WF_vars(RefreshEnds(t))
                    /\ \A r \in Requests : WF_vars(Responses(t, r))

Spec == Init /\ [][Next]_vars
FairSpec == Spec /\ Fairness

-----------------------------------------------------------------------------
(* Properties.                                                              *)

\* A request is sent again only with a token newer than any that had expired
\* when it was refused, also when two tabs refresh at the same time: the retry,
\* which there is only one of, is not spent on the token just refused.
RetryHasFreshToken ==
    [][\A t \in Tabs, r \in Requests :
          req[t][r].pc = "waiting" /\ req'[t][r].pc = "resent"
              => req'[t][r].token > req[t][r].token
                 /\ req'[t][r].token > expired]_vars

\* A request waits only while the refresh call it has joined is in flight: no
\* request is left behind by the answer to the others.
WaitersHaveCall ==
    \A t \in Tabs, r \in Requests :
        req[t][r].pc = "waiting" => tab[t].refreshing # "none"

\* Every request that was refused comes to an end.
RefusedSettles ==
    \A t \in Tabs, r \in Requests :
        req[t][r].pc = "waiting" ~> req[t][r].pc = "idle"

=============================================================================
