------------------------------ MODULE QqBinding ------------------------------
(***************************************************************************)
(* The QQ Music login of one TuneSet user: the row of table users that     *)
(* holds the encrypted credential and the masked account, the QR sessions  *)
(* in Redis, and the requests that read and write them (backend/app/api/   *)
(* qq.py, backend/app/qqmusic/credential_store.py).                        *)
(*                                                                         *)
(* Every request loads the row when get_current_user runs and keeps that   *)
(* copy in its SQLAlchemy session: a later select in the same session does *)
(* not refresh it, and a commit writes only the columns whose value is not *)
(* the one loaded.  QQ Music is asked in between.                          *)
(***************************************************************************)
EXTENDS Naturals

CONSTANTS
    Accounts,   \* accounts of QQ Music
    NoAccount,  \* qq_euin_masked is NULL, nobody has scanned the code
    NoCred,     \* qq_credential_enc is NULL
    Requests,   \* the requests that may be in flight at the same time
    Qrs,        \* QR sessions (identifiers)
    MaxKeys     \* bound on the keys QQ Music hands out

ASSUME AccountsAssumption == NoAccount \notin Accounts
ASSUME MaxKeysAssumption == MaxKeys \in Nat

VARIABLES
    row,        \* users.qq_credential_enc and users.qq_euin_masked
    qr,         \* per QR session: is its key in Redis, who confirmed it
    req,        \* the requests: label, loaded row, credential at hand
    keys,       \* keys handed out so far
    expired,    \* credentials whose musickey has run out
    binding,    \* the account of the login or unbind saved last (history)
    overtaken,  \* the requests that loaded the row before that (history)
    spoilt      \* has a save since then, or that one, gone by an outdated
                \* copy of the row (history)?

history == <<binding, overtaken, spoilt>>
vars == <<row, qr, req, keys, expired, history>>

\* "named": the credential has an encrypt_uin to make the mask from.
Credentials == [account : Accounts, key : 1..MaxKeys, named : BOOLEAN]
ASSUME NoCredAssumption == NoCred \notin Credentials

Rows == [enc : Credentials \cup {NoCred}, masked : Accounts \cup {NoAccount}]
Unbound == [enc |-> NoCred, masked |-> NoAccount]

Labels == {"idle", "asking", "answered", "refreshing", "refreshed", "ready",
           "clearing"}
Request == [pc : Labels, loaded : Rows, cred : Credentials \cup {NoCred},
            qr : Qrs]

TypeOK ==
    /\ row \in Rows
    /\ qr \in [Qrs -> [live : BOOLEAN, by : Accounts \cup {NoAccount}]]
    /\ req \in [Requests -> Request]
    /\ keys \in 0..MaxKeys
    /\ expired \subseteq Credentials
    /\ binding \in Accounts \cup {NoAccount}
    /\ overtaken \subseteq Requests
    /\ spoilt \in BOOLEAN

Idle(r) == req[r].pc = "idle"
Done(r) == req' = [req EXCEPT ![r].pc = "idle", ![r].loaded = Unbound,
                              ![r].cred = NoCred]

\* A request ends that has saved neither a login nor an unbind.
Ends(r) == /\ Done(r)
           /\ overtaken' = overtaken \ {r}
           /\ UNCHANGED <<binding, spoilt>>

Init ==
    /\ row = Unbound
    /\ qr = [q \in Qrs |-> [live |-> FALSE, by |-> NoAccount]]
    /\ req \in [Requests -> {[pc |-> "idle", loaded |-> Unbound,
                              cred |-> NoCred, qr |-> q] : q \in Qrs}]
    /\ keys = 0
    /\ expired = {}
    /\ binding = NoAccount /\ overtaken = {} /\ spoilt = FALSE

-----------------------------------------------------------------------------
(* A commit of the session: only what differs from what was loaded.  The    *)
(* encryption is salted, so a new credential always differs.                *)

Flush(loaded, new) ==
    [enc |-> IF new.enc = loaded.enc THEN row.enc ELSE new.enc,
     masked |-> IF new.masked = loaded.masked THEN row.masked ELSE new.masked]

\* Does a column that the commit leaves alone hold what another one has written?
Overlooks(loaded, new) ==
    \/ new.enc = loaded.enc /\ row.enc # loaded.enc
    \/ new.masked = loaded.masked /\ row.masked # loaded.masked

\* The mask is NULL for a credential without encrypt_uin.
Columns(c) == [enc |-> c, masked |-> IF c.named THEN c.account ELSE NoAccount]

\* Fault: without encrypt_uin the mask stays as it was.
SaveCredentialKeepsMask(r) ==
    row' = Flush(req[r].loaded,
                 IF req[r].cred.named THEN Columns(req[r].cred)
                 ELSE [enc |-> req[r].cred, masked |-> req[r].loaded.masked])

\* Fault: an account once stored is not replaced.
SaveCredentialOnce(r) ==
    row' = IF row.enc # NoCred THEN row
           ELSE Flush(req[r].loaded, Columns(req[r].cred))

SaveCredential(r) == row' = Flush(req[r].loaded, Columns(req[r].cred))

\* The history of a login or an unbind: it goes for the account a, and whoever
\* is on the way has loaded an older row.
Binds(r, a, new) ==
    /\ binding' = a
    /\ overtaken' = {s \in Requests \ {r} : ~Idle(s)}
    /\ spoilt' = Overlooks(req[r].loaded, new)

NewKey(a, named) == [account |-> a, key |-> keys + 1, named |-> named]

\* get_current_user: the session's copy of the row.
Load(r, label) == req' = [req EXCEPT ![r].pc = label, ![r].loaded = row]

-----------------------------------------------------------------------------
(* Login with a QR code.                                                    *)

\* POST /qrcode: a new identifier.
GetQrcode(q) ==
    /\ ~qr[q].live
    /\ \A r \in Requests : Idle(r) \/ req[r].qr # q
    /\ qr' = [qr EXCEPT ![q] = [live |-> TRUE, by |-> NoAccount]]
    /\ UNCHANGED <<row, req, keys, expired, history>>

\* 300 s later.
QrExpires(q) ==
    /\ qr[q].live
    /\ qr' = [qr EXCEPT ![q].live = FALSE]
    /\ UNCHANGED <<row, req, keys, expired, history>>

\* The user confirms the login on the phone.
Scan(q, a) ==
    /\ qr[q].live /\ qr[q].by = NoAccount
    /\ qr' = [qr EXCEPT ![q].by = a]
    /\ UNCHANGED <<row, req, keys, expired, history>>

\* POST /check; with the key gone it answers 404.
CheckQrcode(r, q) ==
    /\ Idle(r)
    /\ qr[q].live
    /\ req' = [req EXCEPT ![r].pc = "asking", ![r].loaded = row, ![r].qr = q]
    /\ UNCHANGED <<row, qr, keys, expired, history>>

\* Not scanned yet, a network error, or an error of QQ Music.
CheckNotDone(r) ==
    /\ req[r].pc = "asking"
    /\ Ends(r)
    /\ UNCHANGED <<row, qr, keys, expired>>

\* The login is confirmed; every poll that sees it gets a credential.
CheckAnswered(r) ==
    /\ req[r].pc = "asking"
    /\ qr[req[r].qr].by # NoAccount
    /\ keys < MaxKeys
    /\ \E named \in BOOLEAN :
          req' = [req EXCEPT ![r].pc = "answered",
                             ![r].cred = NewKey(qr[req[r].qr].by, named)]
    /\ keys' = keys + 1
    /\ UNCHANGED <<row, qr, expired, history>>

CheckSaves(r) ==
    /\ req[r].pc = "answered"
    /\ SaveCredential(r)
    /\ Binds(r, req[r].cred.account, Columns(req[r].cred))
    /\ qr' = [qr EXCEPT ![req[r].qr].live = FALSE]
    /\ Done(r)
    /\ UNCHANGED <<keys, expired>>

-----------------------------------------------------------------------------
(* Requests that act on QQ Music: get_valid_credential, then the work.      *)

\* The musickey of the stored credential runs out; is_expired compares times.
KeyExpires ==
    /\ row.enc \notin expired \cup {NoCred}
    /\ expired' = expired \cup {row.enc}
    /\ UNCHANGED <<row, qr, req, keys, history>>

\* Without a credential the answer is 400.
GetValidCredential(r) ==
    /\ Idle(r)
    /\ row.enc # NoCred
    /\ IF row.enc \in expired THEN Load(r, "refreshing")
       ELSE req' = [req EXCEPT ![r].pc = "ready", ![r].loaded = row,
                               ![r].cred = row.enc]
    /\ UNCHANGED <<row, qr, keys, expired, history>>

Refreshed(r) ==
    /\ req[r].pc = "refreshing"
    /\ keys < MaxKeys
    /\ \E named \in BOOLEAN :
          req' = [req EXCEPT
                    ![r].pc = "refreshed",
                    ![r].cred = NewKey(req[r].loaded.enc.account, named)]
    /\ keys' = keys + 1
    /\ UNCHANGED <<row, qr, expired, history>>

\* CredentialRefreshError is answered 401, other errors 500 or 502.
RefreshFails(r) ==
    /\ req[r].pc = "refreshing"
    /\ Ends(r)
    /\ UNCHANGED <<row, qr, keys, expired>>

RefreshSaves(r) ==
    /\ req[r].pc = "refreshed"
    /\ SaveCredential(r)
    /\ req' = [req EXCEPT ![r].pc = "ready"]
    /\ spoilt' = (spoilt \/ r \in overtaken)
    /\ UNCHANGED <<qr, keys, expired, binding, overtaken>>

\* The song lists are built, or the favourites fetched, in this account.
Act(r) ==
    /\ req[r].pc = "ready"
    /\ Ends(r)
    /\ UNCHANGED <<row, qr, keys, expired>>

-----------------------------------------------------------------------------
(* POST /unbind.                                                            *)

Unbind(r) ==
    /\ Idle(r)
    /\ Load(r, "clearing")
    /\ UNCHANGED <<row, qr, keys, expired, history>>

ClearCredential(r) ==
    /\ req[r].pc = "clearing"
    /\ row' = Flush(req[r].loaded, Unbound)
    /\ Binds(r, NoAccount, Unbound)
    /\ Done(r)
    /\ UNCHANGED <<qr, keys, expired>>

-----------------------------------------------------------------------------
Next ==
    \/ \E q \in Qrs : GetQrcode(q) \/ QrExpires(q)
    \/ \E q \in Qrs, a \in Accounts : Scan(q, a)
    \/ \E r \in Requests, q \in Qrs : CheckQrcode(r, q)
    \/ KeyExpires
    \/ \E r \in Requests :
          \/ CheckNotDone(r) \/ CheckAnswered(r) \/ CheckSaves(r)
          \/ GetValidCredential(r) \/ Refreshed(r) \/ RefreshFails(r)
          \/ RefreshSaves(r) \/ Act(r)
          \/ Unbind(r) \/ ClearCredential(r)

Spec == Init /\ [][Next]_vars

-----------------------------------------------------------------------------
(* Properties.                                                              *)

\* The credential and the mask, two columns written from copies of different
\* age, are those of the login or unbind saved last (the mask may be NULL, which
\* it is for a credential without encrypt_uin), although polls of one code may
\* both be answered and refreshes overlap each other: until a login or an
\* unbind overlooks a column that another request has written, or a refresh is
\* saved that it has overtaken.
RowIsBinding ==
    ~spoilt => /\ row.masked \in {binding, NoAccount}
               /\ (row.enc = NoCred) <=> (binding = NoAccount)
               /\ row.enc # NoCred => row.enc.account = binding

\* Song lists are then built in the account the user is bound to, by every
\* request that began after the binding, whoever refreshes the credential.
ActsOnBinding ==
    ~spoilt => \A r \in Requests \ overtaken :
                   req[r].pc = "ready" => req[r].cred.account = binding

=============================================================================
