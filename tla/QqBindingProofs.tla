--------------------------- MODULE QqBindingProofs ---------------------------
(***************************************************************************)
(* Proofs about QqBinding for every number of accounts, requests, QR       *)
(* sessions and keys.                                                      *)
(***************************************************************************)
EXTENDS QqBinding, TLAPS

\* What the label of a request says about what it carries.
Carries(q) ==
    /\ q.pc \in {"answered", "refreshed", "ready"} => q.cred \in Credentials
    /\ q.pc \in {"refreshing", "refreshed"} => q.loaded.enc \in Credentials

\* With b bound since before the request began: a refresh works on an older
\* copy of the row, but one of the same account, and so does what comes of it.
Fresh(q, b) ==
    /\ q.pc \in {"refreshing", "refreshed"} => q.loaded.enc.account = b
    /\ q.pc \in {"refreshed", "ready"} => q.cred.account = b

\* The inductive invariant.
BindingInv ==
    /\ TypeOK
    /\ RowIsBinding
    /\ \A r \in Requests : Carries(req[r])
    /\ ~spoilt => \A r \in Requests \ overtaken : Fresh(req[r], binding)

-----------------------------------------------------------------------------
LEMMA InitInv == Init => BindingInv
<1>. SUFFICES ASSUME Init PROVE BindingInv
    OBVIOUS
<1>1. Unbound \in Rows
    BY DEF Unbound, Rows
<1>2. \A r \in Requests : /\ req[r] \in Request /\ req[r].pc = "idle"
    BY <1>1 DEF Init, Request, Labels
<1>3. req \in [Requests -> Request]
    BY <1>1 DEF Init, Request, Labels
<1>4. spoilt \in BOOLEAN /\ overtaken \subseteq Requests
    BY Zenon DEF Init
<1>5. keys \in 0..MaxKeys /\ expired \subseteq Credentials /\ row \in Rows
      /\ binding \in Accounts \cup {NoAccount}
    BY <1>1, MaxKeysAssumption DEF Init
<1>6. qr \in [Qrs -> [live : BOOLEAN, by : Accounts \cup {NoAccount}]]
    BY DEF Init
<1>7. TypeOK
    BY <1>3, <1>4, <1>5, <1>6, Zenon DEF TypeOK
<1>8. RowIsBinding
    BY DEF Init, RowIsBinding, Unbound
<1>. QED
    BY <1>2, <1>7, <1>8 DEF BindingInv, Carries, Fresh

\* A step that gives request r the record q and changes neither row nor binding;
\* r may leave the requests that are overtaken.
LEMMA RequestKeepsInv ==
    ASSUME BindingInv, NEW r \in Requests, NEW q \in Request,
           req' = [req EXCEPT ![r] = q],
           UNCHANGED <<row, binding, spoilt>>,
           overtaken' \in {overtaken, overtaken \ {r}},
           qr' \in [Qrs -> [live : BOOLEAN, by : Accounts \cup {NoAccount}]],
           keys' \in 0..MaxKeys, expired' \subseteq Credentials,
           Carries(q),
           ~spoilt /\ r \notin overtaken' => Fresh(q, binding)
    PROVE  BindingInv'
<1>1. req' \in [Requests -> Request] /\ req'[r] = q
      /\ \A s \in Requests \ {r} : req'[s] = req[s]
    BY DEF BindingInv, TypeOK
<1>2. TypeOK'
    BY <1>1 DEF BindingInv, TypeOK
<1>3. RowIsBinding'
    BY DEF BindingInv, RowIsBinding
<1>4. \A s \in Requests : Carries(req'[s])
    BY <1>1 DEF BindingInv
<1>5. ASSUME ~spoilt, NEW s \in Requests \ overtaken'
      PROVE  Fresh(req'[s], binding)
    BY <1>1, <1>5 DEF BindingInv
<1>. QED
    BY <1>2, <1>3, <1>4, <1>5 DEF BindingInv

\* A request that ends.
LEMMA EndsKeepsInv ==
    ASSUME BindingInv, NEW r \in Requests, Ends(r),
           UNCHANGED <<row, qr, keys, expired>>
    PROVE  BindingInv'
<1>. DEFINE q == [req[r] EXCEPT !.pc = "idle", !.loaded = Unbound,
                                !.cred = NoCred]
<1>1. req[r] \in Request /\ req \in [Requests -> Request]
    BY DEF BindingInv, TypeOK
<1>2. q \in Request /\ q.pc = "idle"
    BY <1>1 DEF Request, Labels, Unbound, Rows
<1>3. req' = [req EXCEPT ![r] = q]
    BY <1>1 DEF Ends, Done
<1>4. Carries(q) /\ Fresh(q, binding)
    BY <1>2 DEF Carries, Fresh
<1>. HIDE DEF q
<1>. QED
    BY <1>2, <1>3, <1>4, RequestKeepsInv DEF BindingInv, TypeOK, Ends

\* Steps that change no request, row or binding.
LEMMA OthersKeepInv ==
    ASSUME BindingInv, UNCHANGED <<row, req, history>>,
           qr' \in [Qrs -> [live : BOOLEAN, by : Accounts \cup {NoAccount}]],
           keys' \in 0..MaxKeys, expired' \subseteq Credentials
    PROVE  BindingInv'
<1>1. TypeOK' /\ RowIsBinding'
    BY DEF BindingInv, TypeOK, RowIsBinding, history
<1>. QED
    BY <1>1 DEF BindingInv, history

-----------------------------------------------------------------------------
(* Steps that change a request only.                                        *)

LEMMA RequestTypes ==
    ASSUME BindingInv, NEW r \in Requests
    PROVE  /\ req \in [Requests -> Request] /\ req[r] \in Request
           /\ row \in Rows /\ row.enc \in Credentials \cup {NoCred}
           /\ binding \in Accounts \cup {NoAccount}
           /\ overtaken \subseteq Requests /\ spoilt \in BOOLEAN
           /\ qr \in [Qrs -> [live : BOOLEAN, by : Accounts \cup {NoAccount}]]
           /\ keys \in 0..MaxKeys /\ expired \subseteq Credentials
           /\ Carries(req[r])
           /\ ~spoilt /\ r \notin overtaken => Fresh(req[r], binding)
BY DEF BindingInv, TypeOK, Rows

LEMMA NewKeyType ==
    ASSUME keys \in 0..MaxKeys, keys < MaxKeys, NEW a \in Accounts,
           NEW named \in BOOLEAN
    PROVE  /\ NewKey(a, named) \in Credentials
           /\ NewKey(a, named).account = a
           /\ keys + 1 \in 0..MaxKeys
BY MaxKeysAssumption DEF NewKey, Credentials

LEMMA CheckQrcodeInv ==
    ASSUME BindingInv, NEW r \in Requests, NEW k \in Qrs, CheckQrcode(r, k)
    PROVE  BindingInv'
<1>. DEFINE q == [req[r] EXCEPT !.pc = "asking", !.loaded = row, !.qr = k]
<1>1. q \in Request /\ q.pc = "asking"
    BY RequestTypes DEF Request, Labels
<1>2. req' = [req EXCEPT ![r] = q]
    BY RequestTypes DEF CheckQrcode
<1>3. Carries(q) /\ Fresh(q, binding)
    BY <1>1 DEF Carries, Fresh
<1>. HIDE DEF q
<1>. QED
    BY <1>1, <1>2, <1>3, RequestTypes, RequestKeepsInv
    DEF CheckQrcode, history

LEMMA CheckAnsweredInv ==
    ASSUME BindingInv, NEW r \in Requests, CheckAnswered(r)
    PROVE  BindingInv'
<1>. DEFINE a == qr[req[r].qr].by
<1>1. a \in Accounts /\ req[r].pc = "asking"
    BY RequestTypes DEF CheckAnswered, Request
<1>2. PICK named \in BOOLEAN :
          req' = [req EXCEPT ![r].pc = "answered",
                             ![r].cred = NewKey(a, named)]
    BY DEF CheckAnswered
<1>. DEFINE q == [req[r] EXCEPT !.pc = "answered", !.cred = NewKey(a, named)]
<1>3. NewKey(a, named) \in Credentials /\ keys + 1 \in 0..MaxKeys
    BY <1>1, RequestTypes, NewKeyType DEF CheckAnswered
<1>4. q \in Request /\ q.pc = "answered" /\ q.cred = NewKey(a, named)
    BY <1>3, RequestTypes DEF Request, Labels
<1>5. req' = [req EXCEPT ![r] = q]
    BY <1>2, RequestTypes
<1>6. Carries(q) /\ Fresh(q, binding)
    BY <1>3, <1>4 DEF Carries, Fresh
<1>. HIDE DEF q
<1>. QED
    BY <1>3, <1>4, <1>5, <1>6, RequestTypes, RequestKeepsInv
    DEF CheckAnswered, history

LEMMA GetValidCredentialInv ==
    ASSUME BindingInv, NEW r \in Requests, GetValidCredential(r)
    PROVE  BindingInv'
<1>1. row.enc \in Credentials
    BY RequestTypes DEF GetValidCredential
<1>2. ~spoilt => row.enc.account = binding
    BY <1>1, NoCredAssumption DEF BindingInv, RowIsBinding
<1>3. CASE row.enc \in expired
  <2>. DEFINE q == [req[r] EXCEPT !.pc = "refreshing", !.loaded = row]
  <2>1. q \in Request /\ q.pc = "refreshing" /\ q.loaded = row
      BY RequestTypes DEF Request, Labels
  <2>2. req' = [req EXCEPT ![r] = q]
      BY <1>3, RequestTypes DEF GetValidCredential, Load
  <2>3. Carries(q) /\ (~spoilt => Fresh(q, binding))
      BY <1>1, <1>2, <2>1 DEF Carries, Fresh
  <2>. HIDE DEF q
  <2>. QED
      BY <2>1, <2>2, <2>3, RequestTypes, RequestKeepsInv
      DEF GetValidCredential, history
<1>4. CASE row.enc \notin expired
  <2>. DEFINE q == [req[r] EXCEPT !.pc = "ready", !.loaded = row,
                                  !.cred = row.enc]
  <2>1. q \in Request /\ q.pc = "ready" /\ q.cred = row.enc
      BY RequestTypes DEF Request, Labels
  <2>2. req' = [req EXCEPT ![r] = q]
      BY <1>4, RequestTypes DEF GetValidCredential
  <2>3. Carries(q) /\ (~spoilt => Fresh(q, binding))
      BY <1>1, <1>2, <2>1 DEF Carries, Fresh
  <2>. HIDE DEF q
  <2>. QED
      BY <2>1, <2>2, <2>3, RequestTypes, RequestKeepsInv
      DEF GetValidCredential, history
<1>. QED
    BY <1>3, <1>4

LEMMA RefreshedInv ==
    ASSUME BindingInv, NEW r \in Requests, Refreshed(r)
    PROVE  BindingInv'
<1>. DEFINE a == req[r].loaded.enc.account
<1>1. req[r].pc = "refreshing" /\ req[r].loaded.enc \in Credentials
    BY RequestTypes DEF Refreshed, Carries
<1>2. a \in Accounts
    BY <1>1 DEF Credentials
<1>3. PICK named \in BOOLEAN :
          req' = [req EXCEPT ![r].pc = "refreshed",
                             ![r].cred = NewKey(a, named)]
    BY DEF Refreshed
<1>. DEFINE q == [req[r] EXCEPT !.pc = "refreshed", !.cred = NewKey(a, named)]
<1>4. /\ NewKey(a, named) \in Credentials /\ NewKey(a, named).account = a
      /\ keys + 1 \in 0..MaxKeys
    BY <1>2, RequestTypes, NewKeyType DEF Refreshed
<1>5. q \in Request /\ q.pc = "refreshed" /\ q.loaded = req[r].loaded
      /\ q.cred = NewKey(a, named)
    BY <1>4, RequestTypes DEF Request, Labels
<1>6. req' = [req EXCEPT ![r] = q]
    BY <1>3, RequestTypes
<1>7. Carries(q)
    BY <1>1, <1>4, <1>5 DEF Carries
<1>8. ~spoilt /\ r \notin overtaken => Fresh(q, binding)
    BY <1>1, <1>4, <1>5, RequestTypes DEF Fresh
<1>. HIDE DEF q
<1>. QED
    BY <1>4, <1>5, <1>6, <1>7, <1>8, RequestTypes, RequestKeepsInv
    DEF Refreshed, history

LEMMA UnbindInv ==
    ASSUME BindingInv, NEW r \in Requests, Unbind(r)
    PROVE  BindingInv'
<1>. DEFINE q == [req[r] EXCEPT !.pc = "clearing", !.loaded = row]
<1>1. q \in Request /\ q.pc = "clearing"
    BY RequestTypes DEF Request, Labels
<1>2. req' = [req EXCEPT ![r] = q]
    BY RequestTypes DEF Unbind, Load
<1>3. Carries(q) /\ Fresh(q, binding)
    BY <1>1 DEF Carries, Fresh
<1>. HIDE DEF q
<1>. QED
    BY <1>1, <1>2, <1>3, RequestTypes, RequestKeepsInv DEF Unbind, history

-----------------------------------------------------------------------------
(* Steps that write the row.                                                *)

LEMMA FlushType ==
    ASSUME row \in Rows, NEW loaded \in Rows, NEW new \in Rows
    PROVE  Flush(loaded, new) \in Rows
BY DEF Flush, Rows

LEMMA ColumnsType ==
    ASSUME NEW c \in Credentials
    PROVE  /\ Columns(c) \in Rows /\ c.account \in Accounts
           /\ Columns(c).enc = c /\ c # NoCred
           /\ Columns(c).masked \in {c.account, NoAccount}
BY NoCredAssumption DEF Columns, Rows, Credentials

\* A commit that overlooks nothing writes what it was given.
LEMMA FlushOverlooksNothing ==
    ASSUME NEW loaded, NEW new \in Rows, ~Overlooks(loaded, new)
    PROVE  Flush(loaded, new) = new
BY DEF Flush, Overlooks, Rows

\* A login or an unbind, of account a, that ends.
LEMMA BindsKeepsInv ==
    ASSUME BindingInv, NEW r \in Requests, Done(r),
           NEW a \in Accounts \cup {NoAccount}, NEW new \in Rows,
           row' = Flush(req[r].loaded, new), Binds(r, a, new),
           new.masked \in {a, NoAccount},
           (new.enc = NoCred) <=> (a = NoAccount),
           new.enc # NoCred => new.enc.account = a,
           qr' \in [Qrs -> [live : BOOLEAN, by : Accounts \cup {NoAccount}]],
           UNCHANGED <<keys, expired>>
    PROVE  BindingInv'
<1>. DEFINE q == [req[r] EXCEPT !.pc = "idle", !.loaded = Unbound,
                                !.cred = NoCred]
<1>1. q \in Request /\ q.pc = "idle"
    BY RequestTypes DEF Request, Labels, Unbound, Rows
<1>2. req' = [req EXCEPT ![r] = q]
    BY RequestTypes DEF Done
<1>. HIDE DEF q
<1>3. req' \in [Requests -> Request] /\ req'[r] = q
      /\ \A s \in Requests \ {r} : req'[s] = req[s]
    BY <1>1, <1>2, RequestTypes
<1>4. row' \in Rows
    BY RequestTypes, FlushType DEF Request
<1>5. TypeOK'
    BY <1>3, <1>4 DEF BindingInv, TypeOK, Binds, Overlooks
<1>6. \A s \in Requests : Carries(req'[s])
    BY <1>1, <1>3 DEF BindingInv, Carries
<1>7. RowIsBinding'
  <2>. SUFFICES ASSUME ~spoilt'
                PROVE  /\ row'.masked \in {a, NoAccount}
                       /\ (row'.enc = NoCred) <=> (a = NoAccount)
                       /\ row'.enc # NoCred => row'.enc.account = a
      BY DEF RowIsBinding, Binds
  <2>1. row' = new
      BY FlushOverlooksNothing DEF Binds
  <2>. QED
      BY <2>1
<1>8. \A s \in Requests \ overtaken' : req'[s].pc = "idle"
    BY <1>1, <1>3 DEF Binds, Idle
<1>. QED
    BY <1>5, <1>6, <1>7, <1>8 DEF BindingInv, Fresh

LEMMA CheckSavesInv ==
    ASSUME BindingInv, NEW r \in Requests, CheckSaves(r)
    PROVE  BindingInv'
<1>. DEFINE c == req[r].cred
<1>1. c \in Credentials
    BY RequestTypes DEF CheckSaves, Carries
<1>2. row' = Flush(req[r].loaded, Columns(c)) /\ Binds(r, c.account, Columns(c))
    BY DEF CheckSaves, SaveCredential
<1>3. qr' \in [Qrs -> [live : BOOLEAN, by : Accounts \cup {NoAccount}]]
    BY RequestTypes DEF CheckSaves
<1>4. c.account # NoAccount
    BY <1>1, ColumnsType, AccountsAssumption
<1>. QED
    BY <1>1, <1>2, <1>3, <1>4, ColumnsType, BindsKeepsInv DEF CheckSaves

LEMMA ClearCredentialInv ==
    ASSUME BindingInv, NEW r \in Requests, ClearCredential(r)
    PROVE  BindingInv'
<1>1. Unbound \in Rows /\ Unbound.enc = NoCred /\ Unbound.masked = NoAccount
    BY DEF Unbound, Rows
<1>. QED
    BY <1>1, RequestTypes, BindsKeepsInv DEF ClearCredential

\* The refresh saved is of the account that is bound, and so is the row it was
\* not made from.
LEMMA RefreshSavesInv ==
    ASSUME BindingInv, NEW r \in Requests, RefreshSaves(r)
    PROVE  BindingInv'
<1>. DEFINE c == req[r].cred
            q == [req[r] EXCEPT !.pc = "ready"]
<1>1. c \in Credentials /\ req[r].loaded \in Rows
      /\ req[r].loaded.enc \in Credentials
    BY RequestTypes DEF RefreshSaves, Carries, Request
<1>2. row' = Flush(req[r].loaded, Columns(c))
      /\ UNCHANGED <<binding, overtaken, qr, keys, expired>>
    BY DEF RefreshSaves, SaveCredential
<1>3. row' \in Rows
    BY <1>1, <1>2, RequestTypes, FlushType, ColumnsType
<1>4. q \in Request /\ q.pc = "ready" /\ q.cred = c
    BY RequestTypes DEF Request, Labels
<1>5. req' = [req EXCEPT ![r] = q]
    BY RequestTypes DEF RefreshSaves
<1>. HIDE DEF q
<1>6. req' \in [Requests -> Request] /\ req'[r] = q
      /\ \A s \in Requests \ {r} : req'[s] = req[s]
    BY <1>4, <1>5, RequestTypes
<1>7. TypeOK'
    BY <1>2, <1>3, <1>6 DEF BindingInv, TypeOK, RefreshSaves
<1>8. \A s \in Requests : Carries(req'[s])
    BY <1>1, <1>4, <1>6 DEF BindingInv, Carries
<1>9. ASSUME ~spoilt'
      PROVE  /\ RowIsBinding'
             /\ \A s \in Requests \ overtaken' : Fresh(req'[s], binding')
  <2>1. ~spoilt /\ r \notin overtaken /\ req[r].pc = "refreshed"
      BY <1>9 DEF RefreshSaves
  <2>2. req[r].loaded.enc.account = binding /\ c.account = binding
      BY <2>1, RequestTypes DEF Fresh
  <2>3. binding # NoAccount
      BY <1>1, <2>2, ColumnsType, AccountsAssumption
  <2>4. /\ row.masked \in {binding, NoAccount}
        /\ row.enc # NoCred /\ row.enc.account = binding
      BY <2>1, <2>3 DEF BindingInv, RowIsBinding
  <2>5. row'.masked \in {binding, NoAccount} /\ row'.enc \in {row.enc, c}
      BY <1>1, <1>2, <2>2, <2>4, ColumnsType DEF Flush
  <2>6. row'.enc # NoCred /\ row'.enc.account = binding
      BY <1>1, <2>2, <2>4, <2>5, ColumnsType
  <2>7. RowIsBinding'
      BY <1>2, <2>3, <2>5, <2>6 DEF RowIsBinding
  <2>8. Fresh(q, binding)
      BY <1>4, <2>2 DEF Fresh
  <2>. QED
      BY <1>2, <1>6, <2>1, <2>7, <2>8 DEF BindingInv
<1>10. RowIsBinding'
    BY <1>9 DEF RowIsBinding
<1>. QED
    BY <1>7, <1>8, <1>9, <1>10 DEF BindingInv

-----------------------------------------------------------------------------
LEMMA BindingInvStep == BindingInv /\ [Next]_vars => BindingInv'
<1>. SUFFICES ASSUME BindingInv, [Next]_vars PROVE BindingInv'
    OBVIOUS
<1>1. /\ qr \in [Qrs -> [live : BOOLEAN, by : Accounts \cup {NoAccount}]]
      /\ keys \in 0..MaxKeys /\ expired \subseteq Credentials /\ row \in Rows
    BY DEF BindingInv, TypeOK
<1>2. ASSUME NEW k \in Qrs, GetQrcode(k) \/ QrExpires(k) PROVE BindingInv'
  <2>1. /\ \/ qr' = [qr EXCEPT ![k] = [live |-> TRUE, by |-> NoAccount]]
           \/ qr' = [qr EXCEPT ![k] = [qr[k] EXCEPT !.live = FALSE]]
        /\ UNCHANGED <<row, req, keys, expired, history>>
      BY <1>2 DEF GetQrcode, QrExpires
  <2>. DEFINE Qr == [live : BOOLEAN, by : Accounts \cup {NoAccount}]
  <2>2. [live |-> TRUE, by |-> NoAccount] \in Qr
      OBVIOUS
  <2>3. [qr[k] EXCEPT !.live = FALSE] \in Qr
      BY <1>1
  <2>4. \E v \in Qr : qr' = [qr EXCEPT ![k] = v]
      BY <2>1, <2>2, <2>3
  <2>5. qr \in [Qrs -> Qr]
      BY <1>1
  <2>. HIDE DEF Qr
  <2>6. qr' \in [Qrs -> Qr]
      BY <2>4, <2>5
  <2>. QED
      BY <1>1, <2>1, <2>6, OthersKeepInv DEF Qr
<1>3. ASSUME NEW k \in Qrs, NEW a \in Accounts, Scan(k, a) PROVE BindingInv'
    BY <1>1, <1>3, OthersKeepInv DEF Scan
<1>4. CASE KeyExpires
    BY <1>1, <1>4, OthersKeepInv DEF KeyExpires, Rows
<1>5. ASSUME NEW r \in Requests, NEW k \in Qrs, CheckQrcode(r, k)
      PROVE  BindingInv'
    BY <1>5, CheckQrcodeInv
<1>6. ASSUME NEW r \in Requests,
             \/ CheckNotDone(r) \/ CheckAnswered(r) \/ CheckSaves(r)
             \/ GetValidCredential(r) \/ Refreshed(r) \/ RefreshFails(r)
             \/ RefreshSaves(r) \/ Act(r) \/ Unbind(r) \/ ClearCredential(r)
      PROVE  BindingInv'
  <2>1. CASE CheckNotDone(r) \/ RefreshFails(r) \/ Act(r)
      BY <2>1, EndsKeepsInv DEF CheckNotDone, RefreshFails, Act
  <2>. QED
      BY <1>6, <2>1, CheckAnsweredInv, CheckSavesInv, GetValidCredentialInv,
         RefreshedInv, RefreshSavesInv, UnbindInv, ClearCredentialInv
<1>7. CASE UNCHANGED vars
    BY <1>1, <1>7, OthersKeepInv DEF vars
<1>. QED
    BY <1>2, <1>3, <1>4, <1>5, <1>6, <1>7 DEF Next

LEMMA BindingInvariant == Spec => []BindingInv
BY InitInv, BindingInvStep, PTL DEF Spec

-----------------------------------------------------------------------------
(* The theorems.                                                            *)

\* Every variable keeps its type, also when logins and unbinds overlap.
THEOREM BindingTypeCorrect == Spec => []TypeOK
BY BindingInvariant, PTL DEF BindingInv

\* As long as no login or unbind overlooks what another request has written and
\* no refresh is saved that one of them has overtaken, the stored credential and
\* the stored mask, if it has one, are those of the account bound last, however
\* many refreshes from older copies of the row are saved (credential_store.py,
\* save_credential and clear_credential).
THEOREM RowAlwaysBinding == Spec => []RowIsBinding
BY BindingInvariant, PTL DEF BindingInv

\* On the same condition, every request that got a valid credential, and loaded
\* the row after the last login or unbind, acts on the account bound then
\* (credential_store.py, get_valid_credential).
THEOREM AlwaysActsOnBinding == Spec => []ActsOnBinding
<1>1. BindingInv => ActsOnBinding
    BY DEF BindingInv, ActsOnBinding, Fresh
<1>. QED
    BY <1>1, BindingInvariant, PTL

=============================================================================
