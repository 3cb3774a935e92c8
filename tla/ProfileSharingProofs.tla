------------------------ MODULE ProfileSharingProofs ------------------------
(***************************************************************************)
(* Proofs about ProfileSharing for every number of tokens, overlapping     *)
(* handlers and results.                                                   *)
(***************************************************************************)
EXTENDS ProfileSharing, TLAPS

Waiting(o) == opening[o].at # "idle"

\* Whatever link is in somebody's hands and still opens is in the list of the user.
Entered ==
    /\ copied \cap share \subseteq userTokens
    /\ dialog.url \in share => dialog.url \in userTokens
    /\ \A o \in Openers : opening[o].tokens \cap share \subseteq userTokens

\* Unless openShare was started while another waited, one waits at most, and none
\* while the dialog is open.
Lone ==
    ~rash => /\ \A o, p \in Openers : Waiting(o) /\ Waiting(p) => o = p
             /\ dialog.open => \A o \in Openers : ~Waiting(o)

\* What the one that waits brings is all that was given away.
Complete ==
    ~rash => \A o \in Openers :
        /\ opening[o].at \in {"listed", "created"} =>
              copied \cap share \subseteq opening[o].tokens
        /\ opening[o].at = "create" => copied \cap share = {}

\* The link in the field of the dialog is in its list, while it opens.
UrlListed ==
    dialog.open => /\ dialog.url \in drawn
                   /\ dialog.url \in share => dialog.url \in dialog.tokens

\* A link that was dead when it was asked for is never found.
DeadIsRefused ==
    visit.dead => /\ visit.token \in ended
                  /\ visit.at \notin {"found", "shown", "crashed"}

\* An answer opens the dialog of the page that asked for it only.
ShownHere == \A o \in Openers : opening[o].shown => here

\* The inductive invariant.
SharingInv ==
    /\ TypeOK /\ ShownHere
    /\ Entered /\ Lone /\ Complete
    /\ UrlListed /\ LivingLinksListed
    /\ DeadIsRefused

\* What the list of the dialog rests on, and what the public page does.
Opening == [at : {"idle", "list", "listed", "create", "created"},
            shown : BOOLEAN, tokens : SUBSET drawn]
Dialog == [open : BOOLEAN, tokens : SUBSET drawn, url : drawn \cup {NoToken}]
Visit == [at : {"none", "asked", "found", "shown", "error", "crashed"},
          token : copied \cup {NoToken}, dead : BOOLEAN, shown : Owners]
TokensOK ==
    /\ share \subseteq drawn /\ userTokens \subseteq drawn /\ drawn \subseteq Tokens
    /\ ended \subseteq drawn \ share
    /\ copied \subseteq drawn
PageOK ==
    /\ here \in BOOLEAN /\ rash \in BOOLEAN
    /\ dialog \in Dialog /\ (dialog.open => here)
    /\ opening \in [Openers -> Opening]

-----------------------------------------------------------------------------
LEMMA TypeParts ==
    TypeOK <=> /\ stored \in [Keys -> Owners]
               /\ TokensOK /\ PageOK /\ visit \in Visit
    BY DEF TypeOK, TokensOK, PageOK, Opening, Dialog, Visit

LEMMA TypePartsNext ==
    TypeOK' <=> /\ stored' \in [Keys -> Owners]
                /\ TokensOK' /\ PageOK' /\ (visit \in Visit)'
    BY DEF TypeOK, TokensOK, PageOK, Opening, Dialog, Visit

LEMMA IdleType ==
    Idle \in Opening /\ Idle.at = "idle" /\ Idle.tokens = {} /\ ~Idle.shown
    BY DEF Idle, Opening

LEMMA InitInv == Init => SharingInv
<1>. SUFFICES ASSUME Init PROVE SharingInv
    OBVIOUS
<1>1. stored \in [Keys -> Owners]
    BY DEF Init, Owners
<1>2. TokensOK /\ PageOK /\ visit \in Visit
    BY IdleType DEF Init, TokensOK, PageOK, Visit, Dialog, Closed, NoVisit, Owners
<1>3. ShownHere /\ Entered /\ Lone /\ Complete
    BY IdleType DEF Init, ShownHere, Entered, Lone, Complete, Waiting, Closed
<1>4. UrlListed /\ LivingLinksListed /\ DeadIsRefused
    BY DEF Init, UrlListed, LivingLinksListed, DeadIsRefused, Closed, NoVisit
<1>. QED
    BY <1>1, <1>2, <1>3, <1>4, TypeParts DEF SharingInv

-----------------------------------------------------------------------------
(* Steps of the results and of the public page.                             *)

LEMMA OutsideKeepsInv ==
    ASSUME SharingInv,
           UNCHANGED <<share, userTokens, drawn, ended, dialog, opening, rash, copied>>,
           here' \in BOOLEAN, here => here',
           stored' \in [Keys -> Owners],
           visit' \in Visit, DeadIsRefused'
    PROVE  SharingInv'
<1>1. TokensOK' /\ PageOK' /\ (visit \in Visit)'
    BY TypeParts DEF SharingInv, TokensOK, PageOK, Opening, Dialog, Visit
<1>2. ShownHere' /\ Entered' /\ Lone' /\ Complete' /\ UrlListed' /\ LivingLinksListed'
    BY DEF SharingInv, ShownHere, Entered, Lone, Complete, UrlListed, LivingLinksListed, Waiting
<1>. QED
    BY <1>1, <1>2, TypePartsNext DEF SharingInv

LEMMA ResultsKeepInv ==
    ASSUME SharingInv, Store \/ ResultExpires \/ ComeBack
    PROVE  SharingInv'
<1>1. /\ stored' \in [Keys -> Owners] /\ here' \in BOOLEAN /\ (here => here')
      /\ UNCHANGED <<share, userTokens, drawn, ended, dialog, opening, rash, copied, visit>>
    BY TypeParts DEF SharingInv, PageOK, Store, ResultExpires, ComeBack, Owners
<1>2. visit' \in Visit /\ DeadIsRefused'
    BY <1>1, TypeParts DEF SharingInv, DeadIsRefused
<1>. QED
    BY <1>1, <1>2, OutsideKeepsInv

LEMMA VisitKeepsInv ==
    ASSUME SharingInv,
           VisitShared \/ FindToken \/ SharedProfile \/ SharedFails \/ CloseVisit
    PROVE  SharingInv'
<1>1. /\ UNCHANGED <<stored, share, userTokens, drawn, ended, here, dialog, opening,
                     rash, copied>>
      /\ stored \in [Keys -> Owners] /\ TokensOK /\ PageOK /\ visit \in Visit
      /\ DeadIsRefused
    BY TypeParts
    DEF SharingInv, VisitShared, FindToken, SharedProfile, SharedFails, CloseVisit
<1>2. visit' \in Visit
  <2>1. CASE VisitShared
      BY <2>1 DEF VisitShared, Visit, Owners
  <2>2. CASE FindToken \/ SharedFails
      BY <1>1, <2>2 DEF FindToken, SharedFails, Visit
  <2>3. CASE SharedProfile
      BY <1>1, <2>3 DEF SharedProfile, Visit
  <2>4. CASE CloseVisit
      BY <2>4 DEF CloseVisit, NoVisit, Visit, Owners
  <2>. QED
      BY <2>1, <2>2, <2>3, <2>4
<1>3. DeadIsRefused'
  <2>1. CASE VisitShared
    <3>1. PICK t \in copied : visit' = [at |-> "asked", token |-> t, dead |-> t \in ended,
                                       shown |-> "none"]
        BY <2>1 DEF VisitShared
    <3>2. visit'.at = "asked" /\ visit'.token = t /\ visit'.dead = (t \in ended)
        BY <3>1
    <3>. QED
        BY <1>1, <3>2 DEF DeadIsRefused
  <2>2. CASE FindToken
    <3>1. /\ visit'.dead = visit.dead /\ visit'.token = visit.token
          /\ visit'.at = IF visit.token \in share THEN "found" ELSE "error"
        BY <1>1, <2>2 DEF FindToken, Visit
    <3>2. visit.dead => visit.token \in ended /\ visit.token \notin share
        BY <1>1 DEF DeadIsRefused, TokensOK
    <3>. QED
        BY <1>1, <3>1, <3>2 DEF DeadIsRefused
  <2>3. CASE SharedProfile \/ SharedFails
      BY <1>1, <2>3 DEF SharedProfile, SharedFails, DeadIsRefused, Visit
  <2>4. CASE CloseVisit
      BY <2>4 DEF CloseVisit, NoVisit, DeadIsRefused
  <2>. QED
      BY <2>1, <2>2, <2>3, <2>4
<1>. QED
    BY <1>1, <1>2, <1>3, OutsideKeepsInv DEF PageOK

-----------------------------------------------------------------------------
(* Links that end.                                                          *)

LEMMA EndKeepsInv ==
    ASSUME SharingInv, NEW t \in share,
           share' = share \ {t}, ended' = ended \cup {t},
           userTokens' \in {userTokens, userTokens \ {t}},
           dialog' \in {dialog, [dialog EXCEPT !.tokens = @ \ {t}]},
           UNCHANGED <<stored, drawn, here, opening, rash, copied, visit>>
    PROVE  SharingInv'
<1>1. TokensOK /\ PageOK /\ visit \in Visit /\ stored \in [Keys -> Owners]
    BY TypeParts DEF SharingInv
<1>2. /\ dialog' \in Dialog /\ dialog'.open = dialog.open /\ dialog'.url = dialog.url
      /\ dialog'.tokens \in {dialog.tokens, dialog.tokens \ {t}}
    BY <1>1 DEF PageOK, Dialog
<1>3. TokensOK' /\ PageOK' /\ (visit \in Visit)'
    BY <1>1, <1>2 DEF TokensOK, PageOK, Opening, Dialog, Visit
<1>4. ShownHere' /\ Entered'
    BY <1>2 DEF SharingInv, ShownHere, Entered
<1>5. Lone' /\ Complete'
    BY <1>2 DEF SharingInv, Lone, Complete, Waiting
<1>6. UrlListed' /\ LivingLinksListed' /\ DeadIsRefused'
    BY <1>2 DEF SharingInv, UrlListed, LivingLinksListed, DeadIsRefused
<1>. QED
    BY <1>1, <1>3, <1>4, <1>5, <1>6, TypePartsNext DEF SharingInv

-----------------------------------------------------------------------------
(* The dialog.                                                              *)

LEMMA LeavePageKeepsInv == SharingInv /\ LeavePage => SharingInv'
<1>. SUFFICES ASSUME SharingInv, LeavePage PROVE SharingInv'
    OBVIOUS
<1>1. TokensOK /\ PageOK /\ visit \in Visit /\ stored \in [Keys -> Owners]
    BY TypeParts DEF SharingInv
<1>2. \A o \in Openers : /\ [opening[o] EXCEPT !.shown = FALSE] \in Opening
                         /\ opening'[o].at = opening[o].at /\ ~opening'[o].shown
                         /\ opening'[o].tokens = opening[o].tokens
    BY <1>1 DEF PageOK, Opening, LeavePage
<1>3. dialog' \in Dialog /\ ~dialog'.open /\ dialog'.url = NoToken
    BY DEF LeavePage, Closed, Dialog
<1>4. opening' \in [Openers -> Opening]
    BY <1>2 DEF LeavePage
<1>5. TokensOK' /\ PageOK' /\ (visit \in Visit)' /\ stored' \in [Keys -> Owners]
    BY <1>1, <1>3, <1>4 DEF LeavePage, TokensOK, PageOK, Opening, Dialog, Visit
<1>6. ShownHere' /\ Entered' /\ Lone' /\ Complete'
    BY <1>1, <1>2, <1>3, KeysAssumption
    DEF LeavePage, SharingInv, TokensOK, ShownHere, Entered, Lone, Complete, Waiting
<1>7. UrlListed' /\ LivingLinksListed' /\ DeadIsRefused'
    BY <1>3 DEF LeavePage, SharingInv, UrlListed, LivingLinksListed, DeadIsRefused
<1>. QED
    BY <1>5, <1>6, <1>7, TypePartsNext DEF SharingInv

LEMMA HandleCopyKeepsInv == SharingInv /\ HandleCopy => SharingInv'
<1>. SUFFICES ASSUME SharingInv, HandleCopy PROVE SharingInv'
    OBVIOUS
<1>1. TokensOK /\ PageOK /\ visit \in Visit /\ stored \in [Keys -> Owners]
    BY TypeParts DEF SharingInv
<1>2. dialog.open /\ dialog.url \in drawn
    BY DEF HandleCopy, SharingInv, UrlListed
<1>3. TokensOK' /\ PageOK' /\ (visit \in Visit)' /\ stored' \in [Keys -> Owners]
    BY <1>1, <1>2 DEF HandleCopy, TokensOK, PageOK, Opening, Dialog, Visit
<1>4. ShownHere' /\ Entered' /\ Lone' /\ Complete'
    BY <1>2 DEF HandleCopy, SharingInv, ShownHere, Entered, Lone, Complete, Waiting
<1>5. UrlListed' /\ LivingLinksListed' /\ DeadIsRefused'
    BY DEF HandleCopy, SharingInv, UrlListed, LivingLinksListed, DeadIsRefused
<1>. QED
    BY <1>3, <1>4, <1>5, TypePartsNext DEF SharingInv

LEMMA CloseDialogKeepsInv == SharingInv /\ CloseDialog => SharingInv'
<1>. SUFFICES ASSUME SharingInv, CloseDialog PROVE SharingInv'
    OBVIOUS
<1>1. TokensOK /\ PageOK /\ visit \in Visit /\ stored \in [Keys -> Owners]
    BY TypeParts DEF SharingInv
<1>2. dialog' \in Dialog /\ ~dialog'.open /\ dialog'.url = dialog.url
    BY <1>1 DEF CloseDialog, PageOK, Dialog
<1>3. TokensOK' /\ PageOK' /\ (visit \in Visit)' /\ stored' \in [Keys -> Owners]
    BY <1>1, <1>2 DEF CloseDialog, TokensOK, PageOK, Opening, Dialog, Visit
<1>4. ShownHere' /\ Entered' /\ Lone' /\ Complete'
    BY <1>2 DEF CloseDialog, SharingInv, ShownHere, Entered, Lone, Complete, Waiting
<1>5. UrlListed' /\ LivingLinksListed' /\ DeadIsRefused'
    BY <1>2 DEF CloseDialog, SharingInv, UrlListed, LivingLinksListed, DeadIsRefused
<1>. QED
    BY <1>3, <1>4, <1>5, TypePartsNext DEF SharingInv

-----------------------------------------------------------------------------
(* openShare.                                                               *)

\* One start of openShare goes on; the dialog is as it was.
LEMMA OpeningKeepsInv ==
    ASSUME SharingInv, NEW o \in Openers, NEW q \in Opening,
           opening' = [opening EXCEPT ![o] = q],
           q.tokens \cap share \subseteq userTokens, q.shown => here,
           UNCHANGED <<stored, share, userTokens, drawn, ended, here, dialog, copied, visit>>,
           rash' \in BOOLEAN,
           ~rash' => /\ \A p \in Openers \ {o} : ~Waiting(p)
                     /\ dialog.open => q.at = "idle"
                     /\ q.at \in {"listed", "created"} => copied \cap share \subseteq q.tokens
                     /\ q.at = "create" => copied \cap share = {}
                     /\ LivingLinksListed'
    PROVE  SharingInv'
<1>1. TokensOK /\ PageOK /\ visit \in Visit /\ stored \in [Keys -> Owners]
    BY TypeParts DEF SharingInv
<1>2. opening' \in [Openers -> Opening] /\ opening'[o] = q
      /\ \A p \in Openers \ {o} : opening'[p] = opening[p]
    BY <1>1 DEF PageOK
<1>3. TokensOK' /\ PageOK' /\ (visit \in Visit)' /\ stored' \in [Keys -> Owners]
    BY <1>1, <1>2 DEF TokensOK, PageOK, Opening, Dialog, Visit
<1>4. ShownHere' /\ Entered'
    BY <1>2 DEF SharingInv, ShownHere, Entered
<1>5. Lone' /\ Complete'
    BY <1>2 DEF Lone, Complete, Waiting
<1>6. UrlListed' /\ LivingLinksListed' /\ DeadIsRefused'
    BY DEF SharingInv, UrlListed, LivingLinksListed, DeadIsRefused
<1>. QED
    BY <1>3, <1>4, <1>5, <1>6, TypePartsNext DEF SharingInv

\* While one waits and none was started beside it, it is alone and the dialog is closed.
LEMMA WaitsAlone ==
    ASSUME SharingInv, NEW o \in Openers, Waiting(o), ~rash
    PROVE  ~dialog.open /\ \A p \in Openers \ {o} : ~Waiting(p)
    BY DEF SharingInv, Lone

\* Until its answer opens the dialog, or is for nothing as the page was left.
LEMMA OpenKeepsInv ==
    ASSUME SharingInv, NEW o \in Openers, opening[o].at \in {"listed", "created"},
           NEW t \in opening[o].tokens, Open(o, t),
           UNCHANGED <<stored, share, userTokens, drawn, ended, here, rash, copied, visit>>
    PROVE  SharingInv'
<1>1. TokensOK /\ PageOK /\ visit \in Visit /\ stored \in [Keys -> Owners]
    BY TypeParts DEF SharingInv
<1>2. /\ opening' = [opening EXCEPT ![o] = Idle]
      /\ opening[o] \in Opening /\ opening[o].tokens \subseteq drawn
      /\ ~rash => LivingLinksListed
    BY <1>1 DEF PageOK, Opening, Open, SharingInv
<1>3. ~rash => /\ \A p \in Openers \ {o} : ~Waiting(p)
               /\ ~dialog.open /\ copied \cap share \subseteq opening[o].tokens
    BY WaitsAlone DEF SharingInv, Complete, Waiting
<1>4. CASE ~opening[o].shown
  <2>1. dialog' = dialog /\ rash' \in BOOLEAN /\ rash' = rash
      BY <1>1, <1>4 DEF Open, PageOK
  <2>2. LivingLinksListed'
      BY <2>1 DEF SharingInv, LivingLinksListed
  <2>3. /\ Idle.tokens \cap share \subseteq userTokens /\ (Idle.shown => here)
        /\ Idle.at \notin {"listed", "created", "create"}
      BY IdleType
  <2>4. ~rash' => (\A p \in Openers \ {o} : ~Waiting(p)) /\ LivingLinksListed'
      BY <1>3, <2>1, <2>2
  <2>. QED
      BY <1>2, <2>1, <2>3, <2>4, IdleType, OpeningKeepsInv
<1>5. CASE opening[o].shown
  <2>1. /\ dialog' = [open |-> TRUE, tokens |-> opening[o].tokens, url |-> t]
        /\ here
      BY <1>5 DEF Open, SharingInv, ShownHere
  <2>2. dialog' \in Dialog /\ t \in drawn
      BY <1>2, <2>1 DEF Dialog
  <2>3. opening' \in [Openers -> Opening] /\ opening'[o] = Idle
        /\ \A p \in Openers \ {o} : opening'[p] = opening[p]
      BY <1>1, <1>2, IdleType DEF PageOK
  <2>4. TokensOK' /\ PageOK' /\ (visit \in Visit)' /\ stored' \in [Keys -> Owners]
      BY <1>1, <2>1, <2>2, <2>3 DEF TokensOK, PageOK, Opening, Dialog, Visit
  <2>5. ShownHere' /\ Entered'
      BY <2>1, <2>3, IdleType DEF SharingInv, ShownHere, Entered
  <2>6. Lone' /\ Complete'
      BY <1>3, <2>3, IdleType DEF Lone, Complete, Waiting
  <2>7. UrlListed' /\ LivingLinksListed' /\ DeadIsRefused'
      BY <1>3, <2>1, <2>2
      DEF SharingInv, UrlListed, LivingLinksListed, DeadIsRefused
  <2>. QED
      BY <2>4, <2>5, <2>6, <2>7, TypePartsNext DEF SharingInv
<1>. QED
    BY <1>4, <1>5

\* A new token, entered in the list of the user or not (listed).
LEMMA CreateKeepsInv ==
    ASSUME SharingInv, NEW o \in Openers, NEW t \in Tokens, Create(o, t),
           NEW q \in Opening', opening' = [opening EXCEPT ![o] = q],
           \/ q = Idle /\ userTokens' = userTokens
           \/ /\ q = [opening[o] EXCEPT !.at = "created", !.tokens = {t}]
              /\ userTokens' = userTokens \cup {t},
           UNCHANGED <<stored, ended, here, dialog, rash, copied, visit>>
    PROVE  SharingInv'
<1>1. TokensOK /\ PageOK /\ visit \in Visit /\ stored \in [Keys -> Owners]
    BY TypeParts DEF SharingInv
<1>2. t \notin drawn /\ t # NoToken /\ drawn' = drawn \cup {t} /\ share' = share \cup {t}
      /\ Waiting(o) /\ opening[o].at = "create"
    BY KeysAssumption DEF Create, Waiting
<1>3. copied' \cap share' = copied \cap share /\ dialog.url # t
    BY <1>1, <1>2 DEF TokensOK, PageOK, Dialog
<1>4. /\ opening' \in [Openers -> Opening'] /\ opening'[o] = q
      /\ \A p \in Openers \ {o} : opening'[p] = opening[p] /\ t \notin opening[p].tokens
      /\ q.tokens \subseteq {t} \cap userTokens' /\ (q.shown => opening[o].shown)
      /\ q.at \in {"idle", "created"}
  <2>1. \A p \in Openers : opening[p] \in Opening /\ opening[p] \in Opening'
      BY <1>1, <1>2 DEF PageOK, Opening
  <2>2. /\ q.tokens \subseteq {t} \cap userTokens' /\ (q.shown => opening[o].shown)
        /\ q.at \in {"idle", "created"}
      BY <2>1, IdleType DEF Opening
  <2>3. opening' \in [Openers -> Opening'] /\ opening'[o] = q
        /\ \A p \in Openers \ {o} : opening'[p] = opening[p]
      BY <1>1, <2>1 DEF PageOK
  <2>. QED
      BY <1>2, <2>1, <2>2, <2>3 DEF Opening
<1>5. TokensOK' /\ (visit \in Visit)' /\ stored' \in [Keys -> Owners]
    BY <1>1, <1>2 DEF TokensOK, Visit
<1>6. PageOK'
    BY <1>1, <1>2, <1>4 DEF PageOK, Dialog
<1>7. ShownHere' /\ Entered'
    BY <1>2, <1>3, <1>4 DEF SharingInv, ShownHere, Entered
<1>8. ~rash => /\ \A p \in Openers \ {o} : ~Waiting(p)
               /\ ~dialog.open /\ copied \cap share = {}
    BY <1>2, WaitsAlone DEF SharingInv, Complete
<1>9. Lone' /\ Complete'
    BY <1>3, <1>4, <1>8 DEF Lone, Complete, Waiting
<1>10. UrlListed' /\ LivingLinksListed' /\ DeadIsRefused'
    BY <1>2, <1>3
    DEF SharingInv, UrlListed, LivingLinksListed, DeadIsRefused
<1>. QED
    BY <1>5, <1>6, <1>7, <1>9, <1>10, TypePartsNext DEF SharingInv

LEMMA OpenerKeepsInv ==
    ASSUME SharingInv, NEW o \in Openers, Opener(o)
    PROVE  SharingInv'
<1>1. TokensOK /\ PageOK /\ opening[o] \in Opening
    BY TypeParts DEF SharingInv, PageOK
<1>2. CASE OpenShare(o)
  <2>. DEFINE q == [at |-> "list", shown |-> TRUE, tokens |-> {}]
  <2>1. q \in Opening /\ q.tokens = {} /\ q.at = "list"
      BY DEF Opening
  <2>2. rash' \in BOOLEAN /\ (~rash' => \A p \in Openers \ {o} : ~Waiting(p))
      BY <1>2 DEF OpenShare, Waiting
  <2>3. LivingLinksListed' /\ ~dialog.open /\ here
      BY <1>2 DEF OpenShare, LivingLinksListed
  <2>. QED
      BY <1>2, <2>1, <2>2, <2>3, OpeningKeepsInv DEF OpenShare
<1>3. CASE ListShareTokens(o)
  <2>. DEFINE q == [opening[o] EXCEPT !.at = "listed", !.tokens = userTokens \cap share]
  <2>1. q \in Opening /\ q.tokens = userTokens \cap share /\ q.at = "listed"
        /\ q.shown = opening[o].shown
      BY <1>1 DEF Opening, TokensOK
  <2>2. /\ opening' = [opening EXCEPT ![o] = q]
        /\ UNCHANGED <<stored, share, userTokens, drawn, ended, here, dialog, rash,
                       copied, visit>>
        /\ Waiting(o)
      BY <1>1, <1>3 DEF ListShareTokens, PageOK, Waiting
  <2>3. copied \cap share \subseteq q.tokens /\ (q.shown => here) /\ rash' \in BOOLEAN
      BY <1>1, <2>1, <2>2 DEF SharingInv, Entered, ShownHere, PageOK
  <2>. HIDE DEF q
  <2>4. LivingLinksListed'
      BY <2>2 DEF SharingInv, LivingLinksListed
  <2>. QED
      BY <2>1, <2>2, <2>3, <2>4, WaitsAlone, OpeningKeepsInv
<1>4. CASE ListArrives(o)
  <2>1. CASE opening[o].tokens # {}
      BY <1>4, <2>1, OpenKeepsInv DEF ListArrives
  <2>2. CASE opening[o].tokens = {}
    <3>. DEFINE q == [opening[o] EXCEPT !.at = "create"]
    <3>1. q \in Opening /\ q.tokens = {} /\ q.at = "create" /\ q.shown = opening[o].shown
        BY <1>1, <2>2 DEF Opening
    <3>2. /\ opening' = [opening EXCEPT ![o] = q]
          /\ UNCHANGED <<stored, share, userTokens, drawn, ended, here, dialog, rash,
                         copied, visit>>
          /\ Waiting(o) /\ opening[o].at = "listed"
        BY <1>1, <1>4, <2>2 DEF ListArrives, PageOK, Waiting
    <3>3. (q.shown => here) /\ rash' \in BOOLEAN /\ (~rash => copied \cap share = {})
        BY <1>1, <2>2, <3>1, <3>2 DEF SharingInv, Complete, ShownHere, PageOK
    <3>. HIDE DEF q
    <3>4. LivingLinksListed'
        BY <3>2 DEF SharingInv, LivingLinksListed
    <3>. QED
        BY <3>1, <3>2, <3>3, <3>4, WaitsAlone, OpeningKeepsInv
  <2>. QED
      BY <2>1, <2>2
<1>5. CASE CreateShareToken(o)
  <2>1. PICK t \in Tokens :
          /\ Create(o, t)
          /\ opening' = [opening EXCEPT ![o].at = "created", ![o].tokens = {t}]
          /\ userTokens' = userTokens \cup {t}
      BY <1>5 DEF CreateShareToken
  <2>. DEFINE q == [opening[o] EXCEPT !.at = "created", !.tokens = {t}]
  <2>2. q \in Opening' /\ opening' = [opening EXCEPT ![o] = q]
      BY <1>1, <2>1 DEF Opening, PageOK, Create
  <2>. QED
      BY <1>5, <2>1, <2>2, CreateKeepsInv DEF CreateShareToken
<1>6. CASE CreateHalf(o)
  <2>1. Idle \in Opening'
      BY DEF Idle, Opening
  <2>. QED
      BY <1>6, <2>1, CreateKeepsInv DEF CreateHalf
<1>7. CASE CreateArrives(o)
    BY <1>7, OpenKeepsInv DEF CreateArrives
<1>8. CASE ShareFails(o)
  <2>1. Waiting(o) /\ LivingLinksListed' /\ rash' \in BOOLEAN
      BY <1>1, <1>8 DEF ShareFails, Waiting, SharingInv, LivingLinksListed, PageOK
  <2>. QED
      BY <1>8, <2>1, IdleType, WaitsAlone, OpeningKeepsInv DEF ShareFails
<1>. QED
    BY <1>2, <1>3, <1>4, <1>5, <1>6, <1>7, <1>8 DEF Opener

-----------------------------------------------------------------------------
LEMMA NextKeepsInv == SharingInv /\ [Next]_vars => SharingInv'
<1>. SUFFICES ASSUME SharingInv, [Next]_vars PROVE SharingInv'
    OBVIOUS
<1>1. CASE UNCHANGED vars
  <2>1. visit' \in Visit /\ here' \in BOOLEAN /\ stored' \in [Keys -> Owners]
        /\ DeadIsRefused'
      BY <1>1, TypeParts DEF vars, SharingInv, PageOK, DeadIsRefused
  <2>. QED
      BY <1>1, <2>1, OutsideKeepsInv DEF vars
<1>2. CASE TokenExpires
    BY <1>2, EndKeepsInv DEF TokenExpires
<1>3. ASSUME NEW t \in Tokens, HandleRevoke(t) PROVE SharingInv'
    BY <1>3, EndKeepsInv DEF HandleRevoke, Revoke
<1>. QED
    BY <1>1, <1>2, <1>3, ResultsKeepInv, VisitKeepsInv, LeavePageKeepsInv,
       OpenerKeepsInv, HandleCopyKeepsInv, CloseDialogKeepsInv
    DEF Next

-----------------------------------------------------------------------------
(* Theorems.                                                                *)

LEMMA AlwaysInv == Spec => []SharingInv
    BY InitInv, NextKeepsInv, PTL DEF Spec

\* The type invariant of results, tokens, dialog and visit.
THEOREM SharingTypeCorrect == Spec => []TypeOK
<1>1. SharingInv => TypeOK
    BY DEF SharingInv
<1>. QED
    BY <1>1, AlwaysInv, PTL

\* Every link that was given away and still opens can be revoked from the open dialog,
\* for any number of failed, late and half-done requests.
THEOREM LivingLinksAlwaysListed == Spec => []LivingLinksListed
<1>1. SharingInv => LivingLinksListed
    BY DEF SharingInv
<1>. QED
    BY <1>1, AlwaysInv, PTL

\* Nobody gets to see anything by a link that was dead when he asked.
THEOREM RevokedAlwaysDead == Spec => []RevokedIsDead
<1>1. SharingInv => RevokedIsDead
    BY DEF SharingInv, DeadIsRefused, RevokedIsDead, View, Crashed
<1>. QED
    BY <1>1, AlwaysInv, PTL

=============================================================================
