---------------------------- MODULE ProfileSharing ----------------------------
(***************************************************************************)
(* Sharing of listening profiles: the dialog of the profile page           *)
(* (frontend/src/pages/Profile.tsx), the endpoints of                      *)
(* backend/app/api/profile.py and the public page                          *)
(* (frontend/src/pages/ProfileShared.tsx).                                 *)
(*                                                                         *)
(* One owner with one page, one visitor.  Results are kept under random    *)
(* keys, here numbered in their sorted order.  openShare is a handler with *)
(* two requests that a second click, or a visit after the page was left,   *)
(* starts again while it waits: each start is a member of Openers.         *)
(***************************************************************************)
EXTENDS Naturals

CONSTANTS
    Tokens,     \* share tokens that may be drawn; bounds how many are
    Openers,    \* bounds how many openShare wait at once
    Keys,       \* positions of result keys
    NoToken

ASSUME KeysAssumption == Keys \subseteq Nat /\ NoToken \notin Tokens

VARIABLES
    stored,     \* profile:result:*, per key: whose it is
    share,      \* tokens with a profile:share:{token}
    userTokens, \* profile:share_tokens:{user}
    drawn,      \* tokens ever drawn (history)
    ended,      \* those revoked or expired (history)
    here,       \* is the profile page shown?
    dialog,     \* shareDialogOpen, shareTokens, shareUrl
    opening,    \* per start of openShare: what it waits for
    rash,       \* history: was openShare started while another one waited?
    copied,     \* links given to others (history)
    visit       \* the public page, and whether its link was dead when asked for

vars == <<stored, share, userTokens, drawn, ended, here, dialog, opening, rash, copied, visit>>

\* "bare": a stored error, without radar and clusters.
Owners == {"none", "mine", "others", "bare"}

Closed == [open |-> FALSE, tokens |-> {}, url |-> NoToken]
Idle == [at |-> "idle", shown |-> FALSE, tokens |-> {}]
NoVisit == [at |-> "none", token |-> NoToken, dead |-> FALSE, shown |-> "none"]

TypeOK ==
    /\ stored \in [Keys -> Owners]
    /\ share \subseteq drawn /\ userTokens \subseteq drawn /\ drawn \subseteq Tokens
    /\ ended \subseteq drawn \ share
    /\ here \in BOOLEAN /\ rash \in BOOLEAN
    /\ dialog \in [open : BOOLEAN, tokens : SUBSET drawn, url : drawn \cup {NoToken}]
    /\ dialog.open => here
    /\ opening \in [Openers -> [at : {"idle", "list", "listed", "create", "created"},
                                shown : BOOLEAN, tokens : SUBSET drawn]]
    /\ copied \subseteq drawn
    /\ visit \in [at : {"none", "asked", "found", "shown", "error", "crashed"},
                  token : copied \cup {NoToken}, dead : BOOLEAN, shown : Owners]

\* The page with its profile just loaded.
Init ==
    /\ stored \in {f \in [Keys -> {"none", "mine"}] : \E k \in Keys : f[k] = "mine"}
    /\ share = {} /\ userTokens = {} /\ drawn = {} /\ ended = {} /\ copied = {}
    /\ here = TRUE /\ dialog = Closed
    /\ opening = [o \in Openers |-> Idle] /\ rash = FALSE
    /\ visit = NoVisit

-----------------------------------------------------------------------------
(* Results are stored by tasks of all users and live for an hour.           *)

Store ==
    /\ \E k \in Keys, whose \in Owners \ {"none"} :
        /\ stored[k] = "none"
        /\ stored' = [stored EXCEPT ![k] = whose]
    /\ UNCHANGED <<share, userTokens, drawn, ended, here, dialog, opening, rash, copied, visit>>

ResultExpires ==
    /\ \E k \in Keys : stored[k] # "none" /\ stored' = [stored EXCEPT ![k] = "none"]
    /\ UNCHANGED <<share, userTokens, drawn, ended, here, dialog, opening, rash, copied, visit>>

\* After seven days; the set of the user's tokens is not told.
TokenExpires ==
    /\ \E t \in share : share' = share \ {t} /\ ended' = ended \cup {t}
    /\ UNCHANGED <<stored, userTokens, drawn, here, dialog, opening, rash, copied, visit>>

-----------------------------------------------------------------------------
(* The page.  What openShare waits for goes on when it is left, and what it  *)
(* sets then is lost.                                                       *)

LeavePage ==
    /\ here /\ here' = FALSE
    /\ dialog' = Closed
    /\ opening' = [o \in Openers |-> [opening[o] EXCEPT !.shown = FALSE]]
    /\ UNCHANGED <<stored, share, userTokens, drawn, ended, rash, copied, visit>>

\* With a profile that was generated again.
ComeBack ==
    /\ ~here /\ here' = TRUE
    /\ UNCHANGED <<stored, share, userTokens, drawn, ended, dialog, opening, rash, copied, visit>>

-----------------------------------------------------------------------------
(* openShare: the list, and when it is empty a new token.                   *)

OpenShare(o) ==
    /\ here /\ ~dialog.open
    /\ opening[o].at = "idle"
    /\ opening' = [opening EXCEPT ![o] = [at |-> "list", shown |-> TRUE, tokens |-> {}]]
    /\ rash' = \E other \in Openers : opening[other].at # "idle"
    /\ UNCHANGED <<stored, share, userTokens, drawn, ended, here, dialog, copied, visit>>

ListShareTokens(o) ==
    /\ opening[o].at = "list"
    /\ opening' = [opening EXCEPT ![o].at = "listed", ![o].tokens = userTokens \cap share]
    /\ UNCHANGED <<stored, share, userTokens, drawn, ended, here, dialog, rash, copied, visit>>

\* The dialog opens with the tokens that there are.
Open(o, url) ==
    /\ opening' = [opening EXCEPT ![o] = Idle]
    /\ dialog' = IF opening[o].shown
                 THEN [open |-> TRUE, tokens |-> opening[o].tokens, url |-> url] ELSE dialog

\* The list of a set is in no order: the last one is any.
ListArrives(o) ==
    /\ opening[o].at = "listed"
    /\ IF opening[o].tokens # {} THEN \E t \in opening[o].tokens : Open(o, t)
       ELSE opening' = [opening EXCEPT ![o].at = "create"] /\ UNCHANGED dialog
    /\ UNCHANGED <<stored, share, userTokens, drawn, ended, here, rash, copied, visit>>

Create(o, t) ==
    /\ opening[o].at = "create"
    /\ t \in Tokens \ drawn /\ drawn' = drawn \cup {t}
    /\ share' = share \cup {t}

\* Fault: the token is not entered in the list of the user.
CreateShareTokenUnlisted(o) ==
    /\ \E t \in Tokens : Create(o, t) /\ opening' = [opening EXCEPT ![o].at = "created",
                                                                    ![o].tokens = {t}]
    /\ UNCHANGED <<stored, userTokens, ended, here, dialog, rash, copied, visit>>

CreateShareToken(o) ==
    /\ \E t \in Tokens :
        /\ Create(o, t)
        /\ opening' = [opening EXCEPT ![o].at = "created", ![o].tokens = {t}]
        /\ userTokens' = userTokens \cup {t}
    /\ UNCHANGED <<stored, ended, here, dialog, rash, copied, visit>>

\* Redis fails between the token and the list.
CreateHalf(o) ==
    /\ \E t \in Tokens : Create(o, t)
    /\ opening' = [opening EXCEPT ![o] = Idle]
    /\ UNCHANGED <<stored, userTokens, ended, here, dialog, rash, copied, visit>>

CreateArrives(o) ==
    /\ opening[o].at = "created"
    /\ \E t \in opening[o].tokens : Open(o, t)
    /\ UNCHANGED <<stored, share, userTokens, drawn, ended, here, rash, copied, visit>>

\* A request, or its answer, is lost.
ShareFails(o) ==
    /\ opening[o].at # "idle"
    /\ opening' = [opening EXCEPT ![o] = Idle]
    /\ UNCHANGED <<stored, share, userTokens, drawn, ended, here, dialog, rash, copied, visit>>

-----------------------------------------------------------------------------
(* The dialog.                                                              *)

HandleCopy ==
    /\ dialog.open
    /\ copied' = copied \cup {dialog.url}
    /\ UNCHANGED <<stored, share, userTokens, drawn, ended, here, dialog, opening, rash, visit>>

CloseDialog ==
    /\ dialog.open /\ dialog' = [dialog EXCEPT !.open = FALSE]
    /\ UNCHANGED <<stored, share, userTokens, drawn, ended, here, opening, rash, copied, visit>>

\* Fault: the token is struck off the list only.
RevokeFromList(t) == userTokens' = userTokens \ {t} /\ UNCHANGED share

\* DELETE: a token without its key, revoked or expired, is answered 404.
Revoke(t) == t \in share /\ share' = share \ {t} /\ userTokens' = userTokens \ {t}

\* The answer takes the token from the list, unless it is lost.
HandleRevoke(t) ==
    /\ dialog.open /\ t \in dialog.tokens
    /\ Revoke(t)
    /\ ended' = ended \cup {t}
    /\ dialog' \in {dialog, [dialog EXCEPT !.tokens = @ \ {t}]}
    /\ UNCHANGED <<stored, drawn, here, opening, rash, copied, visit>>

-----------------------------------------------------------------------------
(* The public page and its endpoint.                                        *)

Loading == visit.at \in {"asked", "found"}
ErrorCard == visit.at = "error"
View == visit.at = "shown"

\* An exception of the rendering.
Crashed == visit.at = "crashed"

VisitShared ==
    /\ visit.at = "none"
    /\ \E t \in copied : visit' = [at |-> "asked", token |-> t, dead |-> t \in ended,
                                   shown |-> "none"]
    /\ UNCHANGED <<stored, share, userTokens, drawn, ended, here, dialog, opening, rash, copied>>

FindToken ==
    /\ visit.at = "asked"
    /\ visit' = [visit EXCEPT !.at = IF visit.token \in share THEN "found" ELSE "error"]
    /\ UNCHANGED <<stored, share, userTokens, drawn, ended, here, dialog, opening, rash, copied>>

\* The last of all the results, in the order of their keys.
LatestKey(k) == stored[k] # "none" /\ \A j \in Keys : stored[j] # "none" => j <= k

\* A stored error has no radar: the page reads profile.radar.length of it.
SharedProfile ==
    /\ visit.at = "found"
    /\ \E k \in Keys :
        /\ LatestKey(k)
        /\ visit' = [visit EXCEPT !.shown = stored[k],
                                  !.at = IF stored[k] = "bare" THEN "crashed" ELSE "shown"]
    /\ UNCHANGED <<stored, share, userTokens, drawn, ended, here, dialog, opening, rash, copied>>

\* No result is left, or the request is lost.
SharedFails ==
    /\ Loading
    /\ visit' = [visit EXCEPT !.at = "error"]
    /\ UNCHANGED <<stored, share, userTokens, drawn, ended, here, dialog, opening, rash, copied>>

CloseVisit ==
    /\ Loading \/ ErrorCard \/ View \/ Crashed
    /\ visit' = NoVisit
    /\ UNCHANGED <<stored, share, userTokens, drawn, ended, here, dialog, opening, rash, copied>>

-----------------------------------------------------------------------------
Opener(o) ==
    \/ OpenShare(o) \/ ListShareTokens(o) \/ ListArrives(o)
    \/ CreateShareToken(o) \/ CreateHalf(o) \/ CreateArrives(o) \/ ShareFails(o)

Next ==
    \/ Store \/ ResultExpires \/ TokenExpires \/ LeavePage \/ ComeBack
    \/ \E o \in Openers : Opener(o)
    \/ HandleCopy \/ CloseDialog
    \/ \E t \in Tokens : HandleRevoke(t)
    \/ VisitShared \/ FindToken \/ SharedProfile \/ SharedFails \/ CloseVisit

Spec == Init /\ [][Next]_vars

-----------------------------------------------------------------------------
(* Properties.                                                              *)

\* A link that was given away and still opens is in the open dialog, next to the button
\* that revokes it, whatever requests failed before and however often the page was left
\* meanwhile.  Excepted: openShare was started while another one waited; both found no
\* token then, both created one, and the dialog shows one of the two.
LivingLinksListed ==
    dialog.open /\ ~rash => copied \cap share \subseteq dialog.tokens

\* Whoever asks with a link that was revoked or has expired gets to see nobody's profile.
RevokedIsDead ==
    View \/ Crashed => ~visit.dead

\* What a visitor is shown under the owner's name is the owner's profile.
SharedIsOwners ==
    View => visit.shown = "mine"

=============================================================================
