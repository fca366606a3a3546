----------------------------- MODULE EmailReview -----------------------------
(* Emails that wait for approval (components/EmailApprovals.tsx): a page of  *)
(* the queue is read for the shop, the status and the offset selected, again *)
(* every minute and after every action; the selected email is shown in a     *)
(* frame that loads by itself, and is approved or rejected as it is listed.  *)
(* Requests overlap; answers to superseded ones change nothing (load checks  *)
(* requestSequence after each await) and are left out.  The shops of the     *)
(* account do not change meanwhile.  The Cloud and the local archive decide  *)
(* what a page lists.                                                        *)
CONSTANTS
  Shops,     \* of the account
  Mails,     \* emails that wait
  Copies,    \* contents an email has had: its copy signatures
  NoMail     \* none

(* An email as listed: the local copy may be missing or be another one, or   *)
(* have no document but text.                                                *)
Forms == {"document", "text", "missing"}
Pages ==
  {{[mail |-> m, copy |-> copy[m], form |-> form[m]] : m \in listed} :
     listed \in SUBSET Mails, copy \in [Mails -> Copies], form \in [Mails -> Forms]}

ASSUME ReviewAssumption == NoMail \notin [shop : Shops, after : BOOLEAN]

VARIABLES
  shop,        \* the shop selected
  items,       \* emails listed
  chosen,      \* the one selected
  frame,       \* the one whose document has loaded
  reading,     \* the last request for a page
  failed,      \* an error is shown
  busy,        \* "no", or an action that is "sent" or "reloading"
  action,      \* the last action: what was posted
  unsettled    \* emails acted on since a page was asked for

reviewVars == <<shop, items, chosen, frame, reading, failed, busy, action, unsettled>>

(* load(): a page asked for once no action is under way shows what they did. *)
Read(s, after) ==
  /\ reading' = [shop |-> s, after |-> after]
  /\ failed' = FALSE

ReviewInit ==
  /\ shop \in Shops
  /\ items = {} /\ chosen = NoMail /\ frame = NoMail
  /\ reading = [shop |-> shop, after |-> TRUE] /\ failed = FALSE
  /\ busy = "no" /\ action = NoMail /\ unsettled = {}

loading == reading # NoMail

(* The selection stays if it is still listed; what is selected is a new      *)
(* object, so its document loads again.                                      *)
Listed ==
  /\ loading /\ reading' = NoMail
  /\ \E page \in Pages :
       /\ items' = page
       /\ chosen' \in page \union (IF page = {} THEN {NoMail} ELSE {})
       /\ (\E i \in page : chosen # NoMail /\ i.mail = chosen.mail) => chosen'.mail = chosen.mail
  /\ frame' = NoMail
  /\ unsettled' = IF reading.after THEN {} ELSE unsettled
  /\ busy' = IF busy = "reloading" THEN "no" ELSE busy
  /\ UNCHANGED <<shop, failed, action>>

Unreadable ==
  /\ loading /\ reading' = NoMail
  /\ items' = {} /\ chosen' = NoMail /\ frame' = NoMail
  /\ failed' = TRUE
  /\ busy' = IF busy = "reloading" THEN "no" ELSE busy
  /\ UNCHANGED <<shop, action, unsettled>>

(* "Refresh", the minute's poll, a wake-up.                                  *)
Refreshes ==
  /\ busy = "no"
  /\ Read(shop, TRUE)
  /\ UNCHANGED <<shop, items, chosen, frame, busy, action, unsettled>>

(* Another language loads the page again, even during an action.             *)
Translates ==
  /\ Read(shop, busy # "sent")
  /\ UNCHANGED <<shop, items, chosen, frame, busy, action, unsettled>>

(* changePage(): another shop, status or page.                               *)
Turn ==
  /\ busy = "no"
  /\ shop' \in Shops
  /\ items' = {} /\ chosen' = NoMail /\ frame' = NoMail
  /\ Read(shop', TRUE)
  /\ UNCHANGED <<busy, action, unsettled>>

Choose(i) ==
  /\ ~loading /\ ~failed
  /\ chosen' = i
  /\ frame' = IF i = chosen THEN frame ELSE NoMail
  /\ UNCHANGED <<shop, items, reading, failed, busy, action, unsettled>>

FrameLoads ==
  /\ ~loading /\ ~failed
  /\ chosen # NoMail /\ chosen.form = "document"
  /\ frame' = chosen
  /\ UNCHANGED <<shop, items, chosen, reading, failed, busy, action, unsettled>>

-----------------------------------------------------------------------------
(* act(kind), confirmed by the user.                                         *)

Loaded == chosen.form = "document" => frame = chosen
Legible == chosen.form # "missing"
MayApproveUnloaded == Legible
MayApprove == Legible /\ Loaded

SettledAnyway == TRUE
Settled == ~failed

Act(kind) ==
  /\ chosen # NoMail /\ busy = "no" /\ ~loading /\ Settled
  /\ kind = "approve" => MayApprove
  /\ busy' = "sent"
  /\ action' = [kind |-> kind, mail |-> chosen.mail, copy |-> chosen.copy, shop |-> shop]
  /\ unsettled' = unsettled \union {chosen.mail}
  /\ failed' = FALSE
  /\ UNCHANGED <<shop, items, chosen, frame, reading>>

Done ==
  /\ busy = "sent" /\ busy' = "reloading"
  /\ Read(action.shop, TRUE)
  /\ UNCHANGED <<shop, items, chosen, frame, action, unsettled>>

(* Refused, or the answer is lost: the Cloud may have acted.                 *)
NotDone ==
  /\ busy = "sent" /\ busy' = "no"
  /\ failed' = TRUE
  /\ UNCHANGED <<shop, items, chosen, frame, reading, action, unsettled>>

ReviewNext ==
  \/ Listed \/ Unreadable \/ Refreshes \/ Translates \/ Turn
  \/ (\E i \in items : Choose(i)) \/ FrameLoads
  \/ (\E kind \in {"approve", "reject"} : Act(kind)) \/ Done \/ NotDone

ReviewSpec == ReviewInit /\ [][ReviewNext]_reviewVars
-----------------------------------------------------------------------------
(* "Approve this exact email" (EmailApprovals.tsx:155): what is approved is  *)
(* the copy the page showed, read from the shop it is posted for, and no     *)
(* email is acted on again before a page was read after the last action on   *)
(* it, whose answer may have been lost.                                      *)
ApprovedWasPreviewed ==
  [][busy' = "sent" /\ busy # "sent" =>
       /\ action'.kind = "approve" =>
            \/ frame # NoMail /\ frame.mail = action'.mail /\ frame.copy = action'.copy
            \/ \E i \in items : i.form = "text" /\ i.mail = action'.mail /\ i.copy = action'.copy
       /\ action'.mail \notin unsettled]_reviewVars
=============================================================================
