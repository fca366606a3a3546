----------------------------- MODULE MemberInbox -----------------------------
(* The messages of the member (components/MemberMessages.tsx): a list read   *)
(* from the Cloud every minute, and messages the user opens, each of which   *)
(* is acknowledged to the Cloud by a request of its own.  A list read before *)
(* an acknowledgement may arrive after it, and an acknowledgement may be     *)
(* lost after the Cloud has taken it.  One message is built in: its state is *)
(* kept in the browser, when the browser keeps anything.                     *)
EXTENDS Naturals

CONSTANTS
  Messages,   \* of the Cloud
  Welcome,    \* the one built in
  NoList      \* no list is being read

ASSUME InboxAssumption == Welcome \notin Messages

VARIABLES
  inbox,      \* the messages shown: whether each is unread
  listing,    \* the last list asked for: what the Cloud had as read then
  pending,    \* pendingReads: messages whose acknowledgement is under way
  french,     \* the language
  opened,     \* the language each of them was opened in
  kept,       \* whether the browser's storage works
  readIds,    \* messages read, in the browser's storage
  taken,      \* Cloud: messages read
  answered    \* messages whose acknowledgement was answered, or kept

cloudRead == <<taken, answered>>
inboxVars == <<inbox, listing, pending, french, opened, kept, readIds, cloudRead>>

InboxInit ==
  /\ inbox = <<>> /\ listing = [read |-> {}]
  /\ pending = {} /\ french = FALSE /\ opened = [m \in Messages |-> FALSE]
  /\ kept \in BOOLEAN /\ readIds = {}
  /\ taken = {} /\ answered = {}

(* load() returns at once while an acknowledgement is under way.             *)
NeverBlocked(acks) == FALSE
Blocked(acks) == acks # {}

LoadMessages(acks, read) ==
  listing' = IF Blocked(acks) THEN listing ELSE [read |-> read]

(* "Refresh", the minute's poll, a wake-up.                                  *)
Refetch ==
  /\ LoadMessages(pending, taken)
  /\ UNCHANGED <<inbox, pending, french, opened, kept, readIds, cloudRead>>

(* Another language: the list under way is forgotten.                        *)
SwitchLanguage ==
  /\ french' = ~french
  /\ listing' = IF Blocked(pending) THEN NoList ELSE [read |-> taken]
  /\ UNCHANGED <<inbox, pending, opened, kept, readIds, cloudRead>>

(* The list arrives, as it was at some moment after it was asked for.        *)
ListArrives ==
  /\ listing # NoList /\ listing' = NoList
  /\ \E read \in {listing.read, taken}, sent \in SUBSET Messages :
       inbox' = [m \in sent \union {Welcome} |-> m \notin read \union readIds]
  /\ UNCHANGED <<pending, french, opened, kept, readIds, cloudRead>>

ListFails ==
  /\ listing # NoList /\ listing' = NoList
  /\ inbox' = <<>>
  /\ UNCHANGED <<pending, french, opened, kept, readIds, cloudRead>>

-----------------------------------------------------------------------------
(* openMessage().                                                            *)

Mark(m, unread) ==
  inbox' = [n \in DOMAIN inbox |-> IF n = m THEN unread ELSE inbox[n]]

NotForgotten(list) == list
Forgotten(list) == NoList

OpenWelcome ==
  /\ Welcome \in DOMAIN inbox /\ inbox[Welcome]
  /\ Mark(Welcome, FALSE)
  /\ listing' = Forgotten(listing)
  /\ readIds' = IF kept THEN readIds \union {Welcome} ELSE readIds
  /\ answered' = answered \union readIds'
  /\ UNCHANGED <<pending, french, opened, kept, taken>>

OpenMessage(m) ==
  /\ m \in DOMAIN inbox /\ inbox[m]
  /\ Mark(m, FALSE)
  /\ listing' = Forgotten(listing)
  /\ pending' = pending \union {m}
  /\ opened' = [opened EXCEPT ![m] = french]
  /\ UNCHANGED <<french, kept, readIds, cloudRead>>

(* The acknowledgement of m ends; a list in the language chosen meanwhile    *)
(* is asked for.                                                             *)
AckEnds(m) ==
  /\ m \in pending /\ pending' = pending \ {m}
  /\ IF french # opened[m] THEN LoadMessages(pending', taken') ELSE UNCHANGED listing
  /\ UNCHANGED <<french, opened, kept, readIds>>

Acknowledged(m) ==
  /\ taken' = taken \union {m} /\ answered' = answered \union {m}
  /\ AckEnds(m)
  /\ Mark(m, FALSE)

(* Refused, or lost, perhaps after the Cloud has taken it.                   *)
NotAcknowledged(m) ==
  /\ taken' \in {taken, taken \union {m}} /\ UNCHANGED answered
  /\ AckEnds(m)
  /\ Mark(m, TRUE)

InboxNext ==
  \/ Refetch \/ SwitchLanguage \/ ListArrives \/ ListFails \/ OpenWelcome
  \/ \E m \in Messages : OpenMessage(m) \/ Acknowledged(m) \/ NotAcknowledged(m)

InboxSpec == InboxInit /\ [][InboxNext]_inboxVars
-----------------------------------------------------------------------------
(* "Invalidate any read snapshot obtained before this acknowledgement"       *)
(* (MemberMessages.tsx:164): a message whose acknowledgement was answered is *)
(* never shown as unread again.                                              *)
ReadStaysRead == \A m \in answered \intersect DOMAIN inbox : ~inbox[m]
=============================================================================
