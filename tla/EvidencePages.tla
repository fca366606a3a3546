---------------------------- MODULE EvidencePages ----------------------------
(* The pages of evidence: the audit of journeys (components/JourneyAudit),   *)
(* the orders and the emails sent (components/ConvertedOrders).  Each shows  *)
(* one page of a list of the Cloud, for a shop, a filter and a page number   *)
(* the user chooses while requests are under way; a counter tells which one  *)
(* is in force.  The list of shops is a request of its own, repeated when    *)
(* the language changes, and its failure ends the turning of the page.       *)
EXTENDS Naturals

CONSTANTS
  PageShops,    \* of the member
  MaxPage,      \* bound: pages of a list
  MaxListings,  \* bound: requests for the shops under way
  NoPayload     \* no shop, no page, no request

ASSUME EvidenceAssumption == MaxPage \in Nat \ {0} /\ MaxListings \in Nat \ {0}

VARIABLES
  list,      \* "audit", "orders" or "emails"
  sought,    \* what the user chose: shop, filter (or period, or length), page
  current,   \* the request in force: what it is for
  overtaken, \* one before it, not yet answered
  payload,   \* the page received
  turning,
  error,     \* a message is shown
  listings   \* requests for the shops under way

pageRequests == <<current, overtaken>>
evidenceVars == <<list, sought, pageRequests, payload, turning, error, listings>>

Wishes == [shop : PageShops \union {NoPayload}, filter : {"all", "some"}, page : 1 .. MaxPage]

(* No shop is selected before the list of them has arrived.                  *)
EvidenceInit ==
  /\ list \in {"audit", "orders", "emails"}
  /\ sought = [shop |-> NoPayload, filter |-> "all", page |-> 1]
  /\ current = NoPayload /\ overtaken = NoPayload /\ payload = NoPayload
  /\ turning = FALSE /\ error = FALSE
  /\ listings = 1

(* loadAudit(), loadOrders(), loadRecentEmails(): the request before it, of  *)
(* which the answer no longer counts, is past.                               *)
LoadPage(wish, past) ==
  /\ sought' = wish
  /\ overtaken' = IF past = NoPayload THEN overtaken ELSE past
  /\ IF wish.shop = NoPayload
     THEN current' = NoPayload /\ payload' = NoPayload /\ turning' = FALSE /\ UNCHANGED error
     ELSE current' = wish /\ turning' = TRUE /\ error' = FALSE /\ UNCHANGED payload

-----------------------------------------------------------------------------
(* The shops.                                                                *)

ShopsListed ==
  /\ listings > 0 /\ listings' = listings - 1
  /\ IF sought.shop # NoPayload THEN UNCHANGED <<sought, pageRequests, payload, turning, error>>
     ELSE \E shop \in PageShops \union {NoPayload} : LoadPage([sought EXCEPT !.shop = shop], current)
  /\ UNCHANGED list

(* The page of orders shows the message for both of its lists.               *)
ShopsNotListed ==
  /\ listings > 0 /\ listings' = listings - 1
  /\ error' = (error \/ list # "emails")
  /\ turning' = FALSE
  /\ UNCHANGED <<list, sought, pageRequests, payload>>

SpeakOther ==
  /\ listings < MaxListings /\ listings' = listings + 1
  /\ LoadPage(sought, current)
  /\ UNCHANGED list

-----------------------------------------------------------------------------
(* The user.                                                                 *)

(* Another shop: the audit turns to the first page at once; the emails are   *)
(* asked for at the same page, and then again at the first.                  *)
SelectShop(shop) ==
  /\ sought.shop # NoPayload /\ shop # sought.shop
  /\ LET past == IF list = "emails" /\ sought.page # 1 THEN [sought EXCEPT !.shop = shop] ELSE current
     IN LoadPage([sought EXCEPT !.shop = shop, !.page = 1], past)
  /\ UNCHANGED <<list, listings>>

SelectFilter(filter) ==
  /\ filter # sought.filter \/ (list = "emails" /\ sought.page # 1)
  /\ LoadPage([sought EXCEPT !.filter = filter, !.page = 1], current)
  /\ UNCHANGED <<list, listings>>

(* What the user sees; of the emails, only the page of this shop, filter and *)
(* number (emailContext).                                                    *)
PageShown ==
  /\ ~turning /\ payload # NoPayload
  /\ payload.shop = sought.shop
  /\ list = "emails" => ~error /\ payload = sought

TurnPage(page) ==
  /\ PageShown /\ list # "orders"
  /\ page \in {sought.page - 1, sought.page + 1} \intersect 1 .. MaxPage
  /\ LoadPage([sought EXCEPT !.page = page], current)
  /\ UNCHANGED <<list, listings>>

(* "Refresh", and every minute (useEvidenceRefresh).                         *)
RefreshPage ==
  /\ sought.shop # NoPayload
  /\ LoadPage(sought, current)
  /\ UNCHANGED <<list, listings>>

-----------------------------------------------------------------------------
(* Answers.                                                                  *)

AlwaysInForce(r) == TRUE
InForce(r) == r = current

PageEnds(r) ==
  IF r = current THEN current' = NoPayload /\ UNCHANGED overtaken
  ELSE overtaken' = NoPayload /\ UNCHANGED current

(* A page of the shop and filter asked for.  The Cloud may answer the audit  *)
(* with another page than the one asked for, which is then chosen, and so    *)
(* asked for.                                                                *)
PageArrives ==
  \E r \in {current, overtaken} \ {NoPayload} :
    /\ IF ~InForce(r)
       THEN PageEnds(r) /\ UNCHANGED <<sought, payload, turning, error>>
       ELSE \E page \in IF list = "audit" THEN 1 .. MaxPage ELSE {r.page} :
              /\ payload' = [r EXCEPT !.page = page]
              /\ IF page = r.page
                 THEN PageEnds(r) /\ turning' = FALSE /\ UNCHANGED <<sought, error>>
                 ELSE /\ sought' = [sought EXCEPT !.page = page]
                      /\ current' = sought' /\ UNCHANGED overtaken
                      /\ turning' = TRUE /\ error' = FALSE
    /\ UNCHANGED <<list, listings>>

(* Refused, lost, unreadable, or of another shop, page or filter.            *)
PageFails ==
  \E r \in {current, overtaken} \ {NoPayload} :
    /\ PageEnds(r)
    /\ IF InForce(r) THEN payload' = NoPayload /\ error' = TRUE /\ turning' = FALSE
       ELSE UNCHANGED <<payload, error, turning>>
    /\ UNCHANGED <<list, sought, listings>>

EvidenceNext ==
  \/ ShopsListed \/ ShopsNotListed \/ SpeakOther \/ RefreshPage
  \/ \E shop \in PageShops : SelectShop(shop)
  \/ \E filter \in {"all", "some"} : SelectFilter(filter)
  \/ \E page \in 1 .. MaxPage : TurnPage(page)
  \/ PageArrives \/ PageFails

EvidenceSpec == EvidenceInit /\ [][EvidenceNext]_evidenceVars
-----------------------------------------------------------------------------
(* JourneyAudit.tsx:167, ConvertedOrders.tsx:147: evidence that is shown     *)
(* without an error is of the shop, the filter and the page that are chosen, *)
(* however late and in whatever order the answers come.                      *)
EvidenceIsOfTheChoice == PageShown /\ ~error => payload = sought
=============================================================================
