----------------------------- MODULE FundingOffer -----------------------------
(* The offers shown to a member of the free plan                            *)
(* (components/CommunityFunding.tsx): they are asked for anew with every    *)
(* verification of the plan and expire by themselves; a link to a payment   *)
(* is asked for under an offer and accepted by its mode; one sponsor is     *)
(* advertised on each page.                                                 *)
EXTENDS Naturals

CONSTANTS
  Sponsors,     \* that the Cloud may name
  Sections,     \* of the dashboard
  MaxOffers,    \* bound: offers received
  MaxSupports,  \* bound: requests of a link
  NoOffer       \* none

Offers == [number : Nat, sponsors : SUBSET Sponsors, payment : BOOLEAN]

ASSUME FundingAssumption == {MaxOffers, MaxSupports} \subseteq Nat /\ NoOffer \notin Offers

VARIABLES
  eligible,   \* the plan is the free one, active and lately verified
  seeking,      \* an offer is being asked for
  offer,      \* the one held: its number, its sponsors and if it has a payment
  offers,     \* received so far
  link,       \* to a payment: the number of the offer it was accepted under
  supports,   \* requests of a link under way: the offer, the order, aborted?
  newest,     \* the order of the last of them
  preparing,  \* the flag of the button
  unavailable,\* an error is shown
  section,    \* of the dashboard, shown
  advert,     \* the sponsor advertised and the section it was chosen in
  last        \* the sponsor that the browser remembers

fundingVars == <<eligible, seeking, offer, offers, link, supports, newest, preparing, unavailable,
                 section, advert, last>>

NoAdvert == [section |-> NoOffer, id |-> NoOffer]

FundingInit ==
  /\ eligible = FALSE /\ seeking = FALSE /\ offer = NoOffer /\ offers = 0 /\ link = NoOffer
  /\ supports = {} /\ newest = 0 /\ preparing = FALSE /\ unavailable = FALSE
  /\ section \in Sections /\ advert = NoAdvert /\ last \in Sponsors \union {NoOffer}

(* nextSponsor(): not the one before, when there is another.                 *)
NextSponsor(sponsors, previous) ==
  LET others == sponsors \ {previous} IN
  IF others # {} THEN others ELSE IF sponsors # {} THEN sponsors ELSE {NoOffer}

(* The sponsor of a section stays while it is offered.                       *)
Advertises(held, where) ==
  IF advert.section = where /\ advert.id \in held.sponsors
  THEN UNCHANGED <<advert, last>>
  ELSE \E next \in NextSponsor(held.sponsors, IF advert = NoAdvert THEN last ELSE advert.id) :
         /\ advert' = [section |-> where, id |-> next]
         /\ last' = IF next = NoOffer THEN last ELSE next

StillUnderWay(requests) == requests
Aborted(requests) == {[s EXCEPT !.aborted = TRUE] : s \in requests}

(* The plan is verified, or no longer so: what was asked under the last      *)
(* verification is aborted, the offer is cleared and asked for again.        *)
Verified(now) ==
  /\ eligible \/ now
  /\ eligible' = now /\ seeking' = now
  /\ offer' = NoOffer /\ link' = NoOffer /\ preparing' = FALSE /\ unavailable' = FALSE
  /\ supports' = Aborted(supports)
  /\ advert' = IF now THEN advert ELSE NoAdvert
  /\ UNCHANGED <<offers, newest, section, last>>

(* parseFunding(): an offer in its time, with any of its sponsors, and with  *)
(* a payment or none.                                                        *)
OfferArrives ==
  /\ seeking /\ offers < MaxOffers
  /\ seeking' = FALSE /\ offers' = offers + 1
  /\ \E sponsors \in SUBSET Sponsors, payment \in BOOLEAN :
       /\ offer' = [number |-> offers + 1, sponsors |-> sponsors, payment |-> payment]
       /\ Advertises(offer', section)
  /\ UNCHANGED <<eligible, link, supports, newest, preparing, unavailable, section>>

(* Refused, unreadable or late: nothing is shown.                            *)
OfferFails ==
  /\ seeking /\ seeking' = FALSE
  /\ UNCHANGED <<eligible, offer, offers, link, supports, newest, preparing, unavailable, section, advert, last>>

OfferExpires ==
  /\ offer # NoOffer
  /\ offer' = NoOffer /\ link' = NoOffer /\ supports' = Aborted(supports)
  /\ UNCHANGED <<eligible, seeking, offers, newest, preparing, unavailable, section, advert, last>>

(* prepareSupport().                                                         *)
PrepareSupport ==
  /\ eligible /\ offer # NoOffer /\ offer.payment /\ ~preparing /\ link = NoOffer
  /\ newest < MaxSupports
  /\ newest' = newest + 1
  /\ supports' = Aborted(supports) \union {[order |-> newest + 1, under |-> offer.number, aborted |-> FALSE]}
  /\ preparing' = TRUE /\ unavailable' = FALSE /\ link' = NoOffer
  /\ UNCHANGED <<eligible, seeking, offer, offers, section, advert, last>>

(* supportUrl(): a link in the mode of the offer it was asked under.         *)
LinkArrives(s) ==
  /\ s \in supports /\ ~s.aborted
  /\ supports' = supports \ {s}
  /\ link' = s.under
  /\ preparing' = (preparing /\ s.order # newest)
  /\ UNCHANGED <<eligible, seeking, offer, offers, newest, unavailable, section, advert, last>>

(* Aborted, or at its deadline, refused, or not a link of that mode.         *)
LinkFails(s) ==
  /\ s \in supports
  /\ supports' = supports \ {s}
  /\ preparing' = (preparing /\ s.order # newest)
  /\ unavailable' = (unavailable \/ s.order = newest)
  /\ UNCHANGED <<eligible, seeking, offer, offers, link, newest, section, advert, last>>

GoTo(where) ==
  /\ where # section /\ section' = where
  /\ IF offer # NoOffer THEN Advertises(offer, where) ELSE UNCHANGED <<advert, last>>
  /\ UNCHANGED <<eligible, seeking, offer, offers, link, supports, newest, preparing, unavailable>>

FundingNext ==
  \/ \E now \in BOOLEAN : Verified(now)
  \/ OfferArrives \/ OfferFails \/ OfferExpires
  \/ PrepareSupport
  \/ \E s \in supports : LinkArrives(s) \/ LinkFails(s)
  \/ \E where \in Sections : GoTo(where)

FundingSpec == FundingInit /\ [][FundingNext]_fundingVars
-----------------------------------------------------------------------------
(* CommunityFunding.tsx:34, 38: the link shown is one asked for and checked  *)
(* under the offer held: that of an earlier one, perhaps of another mode,    *)
(* does not come after that one has expired or been asked for again.         *)
LinkIsOfTheOffer ==
  link # NoOffer => eligible /\ offer # NoOffer /\ offer.payment /\ link = offer.number

(* CommunityFunding.tsx:49, "Background entitlement refreshes update content *)
(* without changing the ad": while the member stays in a section and remains *)
(* eligible, its sponsor is replaced only by an offer without it.            *)
AdStays ==
  (eligible /\ eligible' /\ advert.section = section /\ section' = section /\ advert' # advert)
    => offer = NoOffer /\ offer' # NoOffer /\ advert.id \notin offer'.sponsors

(* Together: no link or advertisement of an offer is shown under another.    *)
(* The error of a link that failed may be: nothing tells whose it was.       *)
OfferIsKept == [][LinkIsOfTheOffer' /\ AdStays]_fundingVars
=============================================================================
