--------------------------- MODULE DashboardProofs ---------------------------
(* What the views of the dashboard keep, for any shops, members, plans,      *)
(* pages, messages and times.  Each view has an inductive invariant of its   *)
(* own and a lemma for a step of it; the dashboard is in one view and leaves *)
(* the others alone, which the lemmas at the end put together.               *)
EXTENDS DashboardViews, FiniteSets, TLAPS, FiniteSetTheorems
-----------------------------------------------------------------------------
(* The entitlements.  The last request was sent after the logouts there have *)
(* been, and after what is shown was answered: whatever it brings is as new. *)
Accounts == [plan : Nat, logouts : Nat, session : BOOLEAN]
Asked == [silent : BOOLEAN, from : Nat, logouts : Nat, session : BOOLEAN]

EntitlementInv ==
  /\ account \in Accounts
  /\ asked # Nothing => /\ asked \in Asked
                        /\ asked.logouts = account.logouts /\ asked.from <= account.plan
  /\ caps # Nothing => caps.plan \in Nat /\ caps.plan <= account.plan
  /\ asked # Nothing /\ caps # Nothing => caps.plan <= asked.from

(* What a step may do to what is shown.                                      *)
TakesNewer ==
  caps' # caps /\ caps' # Nothing =>
    caps'.logouts = account'.logouts /\ (caps # Nothing => caps'.plan >= caps.plan)

LEMMA EntitlementInitInv == ViewInit => EntitlementInv
  BY DEF ViewInit, EntitlementInv, Request, Accounts, Asked

(* A request that replaces the last one is newer than what is shown.         *)
LEMMA LoadInv ==
  ASSUME EntitlementInv, NEW silent \in BOOLEAN, Load(silent) \/ UNCHANGED asking,
         UNCHANGED <<caps, account>>
  PROVE  EntitlementInv' /\ TakesNewer
<1>1. CASE UNCHANGED asked
  BY <1>1 DEF EntitlementInv, TakesNewer
<1>2. CASE asked' = Request(silent)
  <2>1. Request(silent) \in Asked
    BY DEF Request, EntitlementInv, Accounts, Asked
  <2> QED
    BY <1>2, <2>1 DEF Request, EntitlementInv, Accounts, TakesNewer
<1> QED
  BY <1>1, <1>2 DEF Load, asking

LEMMA EntitlementStep == EntitlementInv /\ [ViewNext]_viewVars => EntitlementInv' /\ TakesNewer
<1> SUFFICES ASSUME EntitlementInv, [ViewNext]_viewVars PROVE EntitlementInv' /\ TakesNewer
  OBVIOUS
<1>1. CASE UNCHANGED viewVars
  BY <1>1 DEF viewVars, asking, EntitlementInv, TakesNewer
<1>2. CASE Answered
  <2>1. PICK f \in {asked, outdated} \ {Nothing} :
          /\ AnswerEnds(f)
          /\ IF Counts(f)
             THEN Entitled(f) \/ Unauthenticated \/ \E wait \in BOOLEAN : Fails(f, wait)
             ELSE UNCHANGED <<status, timer, caps, backoff>>
          /\ UNCHANGED <<visible, pageActions, account>>
    BY <1>2 DEF Answered
  <2>2. CASE ~Counts(f)
    BY <2>1, <2>2 DEF Counts, AnswerEnds, EntitlementInv, TakesNewer
  <2>3. CASE Counts(f)
    <3>1. asked' = Nothing /\ f = asked /\ asked # Nothing /\ account' = account
      BY <2>1, <2>3 DEF Counts, AnswerEnds
    <3>2. CASE Entitled(f)
      <4>1. PICK plan \in f.from .. account.plan : caps' = [plan |-> plan, logouts |-> f.logouts]
        BY <3>2 DEF Entitled
      <4>2. f.from \in Nat /\ account.plan \in Nat
        BY <3>1 DEF EntitlementInv, Asked, Accounts
      <4>3. plan \in Nat /\ f.from <= plan /\ plan <= account.plan
        BY <4>1, <4>2
      <4> QED
        BY <3>1, <4>1, <4>2, <4>3 DEF EntitlementInv, TakesNewer
    <3>3. CASE Unauthenticated
      BY <3>1, <3>3 DEF Unauthenticated, EntitlementInv, TakesNewer
    <3>4. CASE \E wait \in BOOLEAN : Fails(f, wait)
      BY <3>1, <3>4 DEF Fails, EntitlementInv, TakesNewer
    <3> QED
      BY <2>1, <2>3, <3>2, <3>3, <3>4
  <2> QED
    BY <2>2, <2>3
<1>3. CASE RefreshPlan \/ Billed \/ CheckoutConfirmed \/ Retry \/ Shown
  BY <1>3, LoadInv DEF RefreshPlan, Billed, CheckoutConfirmed, Retry, Shown
<1>4. CASE TimerFires
  <2>1. Load(FALSE) \/ UNCHANGED asked
    BY <1>4 DEF TimerFires
  <2>2. UNCHANGED <<caps, account>>
    BY <1>4 DEF TimerFires
  <2>3. UNCHANGED asked => EntitlementInv' /\ TakesNewer
    BY <2>2 DEF EntitlementInv, TakesNewer
  <2> QED
    BY <2>1, <2>2, <2>3, LoadInv
<1>5. CASE Bill \/ Hidden \/ BackoffEnds
  BY <1>5, LoadInv DEF Bill, Hidden, BackoffEnds
<1>6. CASE Logout
  BY <1>6 DEF Logout, EntitlementInv, Accounts, TakesNewer
<1>7. CASE LoggedOut
  BY <1>7 DEF LoggedOut, EntitlementInv, Accounts, TakesNewer
<1>8. CASE Open
  <2>1. account' \in Accounts /\ UNCHANGED <<account.plan, account.logouts>>
    BY <1>8 DEF Open, EntitlementInv, Accounts
  <2>2. asked' = [silent |-> FALSE, from |-> account.plan, logouts |-> account.logouts,
                  session |-> account'.session]
    BY <1>8 DEF Open, Request
  <2>3. asked' \in Asked /\ asked'.logouts = account'.logouts /\ asked'.from <= account'.plan
    BY <2>1, <2>2 DEF EntitlementInv, Accounts, Asked
  <2>4. caps' = Nothing
    BY <1>8 DEF Open
  <2> QED
    BY <2>1, <2>3, <2>4 DEF EntitlementInv, TakesNewer
<1>9. CASE PlanChanges
  BY <1>9 DEF PlanChanges, asking, EntitlementInv, Accounts, Asked, TakesNewer
<1> QED
  BY <1>1, <1>2, <1>3, <1>4, <1>5, <1>6, <1>7, <1>8, <1>9 DEF ViewNext

-----------------------------------------------------------------------------
(* The emails to approve.  The one selected is listed; and while one was     *)
(* acted on and no page read since, the action is under way, an error is     *)
(* shown, or the page that was asked for after it is on its way.             *)
Listings == [mail : Mails, copy : Copies, form : Forms]

ReviewInv ==
  /\ shop \in Shops /\ (busy = "sent" => action.shop \in Shops)
  /\ items \subseteq Listings
  /\ chosen # NoMail => chosen \in items
  /\ unsettled # {} => busy = "sent" \/ failed \/ (loading /\ reading.after)

(* What a step that posts an action may post.                                *)
PostsWhatWasShown ==
  busy' = "sent" /\ busy # "sent" =>
    /\ action'.kind = "approve" =>
         \/ frame # NoMail /\ frame.mail = action'.mail /\ frame.copy = action'.copy
         \/ \E i \in items : i.form = "text" /\ i.mail = action'.mail /\ i.copy = action'.copy
    /\ action'.mail \notin unsettled

LEMMA ReviewInitInv == ReviewInit => ReviewInv
  BY DEF ReviewInit, ReviewInv

LEMMA ReadIsLoading ==
  ASSUME NEW s \in Shops, NEW after \in BOOLEAN, Read(s, after)
  PROVE  loading' /\ reading'.after = after /\ ~failed'
<1>1. [shop |-> s, after |-> after] # NoMail
  BY ReviewAssumption
<1> QED
  BY <1>1 DEF Read, loading

LEMMA ReviewStep == ReviewInv /\ [ReviewNext]_reviewVars => ReviewInv' /\ PostsWhatWasShown
<1> SUFFICES ASSUME ReviewInv, [ReviewNext]_reviewVars PROVE ReviewInv' /\ PostsWhatWasShown
  OBVIOUS
<1>1. CASE UNCHANGED reviewVars
  BY <1>1 DEF reviewVars, loading, ReviewInv, PostsWhatWasShown
<1>2. CASE Listed
  <2>1. PICK read \in Pages :
          /\ items' = read
          /\ chosen' \in read \union (IF read = {} THEN {NoMail} ELSE {})
    BY <1>2 DEF Listed
  <2>2. items' \subseteq Listings /\ (chosen' # NoMail => chosen' \in items')
    BY <2>1 DEF Pages, Listings
  <2>3. unsettled' # {} => ~reading.after /\ unsettled # {} /\ (busy' = "sent" \/ failed')
    BY <1>2 DEF Listed, ReviewInv
  <2> QED
    BY <1>2, <2>2, <2>3 DEF Listed, ReviewInv, PostsWhatWasShown
<1>3. CASE Unreadable
  BY <1>3 DEF Unreadable, ReviewInv, PostsWhatWasShown
<1>4. CASE Refreshes
  BY <1>4, ReadIsLoading DEF Refreshes, ReviewInv, PostsWhatWasShown
<1>5. CASE Translates
  BY <1>5, ReadIsLoading DEF Translates, ReviewInv, PostsWhatWasShown
<1>6. CASE Turn
  BY <1>6, ReadIsLoading DEF Turn, ReviewInv, PostsWhatWasShown
<1>7. ASSUME NEW i \in items, Choose(i) PROVE ReviewInv' /\ PostsWhatWasShown
  BY <1>7 DEF Choose, loading, ReviewInv, PostsWhatWasShown
<1>8. CASE FrameLoads
  BY <1>8 DEF FrameLoads, loading, ReviewInv, PostsWhatWasShown
<1>9. ASSUME NEW kind \in {"approve", "reject"}, Act(kind) PROVE ReviewInv' /\ PostsWhatWasShown
  <2>1. unsettled = {} /\ chosen \in items /\ chosen.form \in Forms
    BY <1>9 DEF Act, Settled, ReviewInv, Listings
  <2>2. action' = [kind |-> kind, mail |-> chosen.mail, copy |-> chosen.copy, shop |-> shop]
    BY <1>9 DEF Act
  <2>3. kind = "approve" => chosen.form = "text" \/ frame = chosen
    BY <1>9, <2>1 DEF Act, MayApprove, Legible, Loaded, Forms
  <2>4. PostsWhatWasShown
    BY <1>9, <2>1, <2>2, <2>3 DEF Act, PostsWhatWasShown
  <2> QED
    BY <1>9, <2>4 DEF Act, ReviewInv
<1>10. CASE Done
  BY <1>10, ReadIsLoading DEF Done, ReviewInv, PostsWhatWasShown
<1>11. CASE NotDone
  BY <1>11 DEF NotDone, ReviewInv, PostsWhatWasShown
<1> QED
  BY <1>1, <1>2, <1>3, <1>4, <1>5, <1>6, <1>7, <1>8, <1>9, <1>10, <1>11 DEF ReviewNext

-----------------------------------------------------------------------------
(* The messages.  A list under way was read after every acknowledgement that *)
(* was answered: none is under way while one of them is, and what is being   *)
(* acknowledged has not been answered.                                       *)
InboxInv ==
  /\ pending \subseteq Messages /\ readIds \subseteq {Welcome}
  /\ pending # {} => listing = NoList
  /\ listing # NoList => answered \subseteq listing.read \union readIds
  /\ answered \subseteq taken \union readIds
  /\ pending \intersect answered = {}
  /\ ReadStaysRead

LEMMA InboxInitInv == InboxInit => InboxInv
  BY DEF InboxInit, InboxInv, ReadStaysRead

LEMMA InboxStep == InboxInv /\ [InboxNext]_inboxVars => InboxInv'
<1> SUFFICES ASSUME InboxInv, [InboxNext]_inboxVars PROVE InboxInv'
  OBVIOUS
<1>1. CASE UNCHANGED inboxVars
  BY <1>1 DEF inboxVars, cloudRead, InboxInv, ReadStaysRead
<1>2. CASE Refetch
  BY <1>2 DEF Refetch, LoadMessages, Blocked, cloudRead, InboxInv, ReadStaysRead
<1>3. CASE SwitchLanguage
  BY <1>3 DEF SwitchLanguage, Blocked, cloudRead, InboxInv, ReadStaysRead
<1>4. CASE ListArrives
  <2>1. PICK read \in {listing.read, taken}, told \in SUBSET Messages :
          inbox' = [m \in told \union {Welcome} |-> m \notin read \union readIds]
    BY <1>4 DEF ListArrives
  <2>2. answered \subseteq read \union readIds
    BY <1>4, <2>1 DEF ListArrives, InboxInv
  <2>3. ReadStaysRead'
    BY <1>4, <2>1, <2>2 DEF ListArrives, cloudRead, ReadStaysRead
  <2> QED
    BY <1>4, <2>3 DEF ListArrives, cloudRead, InboxInv
<1>5. CASE ListFails
  BY <1>5 DEF ListFails, cloudRead, InboxInv, ReadStaysRead
<1>6. CASE OpenWelcome
  <2>1. readIds \subseteq readIds' /\ readIds' \subseteq {Welcome}
    BY <1>6 DEF OpenWelcome, InboxInv
  <2>2. ReadStaysRead'
    BY <1>6, <2>1 DEF OpenWelcome, Mark, InboxInv, ReadStaysRead
  <2> QED
    BY <1>6, <2>1, <2>2, InboxAssumption DEF OpenWelcome, Forgotten, InboxInv
<1>7. ASSUME NEW m \in Messages, OpenMessage(m) PROVE InboxInv'
  <2>1. m \notin answered
    BY <1>7 DEF OpenMessage, InboxInv, ReadStaysRead
  <2>2. ReadStaysRead'
    BY <1>7 DEF OpenMessage, cloudRead, Mark, InboxInv, ReadStaysRead
  <2> QED
    BY <1>7, <2>1, <2>2 DEF OpenMessage, Forgotten, cloudRead, InboxInv
<1>8. ASSUME NEW m \in Messages, Acknowledged(m) PROVE InboxInv'
  <2>1. pending' = pending \ {m} /\ listing' \in {NoList, [read |-> taken']}
        /\ (pending' # {} => listing' = NoList)
    BY <1>8 DEF Acknowledged, AckEnds, LoadMessages, Blocked, InboxInv
  <2>2. ReadStaysRead'
    BY <1>8 DEF Acknowledged, Mark, InboxInv, ReadStaysRead
  <2>3. answered' \subseteq taken' \union readIds'
    BY <1>8 DEF Acknowledged, AckEnds, InboxInv
  <2> QED
    BY <1>8, <2>1, <2>2, <2>3 DEF Acknowledged, AckEnds, InboxInv
<1>9. ASSUME NEW m \in Messages, NotAcknowledged(m) PROVE InboxInv'
  <2>1. pending' = pending \ {m} /\ listing' \in {NoList, [read |-> taken']}
        /\ (pending' # {} => listing' = NoList)
    BY <1>9 DEF NotAcknowledged, AckEnds, LoadMessages, Blocked, InboxInv
  <2>2. m \notin answered
    BY <1>9 DEF NotAcknowledged, AckEnds, InboxInv
  <2>3. ReadStaysRead'
    BY <1>9, <2>2 DEF NotAcknowledged, Mark, InboxInv, ReadStaysRead
  <2>4. answered' \subseteq taken' \union readIds'
    BY <1>9 DEF NotAcknowledged, AckEnds, InboxInv
  <2> QED
    BY <1>9, <2>1, <2>3, <2>4 DEF NotAcknowledged, AckEnds, InboxInv
<1> QED
  BY <1>1, <1>2, <1>3, <1>4, <1>5, <1>6, <1>7, <1>8, <1>9 DEF InboxNext

-----------------------------------------------------------------------------
(* The offers.  A request of a link that was not aborted was made under the  *)
(* offer held, which has a payment: so the link it brings is of that offer.  *)
Supports == [order : Nat, under : Nat, aborted : BOOLEAN]

FundingInv ==
  /\ eligible \in BOOLEAN /\ offers \in Nat /\ newest \in Nat /\ supports \subseteq Supports
  /\ offer # NoOffer => offer \in Offers
  /\ seeking => eligible /\ offer = NoOffer
  /\ \A s \in supports : ~s.aborted =>
       eligible /\ offer # NoOffer /\ offer.payment /\ s.under = offer.number
  /\ LinkIsOfTheOffer

LEMMA FundingInitInv == FundingInit => FundingInv
<1>1. FundingInit => offers \in Nat /\ newest \in Nat
  BY DEF FundingInit
<1>2. FundingInit => eligible = FALSE /\ seeking = FALSE /\ LinkIsOfTheOffer
  BY Zenon DEF FundingInit, LinkIsOfTheOffer
<1> QED
  BY <1>1, <1>2 DEF FundingInit, FundingInv

LEMMA AbortedSupports ==
  ASSUME supports \subseteq Supports
  PROVE  Aborted(supports) \subseteq Supports /\ \A s \in Aborted(supports) : s.aborted
  BY DEF Aborted, Supports

(* What an offer that is held decides is kept by the steps that keep it.     *)
LEMMA FundingStep ==
  FundingInv /\ [FundingNext]_fundingVars => FundingInv' /\ AdStays
<1> SUFFICES ASSUME FundingInv, [FundingNext]_fundingVars PROVE FundingInv' /\ AdStays
  OBVIOUS
<1>1. CASE UNCHANGED fundingVars
  BY <1>1 DEF fundingVars, FundingInv, LinkIsOfTheOffer, AdStays
<1>2. ASSUME NEW known \in BOOLEAN, Verified(known) PROVE FundingInv' /\ AdStays
  <2>1. AdStays
    BY <1>2 DEF Verified, AdStays
  <2> QED
    BY <1>2, <2>1, AbortedSupports DEF Verified, FundingInv, LinkIsOfTheOffer
<1>3. CASE OfferArrives
  <2>1. PICK sponsors \in SUBSET Sponsors, payment \in BOOLEAN :
          /\ offer' = [number |-> offers + 1, sponsors |-> sponsors, payment |-> payment]
          /\ Advertises(offer', section)
    BY <1>3 DEF OfferArrives
  <2>2. offer' \in Offers /\ offer' # NoOffer
    BY <2>1, FundingAssumption DEF Offers, FundingInv
  <2>3. AdStays
    BY <1>3, <2>1, <2>2 DEF OfferArrives, Advertises, FundingInv, AdStays
  <2>4. link = NoOffer /\ \A s \in supports : s.aborted
    BY <1>3 DEF OfferArrives, FundingInv, LinkIsOfTheOffer, Supports
  <2> QED
    BY <1>3, <2>2, <2>3, <2>4 DEF OfferArrives, FundingInv, LinkIsOfTheOffer
<1>4. CASE OfferFails
  BY <1>4 DEF OfferFails, FundingInv, LinkIsOfTheOffer, AdStays
<1>5. CASE OfferExpires
  BY <1>5, AbortedSupports DEF OfferExpires, FundingInv, LinkIsOfTheOffer, AdStays
<1>6. CASE PrepareSupport
  <2> DEFINE support == [order |-> newest + 1, under |-> offer.number, aborted |-> FALSE]
  <2>1. support \in Supports
    BY <1>6 DEF PrepareSupport, FundingInv, Supports, Offers
  <2>2. supports' = Aborted(supports) \union {support} /\ support.under = offer.number
    BY <1>6 DEF PrepareSupport
  <2>3. supports' \subseteq Supports /\ \A s \in supports' : s.aborted \/ s.under = offer.number
    BY <2>1, <2>2, AbortedSupports DEF FundingInv
  <2> QED
    BY <1>6, <2>3 DEF PrepareSupport, FundingInv, LinkIsOfTheOffer, AdStays
<1>7. ASSUME NEW s \in supports, LinkArrives(s) PROVE FundingInv' /\ AdStays
  BY <1>7 DEF LinkArrives, FundingInv, LinkIsOfTheOffer, AdStays
<1>8. ASSUME NEW s \in supports, LinkFails(s) PROVE FundingInv' /\ AdStays
  BY <1>8 DEF LinkFails, FundingInv, LinkIsOfTheOffer, AdStays
<1>9. ASSUME NEW where \in Sections, GoTo(where) PROVE FundingInv' /\ AdStays
  <2>1. AdStays
    BY <1>9 DEF GoTo, AdStays
  <2> QED
    BY <1>9, <2>1 DEF GoTo, FundingInv, LinkIsOfTheOffer
<1> QED
  BY <1>1, <1>2, <1>3, <1>4, <1>5, <1>6, <1>7, <1>8, <1>9 DEF FundingNext

-----------------------------------------------------------------------------
(* The change of a plan.  Each tab: what its page may be, a price that is    *)
(* shown being that of what is previewed.                                    *)
PlanPages ==
  [plan : Plans, cycle : Cycles, review : {"closed", "checkout", "portal"},
   compared : Plans \union {Unpriced}, upgrade : BOOLEAN, price : Selections \union {Unpriced},
   loading : BOOLEAN, busy : {"no", "selects", "away"}, order : Selections \union {NoOrder}]

RightPage(p) ==
  /\ p \in PlanPages
  /\ p.busy = "selects" => p.order \in Selections
  /\ p.review # "closed" /\ p.price # Unpriced => p.price = Previewed(p)

PagesInv == page \in [Tabs -> PlanPages] /\ \A t \in Tabs : RightPage(page[t])

(* The intents: one is for one purchase, and one that may still be used is   *)
(* the one stored.                                                           *)
Places == Tabs \union {"shared"}
Generated(i) == i.id \in 1 .. intents
Checkouts == [place : Places, of : Selections, intent : [id : Nat, created : Nat]]

IntentsInv ==
  /\ hour \in Nat /\ intents \in Nat /\ stores \in {"shared", "tab", "none"}
  /\ saved \in [Places -> [Selections -> [id : Nat, created : Nat]]]
  /\ sent \subseteq Checkouts
  /\ \A l \in Places, s \in Selections : saved[l][s] # NoIntent =>
       /\ Generated(saved[l][s])
       /\ \A k \in Places, r \in Selections : saved[k][r] = saved[l][s] => r = s
  /\ \A x \in sent :
       /\ Generated(x.intent) /\ x.intent # NoIntent
       /\ \A y \in sent : x.intent = y.intent => x.of = y.of
       /\ \A l \in Places, s \in Selections : saved[l][s] = x.intent => s = x.of
       /\ stores # "none" /\ Usable(x.intent) => saved[x.place][x.of] = x.intent

PlanInv == PagesInv /\ IntentsInv

LEMMA IntentsInvImplies == IntentsInv => PurchasesAreMadeOnce
  BY DEF IntentsInv, PurchasesAreMadeOnce

LEMMA PagesInvImplies == PagesInv => PriceIsOfTheChoice
  BY DEF PagesInv, RightPage, PriceIsOfTheChoice

LEMMA OpenedIsRight == ASSUME NEW p \in Plans, NEW c \in Cycles PROVE RightPage(Opened(p, c))
  BY DEF Opened, RightPage, PlanPages, NoOrder

LEMMA PlanInitInv == PlanInit => PlanInv
<1> SUFFICES ASSUME PlanInit PROVE PlanInv
  OBVIOUS
<1>1. ASSUME NEW t \in Tabs PROVE \E p \in Plans, c \in Cycles : page[t] = Opened(p, c)
  <2>1. page[t] \in {Opened(p, c) : p \in Plans, c \in Cycles}
    BY DEF PlanInit
  <2> QED
    BY <2>1
<1>2. \A t \in Tabs : RightPage(page[t])
  BY <1>1, OpenedIsRight
<1>3. page \in [Tabs -> PlanPages]
  BY <1>2 DEF PlanInit, RightPage
<1>4. /\ hour \in Nat /\ intents \in Nat /\ stores \in {"shared", "tab", "none"} /\ sent = {}
      /\ saved = [l \in Places |-> [s \in Selections |-> NoIntent]]
      /\ NoIntent \in [id : Nat, created : Nat]
  BY DEF PlanInit, Places, NoIntent
<1> QED
  BY <1>2, <1>3, <1>4 DEF PlanInv, PagesInv, IntentsInv

(* A page that becomes another that is right, but for the price.             *)
LEMMA BecomesRight ==
  ASSUME PagesInv, NEW t \in Tabs, NEW p \in PlanPages, Becomes(t, p),
         p.price = page[t].price, p.busy = page[t].busy, p.order = page[t].order
  PROVE  PagesInv'
<1> DEFINE asks == p.review # "closed" /\ (page[t].review = "closed" \/ Previewed(p) # Previewed(page[t]))
           q == IF asks THEN [p EXCEPT !.price = Unpriced, !.loading = TRUE] ELSE p
<1>1. page' = [page EXCEPT ![t] = q]
  BY DEF Becomes
<1>2. q \in PlanPages /\ q.order = page[t].order /\ q.busy = page[t].busy
  BY DEF PlanPages
<1>3. q.review # "closed" /\ q.price # Unpriced => q.price = Previewed(q)
  <2>1. CASE asks
    BY <2>1 DEF PlanPages
  <2>2. CASE ~asks
    BY <2>2 DEF PagesInv, RightPage
  <2> QED
    BY <2>1, <2>2
<1>4. RightPage(q)
  BY <1>2, <1>3 DEF PagesInv, RightPage
<1> QED
  BY <1>1, <1>2, <1>4 DEF PagesInv

(* A page that is replaced by a right one.                                   *)
LEMMA ReplacedRight ==
  ASSUME PagesInv, NEW t \in Tabs, NEW p, RightPage(p), page' = [page EXCEPT ![t] = p]
  PROVE  PagesInv'
  BY DEF PagesInv, RightPage

LEMMA TabStep ==
  ASSUME PagesInv, NEW t \in Tabs,
         \/ \E s \in Selections : SelectPlan(t, s) \/ PriceAnswered(t, s)
         \/ \E way \in {"checkout", "portal"}, plan \in Plans : ReviewPlan(t, way, plan)
         \/ \E plan \in Plans : Compare(t, plan)
         \/ Refreshed(t) \/ Close(t) \/ Confirm(t) \/ CheckOut(t) \/ Ends(t)
  PROVE  PagesInv'
<1>0. page[t] \in PlanPages /\ RightPage(page[t])
  BY DEF PagesInv
<1>1. ASSUME NEW s \in Selections, SelectPlan(t, s) PROVE PagesInv'
  <2> DEFINE p == [page[t] EXCEPT !.plan = s[1], !.cycle = s[2]]
  <2>1. page' = [page EXCEPT ![t] = p]
    BY <1>1 DEF SelectPlan, PagesInv
  <2>2. RightPage(p)
    BY <1>0, <1>1 DEF SelectPlan, AtRest, RightPage, PlanPages, Selections
  <2> QED
    BY <2>1, <2>2, ReplacedRight
<1>2. ASSUME NEW s \in Selections, PriceAnswered(t, s) PROVE PagesInv'
  <2>1. CASE ~NotAborted(t, s)
    BY <1>2, <2>1 DEF PriceAnswered, PagesInv
  <2>2. CASE NotAborted(t, s)
    <3>1. PICK price \in {s, Unpriced} : page' = [page EXCEPT ![t].price = price, ![t].loading = FALSE]
      BY <1>2, <2>2 DEF PriceAnswered
    <3> DEFINE p == [page[t] EXCEPT !.price = price, !.loading = FALSE]
    <3>2. page' = [page EXCEPT ![t] = p]
      BY <3>1 DEF PagesInv
    <3>3. p \in PlanPages /\ Previewed(p) = Previewed(page[t])
      BY <1>0 DEF PlanPages, Previewed
    <3>4. RightPage(p)
      BY <1>0, <2>2, <3>3 DEF NotAborted, RightPage, PlanPages
    <3> QED
      BY <3>2, <3>4, ReplacedRight
  <2> QED
    BY <2>1, <2>2
<1>3. ASSUME NEW way \in {"checkout", "portal"}, NEW plan \in Plans, ReviewPlan(t, way, plan)
      PROVE  PagesInv'
  <2>1. PICK upgrade \in BOOLEAN :
          Becomes(t, [page[t] EXCEPT !.review = way, !.upgrade = upgrade,
                                     !.compared = IF way = "portal" THEN plan ELSE Unpriced])
    BY <1>3 DEF ReviewPlan
  <2> QED
    BY <1>0, <2>1, BecomesRight DEF PlanPages
<1>4. ASSUME NEW plan \in Plans, Compare(t, plan) PROVE PagesInv'
  BY <1>0, <1>4, BecomesRight DEF Compare, PlanPages
<1>5. CASE Refreshed(t)
  <2>1. PICK plan \in Plans, upgrade \in BOOLEAN :
          Becomes(t, [page[t] EXCEPT !.plan = plan, !.upgrade = upgrade])
    BY <1>5 DEF Refreshed
  <2> QED
    BY <1>0, <2>1, BecomesRight DEF PlanPages
<1>6. CASE Close(t)
  <2>1. RightPage(Closed(page[t]))
    BY <1>0 DEF Closed, RightPage, PlanPages
  <2> QED
    BY <1>6, <2>1, ReplacedRight DEF Close, PagesInv
<1>7. CASE Confirm(t)
  <2>1. RightPage([Closed(page[t]) EXCEPT !.busy = "away"])
    BY <1>0 DEF Closed, RightPage, PlanPages
  <2>2. RightPage([Closed(page[t]) EXCEPT !.busy = "selects", !.order = <<page[t].plan, page[t].cycle>>])
    BY <1>0 DEF Closed, RightPage, PlanPages, Selections
  <2> QED
    BY <1>7, <2>1, <2>2, ReplacedRight DEF Confirm
<1>8. CASE CheckOut(t)
  <2> DEFINE p == [page[t] EXCEPT !.busy = "away", !.order = NoOrder]
  <2>1. page' = [page EXCEPT ![t] = p]
    BY <1>8 DEF CheckOut, PagesInv
  <2>2. p \in PlanPages /\ Previewed(p) = Previewed(page[t])
    BY <1>0 DEF PlanPages, Previewed
  <2>3. RightPage(p)
    BY <1>0, <2>2 DEF RightPage, PlanPages
  <2> QED
    BY <2>1, <2>3, ReplacedRight
<1>9. CASE Ends(t)
  <2>1. CASE page' = [page EXCEPT ![t].busy = "no", ![t].order = NoOrder]
    <3> DEFINE p == [page[t] EXCEPT !.busy = "no", !.order = NoOrder]
    <3>1. page' = [page EXCEPT ![t] = p]
      BY <2>1 DEF PagesInv
    <3>2. p \in PlanPages /\ Previewed(p) = Previewed(page[t])
      BY <1>0 DEF PlanPages, Previewed
    <3>3. RightPage(p)
      BY <1>0, <3>2 DEF RightPage, PlanPages
    <3> QED
      BY <3>1, <3>3, ReplacedRight
  <2>2. ASSUME NEW s \in Selections, page' = [page EXCEPT ![t] = Opened(s[1], s[2])]
        PROVE  PagesInv'
    BY <2>2, OpenedIsRight, ReplacedRight DEF Selections
  <2> QED
    BY <1>9, <2>1, <2>2 DEF Ends
<1> QED
  BY <1>1, <1>2, <1>3, <1>4, <1>5, <1>6, <1>7, <1>8, <1>9

LEMMA CheckOutIntents == ASSUME PlanInv, NEW t \in Tabs, CheckOut(t) PROVE IntentsInv'
<1> DEFINE held == saved[Place(t)][Purchase(t)]
           fresh == [id |-> intents + 1, created |-> hour]
<1>1. PICK place, key, intent :
        place = Place(t) /\ key = Purchase(t)
        /\ intent = IF stores # "none" /\ Usable(held) THEN held ELSE fresh
  OBVIOUS
<1>2. key \in Selections /\ place \in Places
  BY <1>1 DEF CheckOut, PlanInv, PagesInv, RightPage, Purchase, Place, Places
<1> DEFINE new == [place |-> place, of |-> key, intent |-> intent]
<1>3. /\ intents' = IF intent = fresh THEN intents + 1 ELSE intents
      /\ saved' = IF stores = "none" THEN saved ELSE [saved EXCEPT ![place][key] = intent]
      /\ sent' = sent \union {new}
      /\ UNCHANGED <<hour, stores>>
  BY <1>1 DEF CheckOut, IntentKey
<1>4. /\ intents \in Nat /\ hour \in Nat /\ sent \subseteq Checkouts
      /\ saved \in [Places -> [Selections -> [id : Nat, created : Nat]]]
      /\ fresh \in [id : Nat, created : Nat]
  BY DEF PlanInv, IntentsInv
<1>5. /\ \A l \in Places, s \in Selections : saved[l][s] # fresh
      /\ \A x \in sent : x.intent # fresh
      /\ fresh # NoIntent
  BY <1>4 DEF PlanInv, IntentsInv, Generated, NoIntent
<1>6. intents' \in Nat /\ \A i : Generated(i) => i.id \in 1 .. intents'
  BY <1>3, <1>4 DEF Generated
(* The intent of this purchase is that of no other.                          *)
<1>7. /\ intent.id \in 1 .. intents' /\ intent # NoIntent /\ intent \in [id : Nat, created : Nat]
      /\ \A l \in Places, s \in Selections : saved[l][s] = intent => s = key
      /\ \A x \in sent : x.intent = intent => x.of = key
  <2>1. CASE intent = fresh
    <3>1. intent.id \in 1 .. intents'
      BY <1>3, <1>4, <2>1
    <3> QED
      BY <1>4, <1>5, <2>1, <3>1
  <2>2. CASE intent = held /\ Usable(held)
    <3>1. intent = saved[place][key] /\ intent # NoIntent
      BY <1>1, <2>2 DEF Usable
    <3> QED
      BY <1>2, <1>4, <1>6, <3>1 DEF PlanInv, IntentsInv
  <2> QED
    BY <1>1, <2>1, <2>2
<1>8. /\ saved' \in [Places -> [Selections -> [id : Nat, created : Nat]]]
      /\ sent' \subseteq Checkouts
  BY <1>2, <1>3, <1>4, <1>7 DEF Checkouts
<1>9. /\ \A l \in Places, s \in Selections :
           saved'[l][s] = saved[l][s] \/ (l = place /\ s = key /\ saved'[l][s] = intent)
      /\ stores # "none" => saved'[place][key] = intent
  BY <1>2, <1>3, <1>4
<1>10. ASSUME NEW l \in Places, NEW s \in Selections, saved'[l][s] # NoIntent
       PROVE  /\ saved'[l][s].id \in 1 .. intents'
              /\ \A k \in Places, r \in Selections : saved'[k][r] = saved'[l][s] => r = s
  <2>1. CASE saved'[l][s] = saved[l][s]
    BY <1>6, <1>7, <1>9, <1>10, <2>1 DEF PlanInv, IntentsInv
  <2>2. CASE s = key /\ saved'[l][s] = intent
    BY <1>7, <1>9, <2>2
  <2> QED
    BY <1>9, <2>1, <2>2
(* One that may be used is stored: if this purchase has one, it is taken.    *)
<1>11. ASSUME NEW x \in sent, stores # "none", Usable(x.intent) PROVE saved'[x.place][x.of] = x.intent
  <2>1. saved[x.place][x.of] = x.intent /\ x.place \in Places /\ x.of \in Selections
    BY <1>4, <1>11 DEF PlanInv, IntentsInv, Checkouts
  <2>2. CASE x.place = place /\ x.of = key
    <3>1. x.intent = intent
      BY <1>1, <1>11, <2>1, <2>2
    <3> QED
      BY <1>9, <1>11, <2>2, <3>1
  <2>3. CASE ~(x.place = place /\ x.of = key)
    BY <1>9, <2>1, <2>3
  <2> QED
    BY <2>2, <2>3
<1>12. \A i : Usable(i)' <=> Usable(i)
  BY <1>3 DEF Usable
<1>13. ASSUME NEW x \in sent'
       PROVE  /\ x.intent.id \in 1 .. intents' /\ x.intent # NoIntent
              /\ \A y \in sent' : x.intent = y.intent => x.of = y.of
              /\ \A l \in Places, s \in Selections : saved'[l][s] = x.intent => s = x.of
              /\ stores' # "none" /\ Usable(x.intent)' => saved'[x.place][x.of] = x.intent
  <2>1. CASE x \in sent
    BY <1>3, <1>6, <1>7, <1>9, <1>11, <1>12, <2>1 DEF PlanInv, IntentsInv
  <2>2. CASE x = new
    BY <1>2, <1>3, <1>7, <1>9, <2>2
  <2> QED
    BY <1>3, <2>1, <2>2
<1> QED
  BY <1>3, <1>4, <1>6, <1>8, <1>10, <1>13 DEF PlanInv, IntentsInv, Generated

LEMMA PlanStep == PlanInv /\ [PlanNext]_planVars => PlanInv'
<1> SUFFICES ASSUME PlanInv, [PlanNext]_planVars PROVE PlanInv'
  OBVIOUS
<1>1. ASSUME UNCHANGED <<hour, stores, saved, intents, sent>> PROVE IntentsInv'
  BY <1>1 DEF PlanInv, IntentsInv, Generated, Usable
<1>2. CASE UNCHANGED planVars
  BY <1>1, <1>2 DEF planVars, PlanInv, PagesInv
<1>3. CASE HourPasses
  <2>1. hour' \in Nat /\ \A i \in [id : Nat, created : Nat] : Usable(i)' => Usable(i)
    BY <1>3, PlanAssumption DEF HourPasses, PlanInv, IntentsInv, Usable
  <2>2. UNCHANGED <<page, stores, saved, intents, sent>>
    BY <1>3 DEF HourPasses
  <2>3. \A x \in sent : x.intent \in [id : Nat, created : Nat]
    BY DEF PlanInv, IntentsInv, Checkouts
  <2> QED
    BY <2>1, <2>2, <2>3 DEF PlanInv, PagesInv, IntentsInv, Generated
<1>4. ASSUME NEW t \in Tabs,
             \/ \E s \in Selections : SelectPlan(t, s) \/ PriceAnswered(t, s)
             \/ \E way \in {"checkout", "portal"}, plan \in Plans : ReviewPlan(t, way, plan)
             \/ \E plan \in Plans : Compare(t, plan)
             \/ Refreshed(t) \/ Close(t) \/ Confirm(t) \/ CheckOut(t) \/ Ends(t)
      PROVE  PlanInv'
  <2>1. PagesInv'
    BY <1>4, TabStep DEF PlanInv
  <2>2. CheckOut(t) \/ UNCHANGED <<hour, stores, saved, intents, sent>>
    BY <1>4 DEF SelectPlan, PriceAnswered, ReviewPlan, Compare, Refreshed, Close, Confirm, Ends
  <2> QED
    BY <1>1, <2>1, <2>2, CheckOutIntents DEF PlanInv
<1> QED
  BY <1>2, <1>3, <1>4 DEF PlanNext

-----------------------------------------------------------------------------
(* The report.  A panel is there only inside the report of the shop that is  *)
(* selected, and all it shows or has asked for is of that shop: it is taken  *)
(* down before another is selected.                                          *)
PanelSettings == [of : ReportShops, on : BOOLEAN]
Panels ==
  [setting : PanelSettings \union {Absent}, loading : BOOLEAN, saving : BOOLEAN, asked : SUBSET ReportShops]

PanelOK(p, s) ==
  /\ p \in Panels
  /\ p.setting # Absent => p.setting.of = s
  /\ p.asked \subseteq {s}

ReportInv ==
  /\ selected \in ReportShops
  /\ automatic \in [ReportShops -> BOOLEAN]
  /\ panel # Absent => Mounted /\ PanelOK(panel, selected) /\ (panel.saving => posted.on \in BOOLEAN)
  /\ SettingsAreOfTheirShop

LEMMA FreshOK == ASSUME NEW s \in ReportShops PROVE PanelOK(Fresh(s), s) /\ ~Fresh(s).saving
  BY DEF PanelOK, Panels, Fresh

LEMMA ReportInitInv == ReportInit => ReportInv
  BY DEF ReportInit, ReportInv, SettingsAreOfTheirShop

(* A step of the report around it leaves the panel, or takes it down.        *)
LEMMA AroundInv ==
  ASSUME ReportInv, selected' \in ReportShops, UNCHANGED <<posted, automatic>>, PanelIs(panel),
         panel # Absent => ~Mounted' \/ selected' = selected
  PROVE  ReportInv'
<1>1. panel' # Absent => Mounted' /\ (panel' = Fresh(selected') \/ (panel' = panel /\ panel # Absent))
  BY DEF PanelIs
<1>2. panel' # Absent => PanelOK(panel', selected') /\ (panel'.saving => posted'.on \in BOOLEAN)
  BY <1>1, FreshOK DEF ReportInv
<1> QED
  BY <1>1, <1>2 DEF ReportInv, SettingsAreOfTheirShop

(* A step of the panel.                                                      *)
LEMMA PanelStepInv ==
  ASSUME ReportInv, panel # Absent, NEW p, PanelStep(p), PanelOK(p, selected), p.saving => posted'.on \in BOOLEAN,
         automatic' \in [ReportShops -> BOOLEAN], SettingsAreOfTheirShop'
  PROVE  ReportInv'
  BY DEF ReportInv, PanelStep, PanelIs, Mounted

LEMMA ReportStep == ReportInv /\ [ReportNext]_reportVars => ReportInv'
<1> SUFFICES ASSUME ReportInv, [ReportNext]_reportVars PROVE ReportInv'
  OBVIOUS
<1>1. CASE UNCHANGED reportVars
  BY <1>1 DEF reportVars, ReportInv, Mounted, SettingsAreOfTheirShop
<1>2. ASSUME NEW s \in ReportShops, Select(s) PROVE ReportInv'
  <2>1. panel # Absent => ~Mounted'
    BY <1>2 DEF Select, ReportInv, Mounted
  <2> QED
    BY <1>2, <2>1, AroundInv DEF Select
<1>3. CASE Fetch
  BY <1>3, AroundInv DEF Fetch, ReportInv
<1>4. CASE ReportArrives
  BY <1>4, AroundInv DEF ReportArrives, ReportInv
<1>5. CASE panel # Absent /\ RecommendationsArrive
  <2>1. PICK s \in panel.asked, fine \in BOOLEAN :
          PanelStep([panel EXCEPT !.loading = FALSE, !.asked = @ \ {s},
            !.setting = IF fine THEN [of |-> s, on |-> automatic[s]] ELSE Absent])
    BY <1>5 DEF RecommendationsArrive
  <2> DEFINE p == [panel EXCEPT !.loading = FALSE, !.asked = @ \ {s},
                     !.setting = IF fine THEN [of |-> s, on |-> automatic[s]] ELSE Absent]
  <2>2. PanelOK(panel, selected) /\ s = selected /\ s \in ReportShops /\ automatic[s] \in BOOLEAN
    BY <1>5 DEF ReportInv, PanelOK
  <2>3. PanelOK(p, selected) /\ p.saving = panel.saving
    BY <2>2 DEF PanelOK, Panels, PanelSettings
  <2> QED
    BY <1>5, <2>1, <2>3, PanelStepInv DEF RecommendationsArrive, ReportInv, SettingsAreOfTheirShop
<1>6. CASE panel # Absent /\ RetryPanel
  <2> DEFINE p == [panel EXCEPT !.loading = TRUE, !.asked = @ \union {selected}]
  <2>1. PanelOK(p, selected) /\ p.saving = panel.saving
    BY <1>6 DEF ReportInv, PanelOK, Panels
  <2> QED
    BY <1>6, <2>1, PanelStepInv DEF RetryPanel, ReportInv, SettingsAreOfTheirShop
<1>7. CASE panel # Absent /\ Toggle
  <2> DEFINE p == [panel EXCEPT !.saving = TRUE]
  <2>1. PanelOK(p, selected)
    BY <1>7 DEF ReportInv, PanelOK, Panels
  <2>2. posted' = [shop |-> selected, on |-> ~panel.setting.on, of |-> selected]
    BY <1>7 DEF Toggle, ReportInv, PanelOK
  <2>3. automatic' \in [ReportShops -> BOOLEAN]
    BY <1>7 DEF Toggle, ReportInv
  <2> QED
    BY <1>7, <2>1, <2>2, <2>3, PanelStepInv DEF Toggle, SettingsAreOfTheirShop
<1>8. CASE panel # Absent /\ ToggleAnswered
  <2>1. PICK agreed \in {FALSE, automatic[posted.shop] = posted.on} :
          PanelStep([panel EXCEPT !.saving = FALSE,
            !.setting = IF agreed /\ panel.setting # Absent THEN [panel.setting EXCEPT !.on = posted.on] ELSE @])
    BY <1>8 DEF ToggleAnswered
  <2> DEFINE setting == IF agreed /\ panel.setting # Absent THEN [panel.setting EXCEPT !.on = posted.on] ELSE panel.setting
             p == [panel EXCEPT !.saving = FALSE, !.setting = setting]
  <2>2. PanelOK(panel, selected) /\ posted.on \in BOOLEAN
    BY <1>8 DEF ToggleAnswered, ReportInv
  <2>3. setting \in PanelSettings \union {Absent} /\ (setting # Absent => setting.of = selected)
    BY <2>2 DEF PanelOK, Panels, PanelSettings
  <2>4. PanelOK(p, selected) /\ ~p.saving
    <3> HIDE DEF setting
    <3> QED BY <2>2, <2>3 DEF PanelOK, Panels
  <2> QED
    BY <1>8, <2>1, <2>4, PanelStepInv DEF ToggleAnswered, ReportInv, SettingsAreOfTheirShop
<1> QED
  BY <1>1, <1>2, <1>3, <1>4, <1>5, <1>6, <1>7, <1>8 DEF ReportNext

-----------------------------------------------------------------------------
(* The consent.  The box is ticked for what is on the page: a document that  *)
(* is asked for has cleared it, and only a document that is there is         *)
(* accepted.                                                                 *)
ConsentInv ==
  /\ open \in OpenPages /\ edition \in Nat /\ accepted \in BOOLEAN
  /\ document # NoDocument => document \in Documents
  /\ wanted # NoDocument => wanted \in Nat /\ document = NoDocument /\ ~accepted
  /\ accepted => document # NoDocument /\ ticked = [open |-> open, document |-> document]
  /\ ConsentIsToWhatWasShown

LEMMA ConsentInitInv == ConsentInit => ConsentInv
<1>1. ConsentInit => open \in OpenPages /\ edition \in Nat /\ accepted = FALSE /\ ConsentIsToWhatWasShown
  BY DEF ConsentInit, ConsentIsToWhatWasShown
<1> QED
  BY <1>1 DEF ConsentInit, ConsentInv

LEMMA ReloadInv ==
  ASSUME NEW p \in OpenPages, open' = p, Reload(p), edition \in Nat, ConsentIsToWhatWasShown,
         UNCHANGED <<ticked, keyRequest, edition>>
  PROVE  ConsentInv'
  BY DEF Reload, Unticked, ConsentInv, ConsentIsToWhatWasShown

LEMMA ConsentStep == ConsentInv /\ [ConsentNext]_consentVars => ConsentInv'
<1> SUFFICES ASSUME ConsentInv, [ConsentNext]_consentVars PROVE ConsentInv'
  OBVIOUS
<1>1. CASE UNCHANGED consentVars
  BY <1>1 DEF consentVars, ConsentInv, ConsentIsToWhatWasShown
<1>2. CASE \E p \in OpenPages : TurnsTo(p)
  BY <1>2, ReloadInv DEF TurnsTo, ConsentInv
<1>3. CASE RetryDocument \/ DocumentChanged
  BY <1>3, ReloadInv DEF RetryDocument, DocumentChanged, ConsentInv
<1>4. CASE Publishes
  BY <1>4 DEF Publishes, ConsentInv, ConsentIsToWhatWasShown
<1>5. CASE DocumentArrives
  <2>1. ~accepted /\ wanted .. edition \subseteq Nat
    BY <1>5 DEF DocumentArrives, ConsentInv
  <2>2. document' # NoDocument => document' \in Documents
    BY <1>5, <2>1 DEF DocumentArrives, ConsentInv, OpenPages, Documents
  <2> QED
    BY <1>5, <2>1, <2>2 DEF DocumentArrives, ConsentInv, ConsentIsToWhatWasShown
<1>6. CASE Accept
  BY <1>6 DEF Accept, InLanguage, ConsentInv, ConsentIsToWhatWasShown
<1>7. CASE Issue
  <2>1. ticked = [open |-> open, document |-> document] /\ document \in Documents
    BY <1>7 DEF Issue, ConsentInv
  <2>2. ticked # NoDocument
    BY <2>1, ConsentAssumption DEF ConsentInv
  <2>3. ConsentIsToWhatWasShown'
    BY <1>7, <2>1, <2>2 DEF Issue, ConsentIsToWhatWasShown
  <2> QED
    BY <1>7, <2>3 DEF Issue, ConsentInv
<1>8. CASE Issued \/ Activated \/ NotIssued
  BY <1>8 DEF Issued, Activated, NotIssued, ConsentInv, ConsentIsToWhatWasShown
<1> QED
  BY <1>1, <1>2, <1>3, <1>4, <1>5, <1>6, <1>7, <1>8 DEF ConsentNext

-----------------------------------------------------------------------------
(* The pages of evidence.  The request in force is for what is chosen, and   *)
(* what is shown after it is what it brought; the emails are compared with   *)
(* the choice when they are shown.                                           *)
EvidenceInv ==
  /\ sought \in Wishes
  /\ current \in {NoPayload, sought}
  /\ ~turning /\ ~error /\ list # "emails" => payload \in {NoPayload, sought}

LEMMA EvidenceInitInv == EvidenceInit => EvidenceInv
  BY EvidenceAssumption DEF EvidenceInit, EvidenceInv, Wishes

(* A page that is asked for is the one chosen.                               *)
LEMMA LoadPageInv ==
  ASSUME NEW wish \in Wishes, NEW past, LoadPage(wish, past), UNCHANGED list
  PROVE  EvidenceInv'
  BY DEF LoadPage, EvidenceInv

LEMMA PageArrivesInv == EvidenceInv /\ PageArrives => EvidenceInv'
<1> SUFFICES ASSUME EvidenceInv, PageArrives PROVE EvidenceInv'
  OBVIOUS
<1>1. PICK r \in {current, overtaken} \ {NoPayload} :
        /\ IF ~InForce(r)
           THEN PageEnds(r) /\ UNCHANGED <<sought, payload, turning, error>>
           ELSE \E n \in IF list = "audit" THEN 1 .. MaxPage ELSE {r.page} :
                  /\ payload' = [r EXCEPT !.page = n]
                  /\ IF n = r.page
                     THEN PageEnds(r) /\ turning' = FALSE /\ UNCHANGED <<sought, error>>
                     ELSE /\ sought' = [sought EXCEPT !.page = n]
                          /\ current' = sought' /\ UNCHANGED overtaken
                          /\ turning' = TRUE /\ error' = FALSE
        /\ UNCHANGED <<list, listings>>
  BY DEF PageArrives
<1>2. CASE ~InForce(r)
  BY <1>1, <1>2 DEF PageEnds, InForce, EvidenceInv
<1>3. CASE InForce(r)
  <2>1. r = sought /\ r \in Wishes /\ r = current
    BY <1>1, <1>3 DEF InForce, EvidenceInv
  <2>2. PICK n \in IF list = "audit" THEN 1 .. MaxPage ELSE {r.page} :
          /\ payload' = [r EXCEPT !.page = n]
          /\ IF n = r.page
             THEN PageEnds(r) /\ turning' = FALSE /\ UNCHANGED <<sought, error>>
             ELSE /\ sought' = [sought EXCEPT !.page = n]
                  /\ current' = sought' /\ UNCHANGED overtaken
                  /\ turning' = TRUE /\ error' = FALSE
    BY <1>1, <1>3
  <2>3. n \in 1 .. MaxPage
    BY <2>1, <2>2 DEF Wishes
  <2>4. CASE n = r.page
    <3>1. payload' = sought'
      BY <2>1, <2>2, <2>4 DEF Wishes
    <3> QED
      BY <1>1, <2>1, <2>2, <2>4, <3>1 DEF PageEnds, EvidenceInv
  <2>5. CASE n # r.page
    <3>1. sought' \in Wishes
      BY <2>2, <2>3, <2>5 DEF EvidenceInv, Wishes
    <3> QED
      BY <2>2, <2>5, <3>1 DEF EvidenceInv
  <2> QED
    BY <2>4, <2>5
<1> QED
  BY <1>2, <1>3

LEMMA EvidenceStep == EvidenceInv /\ [EvidenceNext]_evidenceVars => EvidenceInv'
<1> SUFFICES ASSUME EvidenceInv, [EvidenceNext]_evidenceVars PROVE EvidenceInv'
  OBVIOUS
<1> USE DEF EvidenceInv, Wishes
<1>0. 1 \in 1 .. MaxPage
  BY EvidenceAssumption
<1>1. CASE UNCHANGED evidenceVars
  BY <1>1 DEF evidenceVars, pageRequests
<1>2. CASE ShopsListed
  BY <1>2, LoadPageInv DEF ShopsListed, pageRequests
<1>3. CASE ShopsNotListed
  BY <1>3 DEF ShopsNotListed, pageRequests
<1>4. CASE SpeakOther \/ RefreshPage
  BY <1>4, LoadPageInv DEF SpeakOther, RefreshPage
<1>5. ASSUME NEW s \in PageShops, SelectShop(s) PROVE EvidenceInv'
  <2>1. [sought EXCEPT !.shop = s, !.page = 1] \in Wishes
    BY <1>0
  <2> QED
    BY <1>5, <2>1, LoadPageInv DEF SelectShop
<1>6. ASSUME NEW filter \in {"all", "some"}, SelectFilter(filter) PROVE EvidenceInv'
  <2>1. [sought EXCEPT !.filter = filter, !.page = 1] \in Wishes
    BY <1>0
  <2> QED
    BY <1>6, <2>1, LoadPageInv DEF SelectFilter
<1>7. ASSUME NEW n \in 1 .. MaxPage, TurnPage(n) PROVE EvidenceInv'
  BY <1>7, LoadPageInv DEF TurnPage
<1>8. CASE PageFails
  BY <1>8 DEF PageFails, PageEnds, InForce
<1> QED
  BY <1>1, <1>2, <1>3, <1>4, <1>5, <1>6, <1>7, <1>8, PageArrivesInv DEF EvidenceNext

LEMMA EvidenceFromInv == EvidenceInv => EvidenceIsOfTheChoice
  BY DEF EvidenceInv, EvidenceIsOfTheChoice, PageShown

-----------------------------------------------------------------------------
(* The health.  What is shown as verified was good when the page was drawn,  *)
(* and checks that a retry has scheduled fire soon after a drawing.  So the  *)
(* interval's own check comes at most an interval after the last of those,   *)
(* and nothing replaces it until it is answered.                             *)
HealthChecks == [shop : HealthShops, age : 0 .. AnswerTime]
HealthTold == [shop : HealthShops, told : Nat]
HealthReloads == [shop : HealthShops \union {NoHealth}, in : 0 .. RetryDelay]

HealthTypeOK ==
  /\ watched \in HealthShops \union {NoHealth}
  /\ check \in HealthChecks \union {NoHealth} /\ seen \in HealthTold \union {NoHealth}
  /\ untilNext \in 0 .. Interval
  /\ reloads \subseteq HealthReloads /\ posting \subseteq HealthShops \union {NoHealth}

\* When the check of the interval is due, or under way.
NextCheckSoon ==
  \/ seen.told + untilNext <= FreshFor + RetryDelay + Interval
  \/ /\ check # NoHealth /\ untilNext = Interval - check.age
     /\ seen.told <= FreshFor + RetryDelay + Interval + check.age

StillGood ==
  /\ seen # NoHealth /\ seen.shop = watched /\ ~checking
  /\ NextCheckSoon
  /\ \A r \in reloads : seen.told + r.in <= FreshFor + RetryDelay

FailureClears == trouble = "check" => check = NoHealth /\ seen = NoHealth

HealthInv == HealthTypeOK /\ (green => StillGood) /\ FailureClears

LEMMA NoneIsOutside ==
  /\ \A s \in HealthShops : s # NoHealth
  /\ \A c \in HealthChecks : c # NoHealth /\ c.age \in Nat /\ c.age < Interval
  /\ \A t \in HealthTold : t # NoHealth
<1>1. HealthChecks \subseteq [shop : HealthShops, age : Nat]
  BY HealthAssumption DEF HealthChecks
<1>2. \A c \in HealthChecks : c.age \in Nat /\ c.age < Interval
  BY HealthAssumption DEF HealthChecks
<1> QED
  BY <1>1, <1>2, HealthAssumption DEF HealthTold

LEMMA HealthInvImplies == HealthInv => GreenIsRecent
<1> SUFFICES ASSUME HealthInv, green PROVE GreenIsRecent
  BY DEF GreenIsRecent
<1>1. seen # NoHealth /\ seen.shop = watched /\ NextCheckSoon /\ trouble # "check"
  BY DEF HealthInv, StillGood, FailureClears
<1>2. seen \in HealthTold /\ seen.told \in Nat /\ untilNext \in Nat
  BY <1>1, HealthAssumption DEF HealthInv, HealthTypeOK, HealthTold
<1>3. check # NoHealth => check.age \in Nat /\ check.age <= AnswerTime
  BY HealthAssumption DEF HealthInv, HealthTypeOK, HealthChecks
<1>4. seen.told <= Recent
  BY <1>1, <1>2, <1>3, HealthAssumption DEF NextCheckSoon, Recent
<1> QED
  BY <1>1, <1>4 DEF GreenIsRecent

LEMMA HealthInitInv == HealthInit => HealthInv
  BY HealthAssumption DEF HealthInit, HealthInv, HealthTypeOK, FailureClears

(* What a drawing shows as verified is good for now.                         *)
LEMMA DrawIsGood == ASSUME HealthTypeOK', Draw, green' PROVE StillGood'
<1>1. VerifiedNow'
  BY DEF Draw
<1>2. /\ seen' # NoHealth /\ seen'.shop = watched' /\ ~checking' /\ seen'.told <= FreshFor
  BY <1>1 DEF VerifiedNow, SourceIsGood
<1>3. seen'.told \in Nat /\ untilNext' \in 0 .. Interval
  BY <1>2 DEF HealthTypeOK, HealthTold
<1>4. NextCheckSoon'
  BY <1>2, <1>3, HealthAssumption DEF NextCheckSoon
<1>5. \A r \in reloads' : seen'.told + r.in <= FreshFor + RetryDelay
  <2>1. \A r \in reloads' : r.in \in 0 .. RetryDelay
    BY DEF HealthTypeOK, HealthReloads
  <2> QED
    BY <1>2, <1>3, <2>1, HealthAssumption
<1> QED
  BY <1>2, <1>4, <1>5 DEF StillGood

(* Steps after which the page is drawn, and steps after which it may not be. *)
LEMMA DrawInv ==
  ASSUME HealthTypeOK', FailureClears', Draw
  PROVE  HealthInv'
  BY DrawIsGood DEF HealthInv

LEMMA UndrawnInv ==
  ASSUME HealthInv, HealthTypeOK', FailureClears', DrawnIfChanged,
         green /\ UNCHANGED <<watched, seen, checking, trouble, posting>> => StillGood'
  PROVE  HealthInv'
<1>1. CASE UNCHANGED <<watched, seen, checking, trouble, posting>>
  BY <1>1 DEF DrawnIfChanged, HealthInv
<1>2. CASE ~UNCHANGED <<watched, seen, checking, trouble, posting>>
  BY <1>2, DrawInv DEF DrawnIfChanged
<1> QED
  BY <1>1, <1>2

LEMMA LoadsAre ==
  ASSUME NEW s \in HealthShops, NEW quiet, LoadHealth(s, quiet)
  PROVE  /\ check' \in HealthChecks /\ check' # NoHealth /\ check'.age = 0
         /\ trouble' = "none" /\ UNCHANGED seen
<1>1. [shop |-> s, age |-> 0] \in HealthChecks
  BY HealthAssumption DEF HealthChecks
<1> QED
  BY <1>1, NoneIsOutside DEF LoadHealth

(* The shops, another one and another language.                              *)
LEMMA WatchFromIs ==
  ASSUME HealthInv, NEW s \in HealthShops, WatchFrom(s), UNCHANGED <<reloads, posting>>
  PROVE  HealthTypeOK' /\ FailureClears'
<1>1. watched' = s /\ untilNext' = Interval /\ check' \in HealthChecks /\ trouble' = "none" /\ UNCHANGED seen
  BY LoadsAre DEF WatchFrom
<1> QED
  BY <1>1, HealthAssumption DEF HealthInv, HealthTypeOK, FailureClears

LEMMA SameChecks ==
  ASSUME HealthInv, UNCHANGED <<watched, checks, timers, posting>>
  PROVE  HealthTypeOK' /\ FailureClears' /\ (StillGood => StillGood')
  BY DEF HealthInv, HealthTypeOK, FailureClears, StillGood, NextCheckSoon, checks, timers

LEMMA ShopsInv == HealthInv /\ (ShopsKnown \/ ShopsGone \/ ShopsUnknown) => HealthInv'
<1> SUFFICES ASSUME HealthInv, ShopsKnown \/ ShopsGone \/ ShopsUnknown PROVE HealthInv'
  OBVIOUS
<1>1. CASE ShopsKnown
  <2>1. Draw /\ UNCHANGED <<reloads, posting>>
    BY <1>1 DEF ShopsKnown, retrying
  <2>2. HealthTypeOK' /\ FailureClears'
    <3>1. CASE UNCHANGED <<watched, checks, untilNext>>
      BY <2>1, <3>1, SameChecks DEF timers
    <3>2. CASE \E s \in HealthShops : WatchFrom(s)
      BY <2>1, <3>2, WatchFromIs
    <3> QED
      BY <1>1, <3>1, <3>2 DEF ShopsKnown
  <2> QED
    BY <2>1, <2>2, DrawInv
<1>2. CASE ShopsGone
  <2>1. HealthTypeOK' /\ FailureClears'
    BY <1>2, HealthAssumption DEF ShopsGone, retrying, HealthInv, HealthTypeOK, FailureClears
  <2> QED
    BY <1>2, <2>1, DrawInv DEF ShopsGone
<1>3. CASE ShopsUnknown
  <2>1. UNCHANGED <<watched, check, seen, untilNext, reloads, posting>> /\ trouble' = "list" /\ DrawnIfChanged
    BY <1>3 DEF ShopsUnknown, timers, retrying
  <2>2. HealthTypeOK' /\ FailureClears'
    BY <2>1 DEF HealthInv, HealthTypeOK, FailureClears
  <2>3. green /\ UNCHANGED checking => StillGood'
    BY <2>1 DEF HealthInv, StillGood, NextCheckSoon
  <2> QED
    BY <2>1, <2>2, <2>3, UndrawnInv
<1> QED
  BY <1>1, <1>2, <1>3

LEMMA OthersInv ==
  ASSUME HealthInv, ChangeLanguage \/ DrawAgain \/ \E s \in HealthShops : Watch(s)
  PROVE  HealthInv'
<1>1. Draw /\ UNCHANGED <<reloads, posting>>
  BY DEF ChangeLanguage, DrawAgain, Watch, timers, retrying
<1>2. CASE UNCHANGED <<watched, checks, untilNext>>
  BY <1>1, <1>2, SameChecks, DrawInv DEF timers
<1>3. CASE \E s \in HealthShops : WatchFrom(s)
  BY <1>1, <1>3, WatchFromIs, DrawInv
<1>4. watched # NoHealth => watched \in HealthShops
  BY DEF HealthInv, HealthTypeOK
<1> QED
  BY <1>2, <1>3, <1>4 DEF ChangeLanguage, DrawAgain, Watch, timers

(* The check of the interval, and those of retries.                          *)
LEMMA IntervalInv == HealthInv /\ IntervalFires => HealthInv'
<1> SUFFICES ASSUME HealthInv, IntervalFires PROVE HealthInv'
  OBVIOUS
<1>1. UNCHANGED <<watched, reloads, posting>> /\ untilNext = 0 /\ untilNext' = Interval /\ DrawnIfChanged
  BY DEF IntervalFires, retrying
<1>2. watched \in HealthShops
  BY DEF IntervalFires, HealthInv, HealthTypeOK
<1>3. check' \in HealthChecks /\ check' # NoHealth /\ check'.age = 0 /\ trouble' = "none" /\ UNCHANGED seen
  BY <1>2, LoadsAre DEF IntervalFires
<1>4. HealthTypeOK' /\ FailureClears'
  BY <1>1, <1>3, HealthAssumption DEF HealthInv, HealthTypeOK, FailureClears
<1>5. ASSUME green, UNCHANGED checking PROVE StillGood'
  <2>1. StillGood /\ seen \in HealthTold /\ seen.told \in Nat
    BY <1>5 DEF HealthInv, HealthTypeOK, StillGood, HealthTold
  <2>2. check # NoHealth => check.age \in Nat /\ check.age < Interval
    BY NoneIsOutside DEF HealthInv, HealthTypeOK
  <2>3. seen.told <= FreshFor + RetryDelay + Interval
    BY <1>1, <2>1, <2>2, HealthAssumption DEF StillGood, NextCheckSoon
  <2>4. NextCheckSoon'
    BY <1>1, <1>3, <2>1, <2>3, HealthAssumption DEF NextCheckSoon
  <2> QED
    BY <1>1, <1>3, <1>5, <2>1, <2>4 DEF StillGood
<1> QED
  BY <1>1, <1>4, <1>5, UndrawnInv

LEMMA CheckAfterRetryInv ==
  ASSUME HealthInv, NEW r \in reloads, ReloadFires(r)
  PROVE  HealthInv'
<1>1. /\ UNCHANGED <<watched, untilNext, posting>> /\ DrawnIfChanged
      /\ reloads' = reloads \ {r} /\ r.in = 0 /\ r.shop \in HealthShops \union {NoHealth}
  BY DEF ReloadFires, retrying, HealthInv, HealthTypeOK, HealthReloads
<1>2. /\ check' \in HealthChecks \union {NoHealth} /\ UNCHANGED seen
      /\ trouble' = "none" \/ (trouble' = trouble /\ check' = NoHealth)
  <2>1. CASE r.shop = NoHealth
    BY <2>1 DEF ReloadFires, LoadNothing
  <2>2. CASE r.shop # NoHealth
    BY <1>1, <2>2, LoadsAre DEF ReloadFires
  <2> QED
    BY <2>1, <2>2
<1>3. HealthTypeOK' /\ FailureClears'
  BY <1>1, <1>2 DEF HealthInv, HealthTypeOK, FailureClears
<1>4. ASSUME green, UNCHANGED checking PROVE StillGood'
  <2>1. StillGood /\ seen \in HealthTold /\ seen.told \in Nat /\ untilNext \in 0 .. Interval
    BY <1>4 DEF HealthInv, HealthTypeOK, StillGood, HealthTold
  <2>2. seen.told <= FreshFor + RetryDelay
    BY <1>1, <2>1, HealthAssumption DEF StillGood
  <2>3. NextCheckSoon'
    BY <1>1, <1>2, <2>1, <2>2, HealthAssumption DEF NextCheckSoon
  <2> QED
    BY <1>1, <1>2, <1>4, <2>1, <2>3 DEF StillGood
<1> QED
  BY <1>1, <1>3, <1>4, UndrawnInv

(* A tick: what is shown grows old, and what is due comes nearer.            *)
LEMMA TimeInv == HealthInv /\ TimePasses => HealthInv'
<1> SUFFICES ASSUME HealthInv, TimePasses PROVE HealthInv'
  OBVIOUS
<1>1. UNCHANGED <<watched, checking, trouble, green, posting>>
  BY DEF TimePasses, retrying
<1>2. \/ check' = NoHealth /\ check = NoHealth
      \/ /\ check \in HealthChecks /\ check' \in HealthChecks /\ check # NoHealth /\ check' # NoHealth
         /\ check'.age = check.age + 1 /\ check.age \in Nat
  <2>1. CASE check = NoHealth
    BY <2>1 DEF TimePasses
  <2>2. CASE check # NoHealth
    <3>1. check \in HealthChecks /\ check.age < AnswerTime /\ check' = [check EXCEPT !.age = @ + 1]
      BY <2>2 DEF TimePasses, HealthInv, HealthTypeOK
    <3>2. check' \in HealthChecks /\ check'.age = check.age + 1 /\ check.age \in Nat
      BY <3>1, HealthAssumption DEF HealthChecks
    <3> QED
      BY <2>2, <3>1, <3>2, NoneIsOutside
  <2> QED
    BY <2>1, <2>2
<1>3. untilNext' \in 0 .. Interval /\ (watched # NoHealth => untilNext' = untilNext - 1 /\ untilNext \in Nat)
  BY HealthAssumption DEF TimePasses, HealthInv, HealthTypeOK
<1>4. \/ seen' = NoHealth /\ seen = NoHealth
      \/ /\ seen \in HealthTold /\ seen' \in HealthTold /\ seen # NoHealth /\ seen'.shop = seen.shop
         /\ seen.told \in Nat /\ seen'.told \in Nat /\ seen'.told <= seen.told + 1
  <2>1. CASE seen = NoHealth
    BY <2>1 DEF TimePasses
  <2>2. CASE seen # NoHealth
    <3>1. seen \in HealthTold /\ seen' = [seen EXCEPT !.told = Older(@)]
      BY <2>2 DEF TimePasses, HealthInv, HealthTypeOK
    <3>2. \A n \in Nat : Older(n) \in Nat /\ Older(n) <= n + 1
      BY DEF Older
    <3>3. seen.told \in Nat /\ seen'.told = Older(seen.told) /\ seen'.shop = seen.shop /\ seen' \in HealthTold
      BY <3>1, <3>2 DEF HealthTold
    <3> QED
      BY <2>2, <3>1, <3>2, <3>3
  <2> QED
    BY <2>1, <2>2
<1>5. /\ reloads' \subseteq HealthReloads
      /\ \A q \in reloads' : \E r \in reloads : q.in = r.in - 1 /\ r.in \in Nat
  <2>1. \A r \in reloads : r \in HealthReloads /\ r.in > 0
    BY DEF TimePasses, HealthInv, HealthTypeOK
  <2>2. \A r \in reloads : /\ [r EXCEPT !.in = @ - 1] \in HealthReloads /\ r.in \in Nat
                           /\ [r EXCEPT !.in = @ - 1].in = r.in - 1
    BY <2>1, HealthAssumption DEF HealthReloads
  <2> QED
    BY <2>2 DEF TimePasses
<1>6. HealthTypeOK' /\ FailureClears'
  BY <1>1, <1>2, <1>3, <1>4, <1>5 DEF HealthInv, HealthTypeOK, FailureClears
<1>7. ASSUME green PROVE StillGood'
  <2>1. StillGood /\ seen # NoHealth
    BY <1>7 DEF HealthInv, StillGood
  <2>2. /\ seen' \in HealthTold /\ seen'.shop = seen.shop /\ seen' # NoHealth
        /\ seen.told \in Nat /\ seen'.told \in Nat /\ seen'.told <= seen.told + 1
    BY <1>4, <2>1, NoneIsOutside
  <2>3. untilNext' = untilNext - 1 /\ untilNext \in Nat
    BY <1>3, <1>4, <2>1, NoneIsOutside DEF StillGood, HealthTold
  <2>4. NextCheckSoon'
    BY <1>2, <2>1, <2>2, <2>3, HealthAssumption DEF StillGood, NextCheckSoon
  <2>5. \A q \in reloads' : seen'.told + q.in <= FreshFor + RetryDelay
    BY <1>5, <2>1, <2>2, HealthAssumption DEF StillGood
  <2> QED
    BY <1>1, <2>1, <2>2, <2>4, <2>5 DEF StillGood
<1> QED
  BY <1>1, <1>6, <1>7 DEF HealthInv

(* An answer; a failure leaves nothing that could be shown.                  *)
LEMMA AnswersInv == HealthInv /\ (HealthArrives \/ HealthFails) => HealthInv'
<1> SUFFICES ASSUME HealthInv, HealthArrives \/ HealthFails PROVE HealthInv'
  OBVIOUS
<1>1. UNCHANGED <<watched, untilNext, reloads, posting>> /\ check # NoHealth /\ check' = NoHealth
  BY DEF HealthArrives, HealthFails, timers, retrying
<1>2. CASE HealthFails
  <2>1. seen' = NoHealth /\ DrawnIfChanged
    BY <1>2 DEF HealthFails, NoState
  <2>2. HealthTypeOK' /\ FailureClears'
    BY <1>1, <2>1 DEF HealthInv, HealthTypeOK, FailureClears
  <2>3. ~(green /\ UNCHANGED seen)
    BY <2>1 DEF HealthInv, StillGood
  <2> QED
    BY <2>1, <2>2, <2>3, UndrawnInv
<1>3. CASE HealthArrives
  <2>1. check.shop \in HealthShops
    BY <1>1 DEF HealthInv, HealthTypeOK, HealthChecks
  <2>2. seen' \in HealthTold /\ UNCHANGED trouble /\ Draw
    BY <1>3, <2>1, HealthAssumption DEF HealthArrives, HealthTold
  <2>3. HealthTypeOK' /\ FailureClears'
    BY <1>1, <2>2 DEF HealthInv, HealthTypeOK, FailureClears
  <2> QED
    BY <2>2, <2>3, DrawInv
<1> QED
  BY <1>2, <1>3

(* A retry: the page is drawn when it begins and when it ends.               *)
LEMMA RetryInv == HealthInv /\ (RetrySync \/ Scheduled \/ NotScheduled) => HealthInv'
<1> SUFFICES ASSUME HealthInv, RetrySync \/ Scheduled \/ NotScheduled PROVE HealthInv'
  OBVIOUS
<1>1. /\ UNCHANGED <<watched, seen, check, untilNext>> /\ DrawnIfChanged /\ posting' # posting
      /\ trouble' = trouble \/ trouble' # "check"
  BY DEF RetrySync, Scheduled, NotScheduled, timers, checks
<1>2. reloads' \subseteq HealthReloads /\ posting' \subseteq HealthShops \union {NoHealth}
  <2>1. \A s \in posting : [shop |-> s, in |-> RetryDelay] \in HealthReloads
    BY HealthAssumption DEF HealthInv, HealthTypeOK, HealthReloads
  <2> QED
    BY <2>1 DEF RetrySync, Scheduled, NotScheduled, timers, HealthInv, HealthTypeOK
<1>3. HealthTypeOK' /\ FailureClears'
  BY <1>1, <1>2 DEF HealthInv, HealthTypeOK, FailureClears
<1> QED
  BY <1>1, <1>3, UndrawnInv

LEMMA HealthStep == HealthInv /\ [HealthNext]_healthVars => HealthInv'
<1> SUFFICES ASSUME HealthInv, [HealthNext]_healthVars PROVE HealthInv'
  OBVIOUS
<1>1. CASE UNCHANGED healthVars
  <2>1. UNCHANGED <<watched, checks, timers, posting, green>>
    BY <1>1 DEF healthVars, retrying
  <2> QED
    BY <2>1, SameChecks DEF HealthInv
<1> QED
  BY <1>1, ShopsInv, OthersInv, IntervalInv, CheckAfterRetryInv, TimeInv, AnswersInv, RetryInv DEF HealthNext

-----------------------------------------------------------------------------
(* The settings.  Unless one has gone on uncovered, what is being written is *)
(* for the shop selected, and holds the flag.                                *)
Choosable == SettingShops \union {NoSettings}
Kinds == Operations \union {"show", "list"}

SettingsInv ==
  /\ active \in Choosable /\ tasks \subseteq [kind : Kinds, shop : Choosable]
  /\ occupied \in BOOLEAN /\ uncovered \in BOOLEAN
  /\ ~uncovered => \A t \in Writes : t.shop = active /\ occupied
  /\ SettingsAreOfTheActiveShop

LEMMA SettingsInitInv == SettingsInit => SettingsInv
  BY DEF SettingsInit, Choosable, SettingsInv, SettingsAreOfTheActiveShop, Writes

(* A write that a step adds is for the shop selected, and holds the flag.    *)
Covered(t) == t \in Writes \/ (t.shop = active' /\ occupied')

(* What a step of an operation, of a list or of a load does.                 *)
Holds ==
  /\ active' \in Choosable /\ tasks' \subseteq [kind : Kinds, shop : Choosable]
  /\ occupied' \in BOOLEAN
  /\ ~uncovered => /\ \A t \in Writes' : Covered(t)
                   /\ {rules, samples, keyStatus}' \subseteq {NoSettings, active'}

LEMMA OpensHolds ==
  ASSUME SettingsInv, NEW to \in Choosable, Opens(to), tasks' \subseteq tasks
  PROVE  Holds
  BY DEF Opens, SettingsInv, Holds, Writes, Covered

LEMMA TakeListHolds ==
  ASSUME SettingsInv, NEW flag \in BOOLEAN, TakeList(flag), tasks' \subseteq tasks
  PROVE  Holds
<1>1. CASE occupied' = flag /\ UNCHANGED <<active, shownSettings, opening>>
  BY <1>1 DEF shownSettings, SettingsInv, SettingsAreOfTheActiveShop, Holds, Writes, Covered
<1>2. ASSUME NEW to \in Choosable, Opens(to) PROVE Holds
  BY <1>2, OpensHolds
<1> QED
  BY <1>1, <1>2 DEF TakeList, Choosable

(* The operation that is answered goes on, or ends; it was begun for the     *)
(* shop selected if it writes.                                               *)
LEMMA AnswerHolds ==
  ASSUME SettingsInv, NEW t \in tasks, Answer(t)
  PROVE  Holds
<1> DEFINE Typed == [kind : Kinds, shop : Choosable]
<1>1. t \in Typed /\ active' = active
  BY DEF SettingsInv, Answer
<1>2. ~uncovered /\ t.kind \in {"rules", "sample", "show", "key"} => t.shop = active /\ occupied
  BY DEF SettingsInv, Writes
<1>3. ASSUME NEW kind \in {"show", "status", "list"}, Continues(t, kind)
      PROVE  /\ tasks' \subseteq Typed
             /\ \A w \in tasks' : w \in tasks \/ (w.kind = kind /\ w.shop = t.shop)
  <2>1. [t EXCEPT !.kind = kind] \in Typed
    BY <1>1 DEF Kinds, Operations
  <2>2. \A w \in tasks' : w \in tasks \/ w = [t EXCEPT !.kind = kind]
    BY <1>3 DEF Continues
  <2> QED
    BY <1>1, <2>1, <2>2 DEF SettingsInv
<1>4. EndsTask(t) => tasks' \subseteq tasks /\ occupied' = FALSE
  BY DEF EndsTask
<1>5. CASE RulesAnswered(t) /\ UNCHANGED keyStatus
  <2>1. CASE t.kind \in {"locale", "rules", "show"}
    BY <1>1, <1>2, <1>4, <1>5, <2>1
       DEF RulesAnswered, StillActive, SettingsInv, SettingsAreOfTheActiveShop, Holds, Writes, Covered
  <2>2. CASE t.kind = "sample"
    <3>1. Continues(t, "show") /\ UNCHANGED <<occupied, samples, keyStatus>> /\ rules' = t.shop
      BY <1>5, <2>2 DEF RulesAnswered
    <3> QED
      BY <1>1, <1>2, <1>3, <2>2, <3>1
         DEF SettingsInv, SettingsAreOfTheActiveShop, Holds, Writes, Covered
  <2> QED
    BY <1>5, <2>1, <2>2 DEF RulesAnswered
<1>6. CASE KeyAnswered(t) /\ UNCHANGED <<rules, samples>>
  <2>1. CASE t.kind \in {"status", "key"}
    BY <1>1, <1>2, <1>4, <1>6, <2>1
       DEF KeyAnswered, StillActive, SettingsInv, SettingsAreOfTheActiveShop, Holds, Writes, Covered
  <2>2. CASE t.kind = "change"
    <3>1. Continues(t, "status") /\ UNCHANGED <<occupied, rules, samples, keyStatus>>
      BY <1>6, <2>2 DEF KeyAnswered
    <3> QED
      BY <1>1, <1>3, <3>1 DEF SettingsInv, SettingsAreOfTheActiveShop, Holds, Writes, Covered
  <2> QED
    BY <1>6, <2>1, <2>2 DEF KeyAnswered
<1>7. CASE ConnectorAnswered(t) /\ UNCHANGED shownSettings
  BY <1>1, <1>3, <1>7
     DEF ConnectorAnswered, shownSettings, SettingsInv, SettingsAreOfTheActiveShop, Holds, Writes, Covered
<1> QED
  BY <1>5, <1>6, <1>7 DEF Answer

LEMMA SettingsStepHolds == SettingsInv /\ SettingsStep => Holds
<1> SUFFICES ASSUME SettingsInv, SettingsStep PROVE Holds
  OBVIOUS
<1>1. CASE RefreshShops
  BY <1>1 DEF RefreshShops, shownSettings, SettingsInv, SettingsAreOfTheActiveShop, Holds, Writes, Covered
<1>2. CASE ListReceived
  <2>1. CASE UNCHANGED <<active, shownSettings, occupied, opening>>
    BY <1>2, <2>1
       DEF ListReceived, shownSettings, SettingsInv, SettingsAreOfTheActiveShop, Holds, Writes, Covered
  <2> QED
    BY <1>2, <2>1, TakeListHolds DEF ListReceived, SettingsInv
<1>3. ASSUME NEW to \in SettingShops, SwitchShop(to) PROVE Holds
  BY <1>3, OpensHolds DEF SwitchShop, Choosable
<1>4. ASSUME NEW o \in opening, NEW part \in o.due, PartArrives(o, part) PROVE Holds
  <2>1. occupied' \in BOOLEAN
    BY <1>4 DEF PartArrives, Cleared, SettingsInv
  <2> QED
    BY <1>4, <2>1
       DEF PartArrives, StillActive, SettingsInv, SettingsAreOfTheActiveShop, Holds, Writes, Covered
<1>5. ASSUME NEW o \in opening, NEW part \in o.due, PartFails(o, part) PROVE Holds
  <2>1. occupied' \in BOOLEAN
    BY <1>5 DEF PartFails, Cleared, SettingsInv
  <2> QED
    BY <1>5, <2>1
       DEF PartFails, shownSettings, SettingsInv, SettingsAreOfTheActiveShop, Holds, Writes, Covered
<1>6. ASSUME NEW kind \in Operations, Operate(kind) PROVE Holds
  <2>1. [kind |-> kind, shop |-> active] \in [kind : Kinds, shop : Choosable]
    BY DEF Kinds, SettingsInv
  <2> QED
    BY <1>6, <2>1
       DEF Operate, shownSettings, SettingsInv, SettingsAreOfTheActiveShop, Holds, Writes, Covered
<1>7. ASSUME NEW t \in tasks, Relist(t) PROVE Holds
  BY <1>7, TakeListHolds DEF Relist
<1>8. ASSUME NEW t \in tasks, TaskFails(t) PROVE Holds
  BY <1>8
     DEF TaskFails, EndsTask, shownSettings, SettingsInv, SettingsAreOfTheActiveShop, Holds, Writes, Covered
<1> QED
  BY <1>1, <1>2, <1>3, <1>4, <1>5, <1>6, <1>7, <1>8, AnswerHolds DEF SettingsStep

LEMMA SettingsNextInv == SettingsInv /\ [SettingsNext]_settingsVars => SettingsInv'
<1>1. ASSUME SettingsInv, UNCHANGED settingsVars PROVE SettingsInv'
  BY <1>1 DEF settingsVars, shownSettings, SettingsInv, SettingsAreOfTheActiveShop, Writes
<1>2. ASSUME SettingsInv, SettingsNext PROVE SettingsInv'
  <2>1. Holds
    BY <1>2, SettingsStepHolds DEF SettingsNext
  <2>2. uncovered' \in BOOLEAN
    BY <1>2 DEF SettingsNext, SettingsInv
  <2>3. ~uncovered' => ~uncovered /\ (Writes \intersect tasks' # {} => occupied' /\ active' = active)
    BY <1>2 DEF SettingsNext
  <2>4. ASSUME ~uncovered', NEW t \in Writes' PROVE t.shop = active' /\ occupied'
    <3>1. t \in tasks' /\ Covered(t)
      BY <2>1, <2>3, <2>4 DEF Holds, Writes
    <3>2. t \in Writes => t.shop = active /\ occupied' /\ active' = active
      BY <1>2, <2>3, <2>4, <3>1 DEF SettingsInv
    <3> QED
      BY <3>1, <3>2 DEF Covered
  <2> QED
    BY <2>1, <2>2, <2>3, <2>4 DEF Holds, SettingsInv, SettingsAreOfTheActiveShop
<1> QED
  BY <1>1, <1>2

-----------------------------------------------------------------------------
(* The login.  The two cookies are set and deleted together, so they are     *)
(* always of one login, and so is every exchange.                            *)
LoginCookies ==
  [state : Logins \union {NoCookie}, verifier : Logins \union {NoCookie}, session : Logins \union {NoCookie}]

LoginReplies == [transient : BOOLEAN, session : Logins \union {NoCookie, Same}]

LoginInv ==
  /\ cookies \in LoginCookies
  /\ exchanging \subseteq [code : Logins, verifier : Logins]
  /\ replies \subseteq LoginReplies
  /\ cookies.state = cookies.verifier
  /\ CodeMeetsItsVerifier

LEMMA LoginInitInv == LoginInit => LoginInv
  BY DEF LoginInit, LoginInv, LoginCookies, CodeMeetsItsVerifier

LEMMA LoginStep == LoginInv /\ [LoginNext]_loginVars => LoginInv'
<1> SUFFICES ASSUME LoginInv, [LoginNext]_loginVars PROVE LoginInv'
  OBVIOUS
<1>1. ASSUME UNCHANGED cookies, exchanging' \subseteq exchanging,
             replies' \subseteq replies \union LoginReplies
      PROVE  LoginInv'
  BY <1>1 DEF LoginInv, CodeMeetsItsVerifier
<1>0. /\ \A n \in Logins \union {Same} : Finish(n) \in LoginReplies
       /\ [transient |-> FALSE, session |-> NoCookie] \in LoginReplies
  BY DEF Finish, LoginReplies
<1>2. CASE UNCHANGED loginVars \/ Start \/ Leave
  BY <1>1, <1>2 DEF loginVars, Start, Leave
<1>3. CASE \E n \in Logins : Approve(n) \/ Declined(n)
  BY <1>1, <1>3, <1>0 DEF Approve, Declined
<1>4. CASE \E x \in exchanging : Exchanged(x) \/ NotExchanged(x)
  <2>1. PICK x \in exchanging : Exchanged(x) \/ NotExchanged(x)
    BY <1>4
  <2>2. x.code \in Logins
    BY DEF LoginInv
  <2> QED
    BY <1>1, <1>0, <2>1, <2>2 DEF Exchanged, NotExchanged
<1>5. CASE \E s \in departing : LeaveAnswered(s)
  BY <1>1, <1>5, <1>0 DEF LeaveAnswered
<1>6. CASE CookiesExpire
  BY <1>6 DEF CookiesExpire, LoginInv, LoginCookies, CodeMeetsItsVerifier
<1>7. ASSUME NEW n \in Logins, StartAnswered(n) PROVE LoginInv'
  BY <1>7 DEF StartAnswered, LoginInv, LoginCookies, CodeMeetsItsVerifier
<1>8. ASSUME NEW n \in Logins, Callback(n) PROVE LoginInv'
  <2>1. CASE IsStateOf(n) /\ cookies.verifier # NoCookie
    <3>1. cookies.verifier = n
      BY <2>1 DEF IsStateOf, LoginInv
    <3>2. exchanging' = exchanging \union {[code |-> n, verifier |-> n]} /\ UNCHANGED <<cookies, replies>>
      BY <1>8, <2>1, <3>1 DEF Callback
    <3> QED
      BY <3>2 DEF LoginInv, CodeMeetsItsVerifier
  <2>2. CASE ~(IsStateOf(n) /\ cookies.verifier # NoCookie)
    BY <1>1, <1>8, <1>0, <2>2 DEF Callback
  <2> QED
    BY <2>1, <2>2
<1>9. ASSUME NEW r \in replies, Delivered(r) PROVE LoginInv'
  <2>1. /\ cookies'.state = IF r.transient THEN NoCookie ELSE cookies.state
        /\ cookies'.verifier = IF r.transient THEN NoCookie ELSE cookies.verifier
        /\ cookies' \in LoginCookies
    BY <1>9 DEF Delivered, LoginInv, LoginCookies, LoginReplies
  <2> QED
    BY <1>9, <2>1 DEF Delivered, LoginInv, CodeMeetsItsVerifier
<1> QED
  BY <1>2, <1>3, <1>4, <1>5, <1>6, <1>7, <1>8, <1>9 DEF LoginNext

-----------------------------------------------------------------------------
(* The first steps.  A check under way shows no alert and no step that is    *)
(* done; a review that is shown is remembered.                               *)
FirstInv ==
  /\ connects \in Nat
  /\ SetupIsRetried
  /\ checkAt # "none" => ~alarmed /\ ~verified /\ ~healthy
  /\ alarmed => ~verified /\ ~healthy
  /\ reviewed => first \in stored

LEMMA FirstInitInv == FirstInit => FirstInv
  BY DEF FirstInit, FirstInv, SetupIsRetried

LEMMA BootStep == FirstInv /\ BootNext /\ UNCHANGED stepVars => FirstInv'
<1> SUFFICES ASSUME FirstInv, BootNext, UNCHANGED stepVars PROVE FirstInv'
  OBVIOUS
<1>1. connects' \in Nat /\ SetupIsRetried'
  <2>1. CASE Connected
    BY <2>1 DEF Connected, FirstInv, SetupIsRetried
  <2>2. CASE Disconnected
    BY <2>2 DEF Disconnected, FirstInv, SetupIsRetried
  <2>3. ASSUME NEW e \in retries, RetryFires(e) PROVE connects' \in Nat /\ SetupIsRetried'
    BY <2>3 DEF RetryFires, FirstInv, SetupIsRetried
  <2>4. CASE SetupGoesOn
    BY <2>4 DEF SetupGoesOn, FirstInv, SetupIsRetried
  <2>5. CASE SetupReturns
    BY <2>5 DEF SetupReturns, FirstInv, SetupIsRetried
  <2>6. CASE SetupThrows
    BY <2>6 DEF SetupThrows, Lasting, FirstInv, SetupIsRetried
  <2> QED
    BY <2>1, <2>2, <2>3, <2>4, <2>5, <2>6 DEF BootNext
<1> QED
  BY <1>1 DEF stepVars, FirstInv

LEMMA StepsStep == FirstInv /\ StepsNext /\ UNCHANGED bootVars => FirstInv'
<1> SUFFICES ASSUME FirstInv, StepsNext, UNCHANGED bootVars PROVE FirstInv'
  OBVIOUS
<1>1. connects' \in Nat /\ SetupIsRetried'
  BY DEF bootVars, FirstInv, SetupIsRetried
<1>2. CASE CheckAgain \/ FeatureChanges
  BY <1>1, <1>2 DEF CheckAgain, FeatureChanges, Begins, NoSteps, FirstInv
<1>3. CASE ShopsRead
  BY <1>1, <1>3 DEF ShopsRead, FirstInv
<1>4. CASE HealthRead
  BY <1>1, <1>4 DEF HealthRead, FirstInv
<1>5. CASE CheckFails
  BY <1>1, <1>5 DEF CheckFails, FirstInv
<1>6. CASE Review
  BY <1>1, <1>6 DEF Review, FirstInv
<1> QED
  BY <1>2, <1>3, <1>4, <1>5, <1>6 DEF StepsNext

LEMMA FirstStep == FirstInv /\ [FirstNext]_firstVars => FirstInv'
<1>1. FirstInv /\ UNCHANGED firstVars => FirstInv'
  BY DEF firstVars, bootVars, stepVars, FirstInv, SetupIsRetried
<1> QED
  BY <1>1, BootStep, StepsStep DEF FirstNext

-----------------------------------------------------------------------------
(* The setup.  A grant, and what a request has been told, is of the shop the *)
(* installation was made for; a request writes its relay and its token to a  *)
(* vault that is bound to its installation.                                  *)
SetupVaults ==
  [exists : BOOLEAN, slug : Slugs \union {Unset}, inst : Installations \union {Unset},
   relay : Installations \union {Unset}, token : Installations \union {Unset}, source : Uuids \union {Unset}]
SetupStates ==
  [at : {"idle", "grants", "bootstrap", "vault", "relay", "token", "configure"},
   shop : Uuids \union {Unset}, bound : Slugs \union {Unset}, inst : Installations \union {Unset},
   slug : Slugs \union {Unset}, dir : Dirs \union {Unset}]

MadeFor(i, u) == i \in 1 .. Len(owner) /\ owner[i] = u

VaultOK(d) ==
  /\ vaults[d].inst # Unset => vaults[d].inst \in 1 .. Len(owner)
  /\ vaults[d].relay \in {Unset, vaults[d].inst}
  /\ d # Root => {vaults[d].inst, vaults[d].token} \subseteq {Unset, d[2]}
  /\ vaults[d].source # Unset => MadeFor(vaults[d].inst, vaults[d].source)

SetupOK(q) ==
  /\ q.at \in {"grants", "bootstrap", "configure"} => q.shop \in Uuids
  /\ q.at \in {"vault", "relay", "token"} =>
       /\ q.inst \in 1 .. Len(owner) /\ q.slug \in Slugs /\ q.dir \in Dirs
       /\ q.dir # Root => q.dir[2] = q.inst
       /\ q.shop # Unset => owner[q.inst] = q.shop
  /\ q.at = "relay" \/ (q.at = "token" /\ q.shop # Unset) => vaults[q.dir].inst = q.inst
  /\ q.at = "configure" => q.dir \in Dirs /\ MadeFor(vaults[q.dir].inst, q.shop)
  /\ q.shop # Unset => q.bound \in Slugs

LinksInv ==
  /\ owner \in Seq(Uuids) /\ Len(owner) <= MaxInstallations
  /\ linkedAs \in [Uuids -> Grants \union {Unset}]
  /\ \A u \in Uuids : linkedAs[u] # Unset => MadeFor(linkedAs[u].inst, u)

SetupInv ==
  /\ LinksInv
  /\ vaults \in [Dirs -> SetupVaults] /\ \A d \in Dirs : VaultOK(d)
  /\ setup \in [SetupRequests -> SetupStates] /\ \A r \in SetupRequests : SetupOK(setup[r])

LEMMA IdleOK == Idle \in SetupStates /\ SetupOK(Idle)
  BY SetupAssumption DEF Idle, SetupStates, SetupOK

LEMMA SetupInvImplies == SetupInv => VaultIsOfItsShop
<1> SUFFICES ASSUME SetupInv, NEW d \in Dirs
             PROVE  /\ vaults[d].relay \in {Unset, vaults[d].inst}
                    /\ d # Root => {vaults[d].inst, vaults[d].token} \subseteq {Unset, d[2]}
                    /\ vaults[d].source # Unset =>
                         vaults[d].inst # Unset /\ vaults[d].source = owner[vaults[d].inst]
  BY DEF VaultIsOfItsShop
<1>1. VaultOK(d) /\ vaults[d].inst \in 1 .. Len(owner) => vaults[d].inst # Unset
  BY SetupAssumption DEF SetupInv, LinksInv, Installations
<1> QED
  BY <1>1 DEF SetupInv, VaultOK, MadeFor

LEMMA SetupInitInv == SetupInit => SetupInv
<1> SUFFICES ASSUME SetupInit PROVE SetupInv
  OBVIOUS
<1>1. owner \in Seq(Uuids) /\ Len(owner) = 1 /\ owner[1] = Primary
  BY SetupAssumption DEF SetupInit
<1>2. PICK slug \in Slugs : linkedAs = [u \in Uuids |-> IF u = Primary THEN [slug |-> slug, inst |-> 1] ELSE Unset]
  BY DEF SetupInit
<1>3. LinksInv
  BY <1>1, <1>2, SetupAssumption DEF LinksInv, MadeFor, Grants, Installations
<1>4. \A d \in Dirs : /\ vaults[d] = [Empty EXCEPT !.exists = (d = Root)]
                      /\ vaults[d] \in SetupVaults
  BY DEF SetupInit, Empty, SetupVaults
<1>5. \A d \in Dirs : VaultOK(d)
  BY <1>4 DEF Empty, VaultOK
<1>6. vaults \in [Dirs -> SetupVaults]
  BY <1>4 DEF SetupInit
<1>7. setup \in [SetupRequests -> SetupStates] /\ \A r \in SetupRequests : SetupOK(setup[r])
  BY IdleOK DEF SetupInit
<1> QED
  BY <1>3, <1>5, <1>6, <1>7 DEF SetupInv

(* Installations keep their shops, and vaults that are bound stay so.        *)
SetupGrows ==
  /\ \A i \in 1 .. Len(owner) : i \in 1 .. Len(owner') /\ owner'[i] = owner[i]
  /\ \A d \in Dirs : vaults[d].inst # Unset => vaults'[d].inst = vaults[d].inst

LEMMA SetupStays == ASSUME SetupInv, SetupGrows, NEW q \in SetupStates, SetupOK(q) PROVE SetupOK(q)'
<1>1. \A i \in 1 .. Len(owner) : i # Unset
  BY SetupAssumption DEF SetupInv, LinksInv, Installations
<1> QED
  BY <1>1 DEF SetupGrows, SetupOK, MadeFor

(* A step of one request.                                                    *)
LEMMA RequestStep ==
  ASSUME SetupInv, SetupGrows, LinksInv', vaults' \in [Dirs -> SetupVaults], \A d \in Dirs : VaultOK(d)',
         NEW r \in SetupRequests, NEW q \in SetupStates, SetupOK(q)', setup' = [setup EXCEPT ![r] = q]
  PROVE  SetupInv'
<1>1. setup' \in [SetupRequests -> SetupStates]
  BY DEF SetupInv
<1>2. ASSUME NEW s \in SetupRequests PROVE SetupOK(setup[s])'
  <2>1. PICK p, n : p = setup[s] /\ n = setup'[s]
    OBVIOUS
  <2>2. SetupOK(p)'
    BY <2>1, SetupStays DEF SetupInv
  <2>3. SetupOK(n)'
    BY <2>1, <2>2 DEF SetupInv
  <2> QED
    BY <2>1, <2>3 DEF SetupOK
<1> QED
  BY <1>1, <1>2 DEF SetupInv

LEMMA RequestOnly ==
  ASSUME SetupInv, UNCHANGED <<linkedAs, owner, vaults>>,
         NEW r \in SetupRequests, NEW q \in SetupStates, SetupOK(q), setup' = [setup EXCEPT ![r] = q]
  PROVE  SetupInv'
<1>1. SetupGrows /\ LinksInv' /\ vaults' \in [Dirs -> SetupVaults] /\ \A d \in Dirs : VaultOK(d)'
  BY DEF SetupInv, SetupGrows, LinksInv, MadeFor, VaultOK
<1>2. SetupOK(q)'
  BY <1>1, SetupStays
<1> QED
  BY <1>1, <1>2, RequestStep

LEMMA GoneStep ==
  ASSUME SetupInv, NEW r \in SetupRequests, Gone(r), UNCHANGED <<linkedAs, owner, vaults>>
  PROVE  SetupInv'
  BY IdleOK, RequestOnly DEF Gone

(* A write of one vault that keeps its installation once it has one.         *)
LEMMA VaultStep ==
  ASSUME SetupInv, UNCHANGED <<linkedAs, owner>>, NEW d \in Dirs, NEW v \in SetupVaults,
         vaults' = [vaults EXCEPT ![d] = v], VaultOK(d)',
         vaults[d].inst # Unset => v.inst = vaults[d].inst,
         NEW r \in SetupRequests, NEW q \in SetupStates, SetupOK(q)', setup' = [setup EXCEPT ![r] = q]
  PROVE  SetupInv'
<1>1. SetupGrows /\ LinksInv' /\ vaults' \in [Dirs -> SetupVaults]
  BY DEF SetupInv, SetupGrows, LinksInv, MadeFor
<1>2. \A e \in Dirs : VaultOK(e)'
  BY DEF SetupInv, VaultOK, MadeFor
<1> QED
  BY <1>1, <1>2, RequestStep

LEMMA AskBindingInv ==
  ASSUME SetupInv, NEW r \in SetupRequests, NEW u \in Uuids, AskBinding(r, u) PROVE SetupInv'
<1>1. PICK q : q = [Idle EXCEPT !.at = "grants", !.shop = u, !.bound = linkedAs[u].slug]
  OBVIOUS
<1>2. linkedAs[u].slug \in Slugs
  BY DEF AskBinding, SetupInv, LinksInv, Grants
<1>3. q \in SetupStates /\ SetupOK(q)
  BY <1>1, <1>2, SetupAssumption DEF Idle, SetupStates, SetupOK
<1> QED
  BY <1>1, <1>3, RequestOnly DEF AskBinding

LEMMA ReadGrantsInv ==
  ASSUME SetupInv, NEW r \in SetupRequests, ReadGrants(r) PROVE SetupInv'
<1>1. PICK q, u : q = setup[r] /\ u = q.shop
  OBVIOUS
<1>2. q \in SetupStates /\ SetupOK(q) /\ q.at = "grants" /\ u \in Uuids
  BY <1>1 DEF ReadGrants, SetupInv, SetupOK
<1>3. CASE linkedAs[u] = Unset
  BY <1>1, <1>3, GoneStep DEF ReadGrants
<1>4. CASE linkedAs[u] # Unset
  <2> DEFINE dir == DirectoryFor(u, linkedAs[u], FALSE)
             next == IF dir = Root THEN [q EXCEPT !.at = "configure", !.dir = Root] ELSE [q EXCEPT !.at = "bootstrap"]
  <2>1. setup' = [setup EXCEPT ![r] = next] /\ UNCHANGED <<linkedAs, owner, vaults>>
    BY <1>1, <1>4 DEF ReadGrants, SetupInv
  <2>2. linkedAs[u] \in Grants /\ MadeFor(linkedAs[u].inst, u)
    BY <1>2, <1>4 DEF SetupInv, LinksInv
  <2>3. dir = Root => vaults[Root].inst = linkedAs[u].inst
    <3>1. <<u, linkedAs[u].inst>> # Root /\ Unset # Root
      BY <1>2, <2>2, SetupAssumption DEF Grants
    <3> QED
      BY <3>1 DEF DirectoryFor, OpensRoot, SameInstallation
  <2>4. next \in SetupStates /\ Root \in Dirs
    BY <1>2 DEF SetupStates, Dirs
  <2>5. SetupOK(next)
    BY <1>1, <1>2, <2>2, <2>3, <2>4, SetupAssumption DEF SetupOK, SetupStates
  <2> QED
    BY <2>1, <2>4, <2>5, RequestOnly
<1> QED
  BY <1>3, <1>4

LEMMA BootstrapInv ==
  ASSUME SetupInv, NEW r \in SetupRequests, Bootstrap(r) PROVE SetupInv'
<1>1. PICK q, u : q = setup[r] /\ u = q.shop
  OBVIOUS
<1>2. q \in SetupStates /\ SetupOK(q) /\ q.at = "bootstrap" /\ u \in Uuids
  BY <1>1 DEF Bootstrap, SetupInv, SetupOK
<1>3. PICK dir : dir = IF linkedAs[u] = Unset THEN Unset ELSE DirectoryFor(u, linkedAs[u], TRUE)
  OBVIOUS
<1>4. CASE dir = Unset
  BY <1>1, <1>3, <1>4, GoneStep DEF Bootstrap
<1>5. CASE dir # Unset
  <2>1. PICK g : g = linkedAs[u]
    OBVIOUS
  <2>2. g \in Grants /\ MadeFor(g.inst, u)
    BY <1>2, <1>3, <1>5, <2>1 DEF SetupInv, LinksInv
  <2>3. dir \in {Root, <<u, g.inst>>} /\ dir \in Dirs /\ (dir # Root => dir[2] = g.inst)
    BY <1>2, <1>3, <1>5, <2>1, <2>2 DEF DirectoryFor, Dirs, Grants
  <2>4. PICK next : next = [q EXCEPT !.at = "vault", !.dir = dir, !.inst = g.inst, !.slug = g.slug]
    OBVIOUS
  <2>5. PICK v : v = [vaults[dir] EXCEPT !.exists = TRUE]
    OBVIOUS
  <2>6. next \in SetupStates /\ v \in SetupVaults
    <3>1. next \in SetupStates
      BY <1>2, <2>2, <2>3, <2>4 DEF SetupStates, Grants
    <3>2. vaults[dir] \in SetupVaults
      BY <2>3 DEF SetupInv
    <3> QED
      BY <2>5, <3>1, <3>2 DEF SetupVaults
  <2>7. vaults' = [vaults EXCEPT ![dir] = v] /\ setup' = [setup EXCEPT ![r] = next]
        /\ UNCHANGED <<linkedAs, owner>>
    BY <1>1, <1>3, <1>5, <2>1, <2>4, <2>5 DEF Bootstrap, SetupInv
  <2>8. VaultOK(dir)' /\ v.inst = vaults[dir].inst
    BY <2>3, <2>5, <2>7 DEF SetupInv, SetupVaults, VaultOK, MadeFor
  <2>9. SetupOK(next)'
    BY <1>1, <1>2, <2>2, <2>3, <2>4, <2>7 DEF SetupOK, SetupStates, MadeFor, Grants
  <2> QED
    BY <2>3, <2>6, <2>7, <2>8, <2>9, VaultStep
<1> QED
  BY <1>4, <1>5

LEMMA RefreshPrimaryInv ==
  ASSUME SetupInv, NEW r \in SetupRequests, RefreshPrimary(r) PROVE SetupInv'
<1>1. PICK g : g = linkedAs[Primary]
  OBVIOUS
<1>2. g \in Grants /\ MadeFor(g.inst, Primary)
  BY <1>1, SetupAssumption DEF RefreshPrimary, SetupInv, LinksInv
<1>3. PICK q : q = [Idle EXCEPT !.at = "token", !.dir = Root, !.inst = g.inst, !.slug = g.slug]
  OBVIOUS
<1>4. q \in SetupStates
  BY <1>2, <1>3 DEF Idle, SetupStates, Grants, Dirs
<1>5. SetupOK(q)
  BY <1>2, <1>3, SetupAssumption DEF Idle, SetupOK, MadeFor, Grants, Dirs
<1> QED
  BY <1>1, <1>3, <1>4, <1>5, RequestOnly DEF RefreshPrimary

(* A request that writes a vault: where, and for which installation.         *)
LEMMA WritesFor ==
  ASSUME SetupInv, NEW r \in SetupRequests, setup[r].at \in {"vault", "relay", "token"}
  PROVE  /\ setup[r] \in SetupStates /\ SetupOK(setup[r])
         /\ setup[r].dir \in Dirs /\ setup[r].slug \in Slugs
         /\ setup[r].inst \in 1 .. Len(owner) /\ setup[r].inst \in Installations
         /\ vaults[setup[r].dir] \in SetupVaults /\ VaultOK(setup[r].dir)
<1>1. setup[r] \in SetupStates /\ SetupOK(setup[r])
  BY DEF SetupInv
<1>2. setup[r].dir \in Dirs /\ setup[r].slug \in Slugs /\ setup[r].inst \in 1 .. Len(owner)
  BY <1>1 DEF SetupOK
<1>3. 1 .. Len(owner) \subseteq Installations
  BY SetupAssumption DEF SetupInv, LinksInv, Installations
<1> QED
  BY <1>1, <1>2, <1>3 DEF SetupInv

LEMMA OpenVaultInv ==
  ASSUME SetupInv, NEW r \in SetupRequests, OpenVault(r) PROVE SetupInv'
<1>1. PICK q, d, old : q = setup[r] /\ d = q.dir /\ old = vaults[d]
  OBVIOUS
<1>2. q \in SetupStates /\ SetupOK(q) /\ q.at = "vault" /\ d \in Dirs /\ q.slug \in Slugs
      /\ q.inst \in 1 .. Len(owner) /\ q.inst \in Installations /\ old \in SetupVaults /\ VaultOK(d)
  BY <1>1, WritesFor DEF OpenVault
<1>3. PICK made : made = Created(old, q.slug)
  OBVIOUS
<1>4. CASE made.slug # q.slug
  BY <1>1, <1>3, <1>4, GoneStep DEF OpenVault
<1>5. CASE made.slug = q.slug
  <2>1. PICK v : v = Bound(made, q.inst)
    OBVIOUS
  <2>2. made \in SetupVaults
    BY <1>2, <1>3 DEF Created, SetupVaults
  <2>3. v \in SetupVaults /\ UNCHANGED <<linkedAs, owner>> /\ vaults' = [vaults EXCEPT ![d] = v] /\ vaults'[d] = v
    <3>1. v \in SetupVaults
      BY <1>2, <2>1, <2>2 DEF Bound, SetupVaults
    <3>2. vaults' = [vaults EXCEPT ![d] = v] /\ UNCHANGED <<linkedAs, owner>>
      BY <1>1, <1>3, <1>5, <2>1 DEF OpenVault
    <3> QED
      BY <1>2, <3>1, <3>2 DEF SetupInv
  <2>4. /\ v.inst = IF old.inst = Unset THEN q.inst ELSE old.inst
        /\ v.relay = old.relay /\ v.token = old.token /\ v.source = old.source
    BY <1>2, <1>3, <2>1, <2>2 DEF Created, Bound, SetupVaults
  <2>5. d # Root => d[2] = q.inst
    BY <1>1, <1>2 DEF SetupOK
  <2>6. old.inst = Unset => old.relay = Unset /\ old.source = Unset
    <3>1. Unset \notin 1 .. Len(owner)
      BY SetupAssumption DEF SetupInv, LinksInv, Installations
    <3> QED
      BY <1>1, <1>2, <3>1 DEF VaultOK, MadeFor
  <2>7. VaultOK(d)'
    BY <1>1, <1>2, <2>3, <2>4, <2>5, <2>6 DEF VaultOK, MadeFor
  <2>8. PICK next : next = IF v.inst # q.inst THEN Idle ELSE [q EXCEPT !.at = "relay"]
    OBVIOUS
  <2>9. setup' = [setup EXCEPT ![r] = next]
    BY <1>1, <1>3, <1>5, <2>3, <2>8 DEF OpenVault, Gone, SetupInv
  <2>10. next \in SetupStates
    BY <1>2, <2>8, IdleOK DEF SetupStates
  <2>11. SetupOK(next)'
    <3>1. CASE v.inst # q.inst
      BY <2>8, <3>1, SetupAssumption DEF Idle, SetupOK
    <3>2. CASE v.inst = q.inst
      BY <1>1, <1>2, <2>3, <2>8, <3>2 DEF SetupOK, SetupStates
    <3> QED
      BY <3>1, <3>2
  <2> QED
    BY <1>1, <1>2, <2>3, <2>4, <2>7, <2>9, <2>10, <2>11, VaultStep
<1> QED
  BY <1>4, <1>5

LEMMA SaveRelayInv ==
  ASSUME SetupInv, NEW r \in SetupRequests, SaveRelay(r) PROVE SetupInv'
<1>1. PICK q, d, old : q = setup[r] /\ d = q.dir /\ old = vaults[d]
  OBVIOUS
<1>2. q \in SetupStates /\ SetupOK(q) /\ q.at = "relay" /\ d \in Dirs
      /\ q.inst \in Installations /\ old \in SetupVaults /\ VaultOK(d) /\ old.inst = q.inst
  BY <1>1, WritesFor DEF SaveRelay, SetupOK
<1>3. PICK v, next : /\ v = [old EXCEPT !.relay = q.inst]
                     /\ next = IF q.shop = Unset THEN Idle ELSE [q EXCEPT !.at = "token"]
  OBVIOUS
<1>4. v \in SetupVaults /\ v.inst = old.inst /\ next \in SetupStates
  BY <1>2, <1>3, IdleOK DEF SetupVaults, SetupStates
<1>5. /\ vaults' = [vaults EXCEPT ![d] = v] /\ vaults'[d] = v
      /\ setup' = [setup EXCEPT ![r] = next] /\ UNCHANGED <<linkedAs, owner>>
  BY <1>1, <1>2, <1>3 DEF SaveRelay, Gone, SetupInv
<1>6. VaultOK(d)'
  BY <1>1, <1>2, <1>3, <1>5 DEF VaultOK, MadeFor, SetupVaults
<1>7. SetupOK(next)'
  <2>1. CASE q.shop = Unset
    BY <1>3, <2>1, SetupAssumption DEF Idle, SetupOK
  <2>2. CASE q.shop # Unset
    BY <1>1, <1>2, <1>3, <1>4, <1>5, <2>2 DEF SetupOK, SetupStates
  <2> QED
    BY <2>1, <2>2
<1> QED
  BY <1>1, <1>2, <1>4, <1>5, <1>6, <1>7, VaultStep

LEMMA SaveTokenInv ==
  ASSUME SetupInv, NEW r \in SetupRequests, SaveToken(r) PROVE SetupInv'
<1>1. PICK q, d, old : q = setup[r] /\ d = q.dir /\ old = vaults[d]
  OBVIOUS
<1>2. q \in SetupStates /\ SetupOK(q) /\ q.at = "token" /\ d \in Dirs
      /\ q.inst \in Installations /\ old \in SetupVaults /\ VaultOK(d)
  BY <1>1, WritesFor DEF SaveToken
<1>3. PICK v, next : /\ v = [old EXCEPT !.token = q.inst]
                     /\ next = [q EXCEPT !.at = IF q.shop = Unset THEN "vault" ELSE "configure"]
  OBVIOUS
<1>4. v \in SetupVaults /\ v.inst = old.inst /\ next \in SetupStates
  BY <1>2, <1>3 DEF SetupVaults, SetupStates
<1>5. /\ vaults' = [vaults EXCEPT ![d] = v] /\ vaults'[d] = v
      /\ setup' = [setup EXCEPT ![r] = next] /\ UNCHANGED <<linkedAs, owner>>
  BY <1>1, <1>2, <1>3 DEF SaveToken, SetupInv
<1>6. VaultOK(d)'
  BY <1>1, <1>2, <1>3, <1>5 DEF VaultOK, SetupOK, MadeFor, SetupVaults
<1>7. SetupOK(next)'
  BY <1>1, <1>2, <1>3, <1>4, <1>5 DEF SetupOK, SetupStates, MadeFor
<1> QED
  BY <1>1, <1>2, <1>4, <1>5, <1>6, <1>7, VaultStep

LEMMA ConfigureInv ==
  ASSUME SetupInv, NEW r \in SetupRequests, Configure(r) PROVE SetupInv'
<1>1. PICK q, d, old : q = setup[r] /\ d = q.dir /\ old = vaults[d]
  OBVIOUS
<1>2. q \in SetupStates /\ q.at = "configure" /\ q.shop \in Uuids /\ q.bound \in Slugs
      /\ d \in Dirs /\ MadeFor(old.inst, q.shop) /\ old \in SetupVaults /\ VaultOK(d)
  BY <1>1, SetupAssumption DEF Configure, SetupInv, SetupOK
<1>3. PICK made, v : /\ made = Created(old, q.bound)
                     /\ v = IF made.slug = q.bound THEN [made EXCEPT !.source = q.shop] ELSE old
  OBVIOUS
<1>4. made \in SetupVaults /\ made.inst = old.inst /\ made.relay = old.relay /\ made.token = old.token
  BY <1>2, <1>3 DEF Created, SetupVaults
<1>5. /\ v \in SetupVaults /\ v.inst = old.inst /\ v.relay = old.relay /\ v.token = old.token
      /\ v.source \in {q.shop, old.source}
  BY <1>2, <1>3, <1>4 DEF SetupVaults
<1>6. /\ vaults' = [vaults EXCEPT ![d] = v] /\ vaults'[d] = v
      /\ setup' = [setup EXCEPT ![r] = Idle] /\ UNCHANGED <<linkedAs, owner>>
  BY <1>1, <1>2, <1>3 DEF Configure, Gone, SetupInv
<1>7. VaultOK(d)'
  BY <1>1, <1>2, <1>5, <1>6 DEF VaultOK, MadeFor
<1>8. PICK idle : idle = Idle /\ idle \in SetupStates
  BY IdleOK
<1>9. SetupOK(idle)'
  BY <1>8, SetupAssumption DEF Idle, SetupOK
<1> QED
  BY <1>1, <1>2, <1>5, <1>6, <1>7, <1>8, <1>9, VaultStep

(* The Cloud makes an installation, or none is that of a shop any more.      *)
LEMMA CloudStep ==
  ASSUME SetupInv, SetupGrows, LinksInv', UNCHANGED <<vaults, setup>>
  PROVE  SetupInv'
<1>1. \A d \in Dirs : VaultOK(d)'
  BY DEF SetupInv, SetupGrows, VaultOK, MadeFor
<1>2. \A r \in SetupRequests : SetupOK(setup[r])'
  <2>1. \A r \in SetupRequests : setup[r] \in SetupStates /\ SetupOK(setup[r])
    BY DEF SetupInv
  <2>2. ASSUME NEW r \in SetupRequests PROVE SetupOK(setup[r])'
    <3>1. PICK q : q = setup[r]
      OBVIOUS
    <3>2. SetupOK(q)'
      BY <2>1, <3>1, SetupStays
    <3> QED
      BY <3>1, <3>2 DEF SetupOK
  <2> QED
    BY <2>2
<1> QED
  BY <1>1, <1>2 DEF SetupInv

LEMMA LinkShopInv ==
  ASSUME SetupInv, NEW u \in Uuids, NEW slug \in Slugs, LinkShop(u, slug) PROVE SetupInv'
<1>1. owner' = Append(owner, u) /\ owner \in Seq(Uuids) /\ Len(owner) < MaxInstallations
  BY DEF LinkShop, SetupInv, LinksInv
<1>2. /\ owner' \in Seq(Uuids) /\ Len(owner') = Len(owner) + 1 /\ owner'[Len(owner) + 1] = u
      /\ \A i \in 1 .. Len(owner) : i \in 1 .. Len(owner') /\ owner'[i] = owner[i]
  BY <1>1
<1>3. [slug |-> slug, inst |-> Len(owner) + 1] \in Grants
  BY <1>1, SetupAssumption DEF Grants, Installations
<1>4. LinksInv'
  BY <1>1, <1>2, <1>3, SetupAssumption DEF LinkShop, SetupInv, LinksInv, MadeFor
<1>5. SetupGrows /\ UNCHANGED <<vaults, setup>>
  BY <1>2 DEF LinkShop, SetupGrows
<1> QED
  BY <1>4, <1>5, CloudStep

LEMMA RenameShopInv ==
  ASSUME SetupInv, NEW u \in Uuids, NEW slug \in Slugs, RenameShop(u, slug) PROVE SetupInv'
<1>1. linkedAs[u] \in Grants /\ linkedAs' = [linkedAs EXCEPT ![u].slug = slug]
  BY DEF RenameShop, SetupInv, LinksInv
<1>2. /\ [linkedAs[u] EXCEPT !.slug = slug] \in Grants
      /\ [linkedAs[u] EXCEPT !.slug = slug].inst = linkedAs[u].inst
  BY <1>1 DEF Grants
<1>3. LinksInv'
  BY <1>1, <1>2 DEF RenameShop, SetupInv, LinksInv, MadeFor
<1>4. SetupGrows /\ UNCHANGED <<vaults, setup>>
  BY DEF RenameShop, SetupGrows
<1> QED
  BY <1>3, <1>4, CloudStep

LEMMA RemoveShopInv == ASSUME SetupInv, NEW u \in Uuids, RemoveShop(u) PROVE SetupInv'
<1>1. LinksInv' /\ SetupGrows /\ UNCHANGED <<vaults, setup>>
  BY DEF RemoveShop, SetupInv, LinksInv, SetupGrows, MadeFor
<1> QED
  BY <1>1, CloudStep

LEMMA SetupStep == SetupInv /\ [SetupNext]_setupVars => SetupInv'
<1> SUFFICES ASSUME SetupInv, [SetupNext]_setupVars PROVE SetupInv'
  OBVIOUS
<1>1. CASE UNCHANGED setupVars
  BY <1>1, CloudStep DEF setupVars, SetupInv, SetupGrows, LinksInv, MadeFor
<1>2. ASSUME NEW r \in SetupRequests, SetupFails(r) PROVE SetupInv'
  BY <1>2, GoneStep DEF SetupFails
<1> QED
  BY <1>1, <1>2, AskBindingInv, ReadGrantsInv, BootstrapInv, RefreshPrimaryInv, OpenVaultInv,
     SaveRelayInv, SaveTokenInv, ConfigureInv, RemoveShopInv, RenameShopInv, LinkShopInv DEF SetupNext

-----------------------------------------------------------------------------
(* The session.  A pair that was replaced was about to expire then; a        *)
(* request that holds a replacement was given it within Reuse of its issue,  *)
(* and answers within Patience of that: before the pair can be replaced.     *)
FlightOK(p) ==
  /\ flight[p] # "done" => until[p] <= now
  /\ flight[p] = "pending" => p <= latest /\ (p = latest => expires[p] <= now + Skew)
  /\ flight[p] = "done" => p + 1 <= latest /\ until[p] + Life = expires[p + 1] + Reuse
  /\ p < latest => expires[p] <= now + Skew

CallOK(r) ==
  /\ stage[r] \in {"sending", "refreshing"} => session[r] \in 0 .. latest
  /\ stage[r] \in {"idle", "refreshing"} => ~refreshed[r]
  /\ stage[r] = "sending" /\ refreshed[r] =>
       since[r] + Life < expires[session[r]] + Reuse /\ now <= since[r] + Patience
  /\ stage[r] = "answered" /\ setCookie[r] \notin {Kept, NoSession} =>
       now + Life < expires[setCookie[r]] + Reuse + Patience

SessionInv ==
  SessionTypeOK /\ (\A p \in Pairs : FlightOK(p)) /\ (\A r \in Requests : CallOK(r))

LEMMA PairsAreNumbers ==
  /\ Pairs \subseteq Nat /\ 0 \in Pairs
  /\ \A p, q \in Pairs : p <= q => 0 .. p \subseteq 0 .. q /\ 0 .. p \subseteq Pairs
  BY SessionAssumption DEF Pairs

LEMMA SessionInitInv == SessionInit => SessionInv
<1> SUFFICES ASSUME SessionInit PROVE SessionInv
  OBVIOUS
<1>1. SessionTypeOK
  BY SessionAssumption DEF SessionInit, SessionTypeOK, Pairs
<1>2. \A p \in Pairs : FlightOK(p)
  BY SessionAssumption DEF SessionInit, FlightOK, Pairs
<1>3. \A r \in Requests : CallOK(r)
  BY DEF SessionInit, CallOK, Kept
<1> QED
  BY <1>1, <1>2, <1>3 DEF SessionInv

(* A pair is sent only when none may be joined, and none has been given out  *)
(* that may still be.                                                        *)
LEMMA RefreshWindow ==
  ASSUME SessionInv, NEW r \in Requests, NEW p \in Pairs, Refresh(r, p), NEW q \in Pairs, Sent(q)
  PROVE  flight[q] # "pending" /\ (q \in shared => now >= until[q])
<1>1. q = p /\ ~Joinable(p)
  BY DEF Refresh, Sent, flights, SessionInv, SessionTypeOK
<1> QED
  BY <1>1 DEF Joinable, SessionInv, SessionTypeOK, FlightOK

LEMMA RefreshInv ==
  ASSUME SessionInv, NEW r \in Requests, NEW p \in 0 .. latest, Refresh(r, p),
         ~refreshed[r], p = latest => expires[p] <= now + Skew,
         UNCHANGED <<now, cookie, setCookie, expires, latest, heard, shared>>
  PROVE  SessionInv'
<1>1. p \in Pairs /\ now \in Nat /\ latest \in Pairs /\ Pairs \subseteq Nat
  BY SessionAssumption DEF SessionInv, SessionTypeOK, Pairs
<1>2. CASE Joinable(p) /\ flight[p] = "done"
  <2>1. until[p] > now /\ p + 1 \in 0 .. latest /\ until[p] + Life = expires[p + 1] + Reuse
    BY <1>1, <1>2 DEF Joinable, SessionInv, FlightOK
  <2>2. /\ since' = [since EXCEPT ![r] = now] /\ stage' = [stage EXCEPT ![r] = "sending"]
        /\ session' = [session EXCEPT ![r] = p + 1] /\ refreshed' = [refreshed EXCEPT ![r] = TRUE]
        /\ UNCHANGED <<flight, until>>
    BY <1>2 DEF Refresh, flights
  <2>3. SessionTypeOK'
    <3>1. p + 1 \in Pairs
      BY <1>1, <2>1, PairsAreNumbers
    <3> QED
      BY <1>1, <2>2, <3>1 DEF SessionInv, SessionTypeOK
  <2>4. \A q \in Pairs : FlightOK(q)'
    BY <2>2 DEF SessionInv, FlightOK
  <2>5. CallOK(r)'
    BY <1>1, <2>1, <2>2, SessionAssumption DEF SessionInv, SessionTypeOK, CallOK, Pairs
  <2>6. \A s \in Requests \ {r} : CallOK(s)'
    BY <2>2 DEF SessionInv, SessionTypeOK, CallOK
  <2> QED
    BY <2>3, <2>4, <2>5, <2>6 DEF SessionInv
<1>3. CASE ~(Joinable(p) /\ flight[p] = "done")
  <2>1. /\ since' = [since EXCEPT ![r] = now] /\ stage' = [stage EXCEPT ![r] = "refreshing"]
        /\ session' = [session EXCEPT ![r] = p] /\ UNCHANGED refreshed
        /\ \/ UNCHANGED <<flight, until>>
           \/ flight' = [flight EXCEPT ![p] = "pending"] /\ until' = [until EXCEPT ![p] = now]
    BY <1>3 DEF Refresh, flights
  <2>2. SessionTypeOK'
    BY <1>1, <2>1 DEF SessionInv, SessionTypeOK
  <2>3. \A q \in Pairs : FlightOK(q)'
    <3>1. CASE UNCHANGED <<flight, until>>
      BY <3>1 DEF SessionInv, FlightOK
    <3>2. CASE flight' = [flight EXCEPT ![p] = "pending"] /\ until' = [until EXCEPT ![p] = now]
      <4>1. FlightOK(p)'
        BY <1>1, <3>2 DEF SessionInv, SessionTypeOK, FlightOK
      <4>2. \A q \in Pairs \ {p} : FlightOK(q)'
        BY <3>2 DEF SessionInv, SessionTypeOK, FlightOK
      <4> QED
        BY <4>1, <4>2
    <3> QED
      BY <2>1, <3>1, <3>2
  <2>4. \A s \in Requests : CallOK(s)'
    BY <2>1 DEF SessionInv, SessionTypeOK, CallOK
  <2> QED
    BY <2>2, <2>3, <2>4 DEF SessionInv
<1> QED
  BY <1>2, <1>3

(* The pairs after a step that may have issued the next, in place of p.      *)
IssuesOK ==
  /\ latest' \in Pairs /\ latest <= latest' /\ expires' \in [Pairs -> Nat]
  /\ \A q \in Pairs : q <= latest => expires'[q] = expires[q]
  /\ \A q \in Pairs : latest <= q /\ q < latest' => q = latest /\ expires[q] <= now + Skew

LEMMA IssueIsNext ==
  ASSUME SessionInv, NEW p \in Pairs, flight[p] = "pending", UNCHANGED <<expires, latest>> \/ Rotates(p)
  PROVE  IssuesOK
<1>1. latest \in Pairs /\ now + Life \in Nat /\ expires \in [Pairs -> Nat]
  BY SessionAssumption DEF SessionInv, SessionTypeOK
<1>2. CASE UNCHANGED <<expires, latest>>
  BY <1>1, <1>2, PairsAreNumbers DEF IssuesOK
<1>3. CASE Rotates(p)
  <2>1. p = latest /\ latest' = p + 1 /\ p + 1 \in Pairs /\ expires[p] <= now + Skew
    BY <1>1, <1>3, SessionAssumption DEF Rotates, SessionInv, FlightOK, Pairs
  <2>2. expires' = [expires EXCEPT ![p + 1] = now + Life]
    BY <1>3 DEF Rotates
  <2>3. \A q \in Pairs : (q <= p => q # p + 1) /\ (p <= q /\ q < p + 1 => q = p)
    BY PairsAreNumbers
  <2> QED
    BY <1>1, <2>1, <2>2, <2>3, PairsAreNumbers DEF IssuesOK
<1> QED
  BY <1>2, <1>3

(* What it leaves as it was: the other flights, and the other requests.      *)
LEMMA IssueFlights ==
  ASSUME SessionInv, IssuesOK, now' = now, NEW q \in Pairs, flight'[q] = flight[q], until'[q] = until[q]
  PROVE  FlightOK(q)'
<1>1. q \in Nat /\ latest \in Nat /\ latest' \in Nat /\ latest <= latest' /\ FlightOK(q)
  BY PairsAreNumbers DEF SessionInv, SessionTypeOK, IssuesOK
<1>2. flight[q] = "pending" => q <= latest' /\ (q = latest' => expires'[q] <= now + Skew)
  BY <1>1 DEF IssuesOK, FlightOK
<1>3. flight[q] = "done" => q + 1 <= latest' /\ until[q] + Life = expires'[q + 1] + Reuse
  <2>1. q + 1 <= latest => q + 1 \in Pairs
    BY <1>1, PairsAreNumbers DEF SessionInv, SessionTypeOK
  <2> QED
    BY <1>1, <2>1 DEF IssuesOK, FlightOK
<1>4. q < latest' => expires'[q] <= now + Skew
  BY <1>1 DEF IssuesOK, FlightOK
<1> QED
  BY <1>1, <1>2, <1>3, <1>4 DEF FlightOK

LEMMA IssueCalls ==
  ASSUME SessionInv, IssuesOK, now' = now, NEW r \in Requests,
         UNCHANGED <<stage[r], session[r], refreshed[r], since[r], setCookie[r]>>
  PROVE  CallOK(r)'
<1>1. latest \in Nat /\ latest' \in Nat /\ latest <= latest' /\ CallOK(r)
  BY PairsAreNumbers DEF SessionInv, SessionTypeOK, IssuesOK
<1>2. \A q \in 0 .. latest : q \in 0 .. latest' /\ expires'[q] = expires[q]
  BY <1>1, PairsAreNumbers DEF SessionInv, SessionTypeOK, IssuesOK
<1>3. stage[r] = "answered" /\ setCookie[r] \notin {Kept, NoSession} => setCookie[r] \in 0 .. latest
  BY DEF SessionInv, SessionTypeOK
<1> QED
  BY <1>1, <1>2, <1>3 DEF CallOK

(* All that wait hear that there is no replacement, while the Cloud may have *)
(* issued one.                                                               *)
LEMMA AllRespondInv ==
  ASSUME SessionInv, NEW p \in Pairs, flight[p] = "pending", NEW c \in {Kept, NoSession}, AllRespond(p, c),
         UNCHANGED <<now, cookie>>, heard' \in SUBSET Pairs, heard \subseteq heard', shared' = shared,
         UNCHANGED <<expires, latest>> \/ Rotates(p)
  PROVE  SessionInv'
<1>1. p <= latest /\ (p = latest => expires[p] <= now + Skew)
  BY DEF SessionInv, FlightOK
<1>2. IssuesOK
  BY <1>1, IssueIsNext
<1>3. SessionTypeOK'
  BY <1>2, PairsAreNumbers DEF IssuesOK, AllRespond, SessionInv, SessionTypeOK
<1>4. \A q \in Pairs : FlightOK(q)'
  <2>1. ASSUME NEW q \in Pairs \ {p} PROVE FlightOK(q)'
    BY <1>2, <2>1, IssueFlights DEF AllRespond, SessionInv, SessionTypeOK
  <2>2. FlightOK(p)'
    BY <1>1, <1>2, PairsAreNumbers DEF AllRespond, IssuesOK, SessionInv, SessionTypeOK, FlightOK
  <2> QED
    BY <2>1, <2>2
<1>5. ASSUME NEW r \in Requests PROVE CallOK(r)'
  <2>1. CASE r \in Waiting(p)
    BY <1>2, <2>1 DEF AllRespond, CallOK, Kept, NoSession
  <2>2. CASE r \notin Waiting(p)
    <3>1. UNCHANGED <<stage[r], session[r], refreshed[r], since[r], setCookie[r]>>
      BY <2>2 DEF AllRespond
    <3> QED
      BY <1>2, <3>1, IssueCalls
  <2> QED
    BY <2>1, <2>2
<1> QED
  BY <1>3, <1>4, <1>5 DEF SessionInv

(* The waiting requests go on with the pair that was issued.                 *)
LEMMA RotatedInv == ASSUME SessionInv, NEW p \in Pairs, Rotated(p) PROVE SessionInv'
<1>1. p = latest /\ latest' = p + 1 /\ p + 1 \in Pairs /\ flight[p] = "pending" /\ now \in Nat
  BY SessionAssumption DEF Rotated, Rotates, SessionInv, SessionTypeOK, Pairs
<1>2. IssuesOK
  BY <1>1, IssueIsNext DEF Rotated
<1>3. expires'[p + 1] = now + Life
  BY <1>1 DEF Rotated, Rotates, SessionInv, SessionTypeOK
<1>4. p \in Nat /\ 0 .. latest \subseteq 0 .. latest' /\ p + 1 \in 0 .. latest'
  BY <1>1, PairsAreNumbers
<1>5. SessionTypeOK'
  <2>1. refreshed' \in [Requests -> BOOLEAN]
    BY DEF Rotated, SessionInv, SessionTypeOK
  <2>2. now + Reuse \in Nat /\ until' \in [Pairs -> Nat] /\ since' \in [Requests -> Nat]
    BY <1>1, SessionAssumption DEF Rotated, SessionInv, SessionTypeOK
  <2>3. session' \in [Requests -> Pairs \union {NoSession}]
    BY <1>1 DEF Rotated, SessionInv, SessionTypeOK
  <2>4. /\ stage' \in [Requests -> {"idle", "refreshing", "sending", "answered"}]
        /\ flight' \in [Pairs -> {"none", "pending", "done"}]
    BY DEF Rotated, SessionInv, SessionTypeOK
  <2>5. now' \in Nat /\ heard' \subseteq Pairs /\ shared' \subseteq heard'
    BY DEF Rotated, SessionInv, SessionTypeOK
  <2> QED
    BY <1>2, <1>4, <2>1, <2>2, <2>3, <2>4, <2>5 DEF Rotated, IssuesOK, SessionInv, SessionTypeOK
<1>6. ASSUME NEW q \in Pairs \ {p} PROVE FlightOK(q)'
  BY <1>2, <1>6, IssueFlights DEF Rotated, SessionInv, SessionTypeOK
<1>7. FlightOK(p)'
  <2>1. flight'[p] = "done" /\ until'[p] = now + Reuse /\ now' = now
    BY DEF Rotated, SessionInv, SessionTypeOK
  <2>2. p < latest' => expires'[p] <= now + Skew
    BY <1>1, <1>2, <1>4 DEF IssuesOK
  <2> QED
    BY <1>1, <1>3, <1>4, <2>1, <2>2, SessionAssumption DEF FlightOK
<1>8. ASSUME NEW r \in Requests PROVE CallOK(r)'
  <2>1. CASE r \in Waiting(p)
    <3>1. stage'[r] = "sending" /\ session'[r] = p + 1 /\ since'[r] = now /\ now' = now
      BY <2>1 DEF Rotated
    <3> QED
      BY <1>1, <1>3, <1>4, <3>1, SessionAssumption DEF CallOK
  <2>2. CASE r \notin Waiting(p)
    <3>1. UNCHANGED <<stage[r], session[r], refreshed[r], since[r], setCookie[r]>> /\ now' = now
      BY <2>2 DEF Rotated, SessionInv, SessionTypeOK
    <3> QED
      BY <1>2, <3>1, IssueCalls
  <2> QED
    BY <2>1, <2>2
<1> QED
  BY <1>5, <1>6, <1>7, <1>8 DEF SessionInv

(* A request that keeps its pairs: it answers, or is delivered.              *)
LEMMA RespondInv ==
  ASSUME SessionInv, NEW r \in Requests, stage[r] = "sending",
         NEW c \in {NoSession, Replacement(r)}, Respond(r, c),
         UNCHANGED <<now, cookie, session, refreshed, since, flights, expires, latest, heard, shared>>
  PROVE  SessionInv'
<1>1. session[r] \in 0 .. latest /\ refreshed[r] \in BOOLEAN /\ CallOK(r)
  BY DEF SessionInv, SessionTypeOK, CallOK
<1>2. SessionTypeOK'
  BY <1>1 DEF Respond, Replacement, flights, SessionInv, SessionTypeOK
<1>3. \A p \in Pairs : FlightOK(p)'
  BY DEF flights, SessionInv, FlightOK
<1>4. CallOK(r)'
  <2>1. stage'[r] = "answered" /\ setCookie'[r] = c
    BY DEF Respond, SessionInv, SessionTypeOK
  <2>2. c \notin {Kept, NoSession} => refreshed[r] /\ c = session[r]
    BY DEF Replacement
  <2>3. now \in Nat /\ since[r] \in Nat /\ expires[session[r]] \in Nat
    BY <1>1, PairsAreNumbers DEF SessionInv, SessionTypeOK
  <2> QED
    BY <1>1, <2>1, <2>2, <2>3, SessionAssumption DEF CallOK
<1>5. \A s \in Requests \ {r} : CallOK(s)'
  BY DEF Respond, SessionInv, SessionTypeOK, CallOK
<1> QED
  BY <1>2, <1>3, <1>4, <1>5 DEF SessionInv

LEMMA BeginInv == ASSUME SessionInv, NEW r \in Requests, Begin(r) PROVE SessionInv'
<1>1. cookie \in 0 .. latest /\ ~refreshed[r]
  BY DEF Begin, SessionInv, SessionTypeOK, CallOK
<1>2. CASE expires[cookie] <= now + Skew
  BY <1>1, <1>2, RefreshInv DEF Begin
<1>3. CASE ~(expires[cookie] <= now + Skew)
  <2>1. /\ stage' = [stage EXCEPT ![r] = "sending"] /\ session' = [session EXCEPT ![r] = cookie]
        /\ since' = [since EXCEPT ![r] = now] /\ UNCHANGED <<refreshed, flight, until>>
        /\ UNCHANGED <<now, cookie, setCookie, expires, latest, heard, shared>>
    BY <1>3 DEF Begin, flights
  <2>2. SessionTypeOK'
    BY <1>1, <2>1, PairsAreNumbers DEF SessionInv, SessionTypeOK
  <2>3. \A p \in Pairs : FlightOK(p)'
    BY <2>1 DEF SessionInv, FlightOK
  <2>4. \A s \in Requests : CallOK(s)'
    BY <1>1, <2>1 DEF SessionInv, SessionTypeOK, CallOK
  <2> QED
    BY <2>2, <2>3, <2>4 DEF SessionInv
<1> QED
  BY <1>2, <1>3

LEMMA UnauthorizedInv == ASSUME SessionInv, NEW r \in Requests, Unauthorized(r) PROVE SessionInv'
<1>1. CASE refreshed[r]
  BY <1>1, RespondInv DEF Unauthorized
<1>2. CASE ~refreshed[r]
  <2>1. session[r] \in 0 .. latest /\ Refresh(r, session[r])
    BY <1>2 DEF Unauthorized, SessionInv, CallOK
  <2>2. session[r] = latest => expires[session[r]] <= now + Skew
    <3>1. session[r] \in Pairs /\ session[r] \in Nat /\ now \in Nat
      BY <2>1, PairsAreNumbers DEF SessionInv, SessionTypeOK
    <3> QED
      BY <3>1, SessionAssumption DEF Unauthorized, Refused, SessionInv, SessionTypeOK
  <2> QED
    BY <1>2, <2>1, <2>2, RefreshInv DEF Unauthorized
<1> QED
  BY <1>1, <1>2

LEMMA DeliverInv ==
  ASSUME SessionInv, NEW r \in Requests, Deliver(r)
  PROVE  SessionInv' /\ (cookie' # NoSession => cookie' >= cookie)
<1>1. SessionTypeOK'
  BY DEF Deliver, flights, SessionInv, SessionTypeOK, Kept, NoSession
<1>2. \A p \in Pairs : FlightOK(p)'
  BY DEF Deliver, flights, SessionInv, FlightOK
<1>3. \A s \in Requests : CallOK(s)'
  BY DEF Deliver, SessionInv, SessionTypeOK, CallOK
<1>4. ASSUME cookie' # NoSession PROVE cookie' >= cookie
  <2>1. cookie \in Int /\ latest \in Nat /\ cookie <= latest
    BY PairsAreNumbers DEF SessionInv, SessionTypeOK, NoSession
  <2>2. CASE setCookie[r] = Kept
    BY <2>1, <2>2 DEF Deliver
  <2>3. CASE setCookie[r] # Kept
    <3>1. PICK c : c = setCookie[r]
      OBVIOUS
    <3>2. cookie' = c /\ c \in 0 .. latest /\ now + Life < expires[c] + Reuse + Patience
      BY <1>4, <2>3, <3>1 DEF Deliver, SessionInv, SessionTypeOK, CallOK
    <3>3. c \in Pairs /\ now \in Nat /\ expires[c] \in Nat
      BY <3>2, PairsAreNumbers DEF SessionInv, SessionTypeOK
    <3>4. c < latest => expires[c] <= now + Skew
      BY <3>3 DEF SessionInv, FlightOK
    <3> QED
      BY <2>1, <3>2, <3>3, <3>4, SessionAssumption
  <2> QED
    BY <2>2, <2>3
<1> QED
  BY <1>1, <1>2, <1>3, <1>4 DEF SessionInv

LEMMA TickInv == SessionInv /\ Tick => SessionInv'
<1> SUFFICES ASSUME SessionInv, Tick PROVE SessionInv'
  OBVIOUS
<1>1. SessionTypeOK'
  BY DEF Tick, calls, flights, SessionInv, SessionTypeOK
<1>2. ASSUME NEW p \in Pairs PROVE FlightOK(p)'
  BY PairsAreNumbers, SessionAssumption DEF Tick, flights, SessionInv, SessionTypeOK, FlightOK
<1>3. ASSUME NEW r \in Requests PROVE CallOK(r)'
  BY SessionAssumption DEF Tick, calls, SessionInv, SessionTypeOK, CallOK
<1> QED
  BY <1>1, <1>2, <1>3 DEF SessionInv

(* What a step may never do.                                                 *)
Forward ==
  /\ \A p \in Pairs : Sent(p) => flight[p] # "pending" /\ (p \in shared => now >= until[p])
  /\ cookie' # NoSession => cookie' >= cookie

LEMMA SessionStep == SessionInv /\ [SessionNext]_sessionVars => SessionInv' /\ Forward
<1> SUFFICES ASSUME SessionInv, [SessionNext]_sessionVars PROVE SessionInv' /\ Forward
  OBVIOUS
<1>0. /\ cookie' = cookie => (cookie' # NoSession => cookie' >= cookie)
      /\ UNCHANGED flights => \A p \in Pairs : ~Sent(p)
  BY PairsAreNumbers DEF SessionInv, SessionTypeOK, NoSession, flights, Sent
<1>1. CASE UNCHANGED sessionVars
  BY <1>0, <1>1
     DEF sessionVars, calls, flights, SessionInv, SessionTypeOK, FlightOK, CallOK, Forward
<1>2. ASSUME NEW r \in Requests, Begin(r) PROVE SessionInv' /\ Forward
  <2>1. cookie \in Pairs
    BY <1>2, PairsAreNumbers DEF Begin, SessionInv, SessionTypeOK
  <2> QED
    BY <1>0, <1>2, <2>1, BeginInv, RefreshWindow DEF Begin, Forward
<1>3. ASSUME NEW r \in Requests, Resource(r) PROVE SessionInv' /\ Forward
  BY <1>0, <1>3, RespondInv DEF Resource, Forward
<1>4. ASSUME NEW r \in Requests, Unauthorized(r) PROVE SessionInv' /\ Forward
  <2>1. session[r] \in Pairs
    BY <1>4, PairsAreNumbers DEF Unauthorized, SessionInv, SessionTypeOK, CallOK
  <2> QED
    BY <1>0, <1>4, <2>1, UnauthorizedInv, RefreshWindow DEF Unauthorized, Forward
<1>5. ASSUME NEW r \in Requests, Deliver(r) PROVE SessionInv' /\ Forward
  BY <1>0, <1>5, DeliverInv DEF Deliver, Forward
<1>6. ASSUME NEW p \in Pairs, Rotated(p) PROVE SessionInv' /\ Forward
  <2>1. \A q \in Pairs : ~Sent(q)
    BY <1>6 DEF Rotated, SessionInv, SessionTypeOK, Sent
  <2> QED
    BY <1>0, <1>6, <2>1, RotatedInv DEF Rotated, Forward
<1>7. ASSUME NEW p \in Pairs, NotStored(p) \/ Lost(p) \/ Invalid(p) \/ Unreached(p)
      PROVE  SessionInv' /\ Forward
  <2>1. PICK c \in {Kept, NoSession} : AllRespond(p, c) /\ cookie' = cookie
    BY <1>7 DEF NotStored, Lost, Invalid, Unreached
  <2>2. \A q \in Pairs : ~Sent(q)
    BY <2>1 DEF AllRespond, SessionInv, SessionTypeOK, Sent
  <2>3. SessionInv'
    <3>1. /\ flight[p] = "pending" /\ UNCHANGED <<now, cookie, shared>>
          /\ heard' \in {heard, heard \union {p}} /\ (UNCHANGED <<expires, latest>> \/ Rotates(p))
      BY <1>7 DEF NotStored, Lost, Invalid, Unreached, Rotates
    <3>2. heard \subseteq Pairs
      BY DEF SessionInv, SessionTypeOK
    <3> QED
      BY <2>1, <3>1, <3>2, AllRespondInv
  <2> QED
    BY <1>0, <2>1, <2>2, <2>3 DEF Forward
<1>8. CASE Tick
  BY <1>0, <1>8, TickInv DEF Tick, Forward
<1> QED
  BY <1>1, <1>2, <1>3, <1>4, <1>5, <1>6, <1>7, <1>8 DEF SessionNext

-----------------------------------------------------------------------------
(* The dashboard.  A step of it is a step of one view, and every other view  *)
(* stays as it is: so each invariant holds of every step.                    *)
DashboardInv ==
  /\ EntitlementInv /\ ReviewInv /\ InboxInv /\ FundingInv /\ PlanInv
  /\ ReportInv /\ ConsentInv /\ EvidenceInv /\ HealthInv /\ SettingsInv
  /\ LoginInv /\ FirstInv /\ SetupInv /\ SessionInv

LEMMA OfOneView ==
  ASSUME [DashboardNext]_dashboardVars
  PROVE  /\ [ViewNext]_viewVars /\ [ReviewNext]_reviewVars /\ [InboxNext]_inboxVars
         /\ [FundingNext]_fundingVars /\ [PlanNext]_planVars
         /\ [ReportNext]_reportVars /\ [ConsentNext]_consentVars /\ [EvidenceNext]_evidenceVars
         /\ [HealthNext]_healthVars /\ [SettingsNext]_settingsVars
         /\ [LoginNext]_loginVars /\ [FirstNext]_firstVars
         /\ [SetupNext]_setupVars /\ [SessionNext]_sessionVars
<1>1. CASE UNCHANGED dashboardVars
  BY <1>1 DEF dashboardVars, memberVars, shopVars, entryVars
<1>2. CASE MemberNext /\ UNCHANGED <<shopVars, entryVars>>
  BY <1>2 DEF MemberNext, shopVars, entryVars
<1>3. CASE ShopNext /\ UNCHANGED <<memberVars, entryVars>>
  BY <1>3 DEF ShopNext, memberVars, entryVars
<1>4. CASE EntryNext /\ UNCHANGED <<memberVars, shopVars>>
  BY <1>4 DEF EntryNext, memberVars, shopVars
<1> QED
  BY <1>1, <1>2, <1>3, <1>4 DEF DashboardNext

LEMMA DashboardInitInv == DashboardInit => DashboardInv
<1> SUFFICES ASSUME DashboardInit PROVE DashboardInv
  OBVIOUS
<1>1. EntitlementInv /\ ReviewInv /\ InboxInv /\ FundingInv /\ PlanInv
  BY EntitlementInitInv, ReviewInitInv, InboxInitInv, FundingInitInv, PlanInitInv DEF DashboardInit
<1>2. ReportInv /\ ConsentInv /\ EvidenceInv /\ HealthInv /\ SettingsInv
  BY ReportInitInv, ConsentInitInv, EvidenceInitInv, HealthInitInv, SettingsInitInv DEF DashboardInit
<1>3. LoginInv /\ FirstInv /\ SetupInv /\ SessionInv
  BY LoginInitInv, FirstInitInv, SetupInitInv, SessionInitInv DEF DashboardInit
<1> QED
  BY <1>1, <1>2, <1>3 DEF DashboardInv

LEMMA DashboardStep == DashboardInv /\ [DashboardNext]_dashboardVars => DashboardInv'
<1> SUFFICES ASSUME DashboardInv, [DashboardNext]_dashboardVars PROVE DashboardInv'
  OBVIOUS
<1>1. (EntitlementInv /\ ReviewInv /\ InboxInv /\ FundingInv /\ PlanInv)'
  BY OfOneView, EntitlementStep, ReviewStep, InboxStep, FundingStep, PlanStep DEF DashboardInv
<1>2. (ReportInv /\ ConsentInv /\ EvidenceInv /\ HealthInv /\ SettingsInv)'
  BY OfOneView, ReportStep, ConsentStep, EvidenceStep, HealthStep, SettingsNextInv DEF DashboardInv
<1>3. (LoginInv /\ FirstInv /\ SetupInv /\ SessionInv)'
  BY OfOneView, LoginStep, FirstStep, SetupStep, SessionStep DEF DashboardInv
<1> QED
  BY <1>1, <1>2, <1>3 DEF DashboardInv

(* The invariants of the views, which hold of the dashboard at all times.    *)
THEOREM DashboardHolds == DashboardSpec => []DashboardInv
  BY DashboardInitInv, DashboardStep, PTL DEF DashboardSpec

(* For any messages: one whose acknowledgement was answered is not shown     *)
(* as unread by any list that arrives afterwards (MemberMessages.tsx:164).   *)
THEOREM ReadMessagesStayRead == DashboardSpec => []ReadStaysRead
<1>1. DashboardInv => ReadStaysRead
  BY DEF DashboardInv, InboxInv
<1> QED
  BY <1>1, DashboardHolds, PTL

(* For any shops and editions of the agreement: a key is asked for with      *)
(* the edition that was on the page, for the shop and in the language of     *)
(* the page, when the box was ticked (CloudConfiguration.tsx:431).           *)
THEOREM ConsentIsInformed == DashboardSpec => []ConsentIsToWhatWasShown
<1>1. DashboardInv => ConsentIsToWhatWasShown
  BY DEF DashboardInv, ConsentInv
<1> QED
  BY <1>1, DashboardHolds, PTL

(* For any shops, pages, listings, plans and tabs: pages of evidence, the    *)
(* settings of the supervisor, the rules and the key of a shop, and a        *)
(* price are of what is chosen where they are shown, whatever was chosen     *)
(* when they were asked for; the rules and the key unless a write was left   *)
(* uncovered.                                                                *)
THEOREM ViewsShowTheChoice == DashboardSpec => []ShownIsOfTheChoice
<1>1. DashboardInv => ShownIsOfTheChoice
  BY EvidenceFromInv, PagesInvImplies DEF DashboardInv, PlanInv, ReportInv, SettingsInv, ShownIsOfTheChoice
<1> QED
  BY <1>1, DashboardHolds, PTL

(* For any shops, interval, timeouts and delays, and any number of retries   *)
(* and changes of shop, list or language: what is shown as verified is of    *)
(* the shop selected, which has passed within the age that is good, a retry's *)
(* delay, an interval and an answer; and no failed check leaves it there     *)
(* (SynchronizationHealth.tsx:113).                                          *)
THEOREM GreenShopsPassedRecently == DashboardSpec => []GreenIsRecent
<1>1. DashboardInv => GreenIsRecent
  BY HealthInvImplies DEF DashboardInv
<1> QED
  BY <1>1, DashboardHolds, PTL

(* For any number of overlapping logins and tabs: a code is exchanged with   *)
(* the verifier of its own login (callback/route.ts:33).                     *)
THEOREM LoginsAreNotMixed == DashboardSpec => []CodeMeetsItsVerifier
<1>1. DashboardInv => CodeMeetsItsVerifier
  BY DEF DashboardInv, LoginInv
<1> QED
  BY <1>1, DashboardHolds, PTL

(* For any shops, installations and overlapping setups: a vault holds the    *)
(* relay, and beside the first vault the token, of the installation it is    *)
(* bound to, and the source of the shop that was made for (workspace-        *)
(* store.mjs:33).                                                            *)
THEOREM SetupsAreNotMixed == DashboardSpec => []VaultIsOfItsShop
<1>1. DashboardInv => VaultIsOfItsShop
  BY SetupInvImplies DEF DashboardInv
<1> QED
  BY <1>1, DashboardHolds, PTL

(* For any connections and shops: while connected, the setup is under way,   *)
(* has returned, or has a timer to try again; and beside the alert of the    *)
(* checklist neither source nor synchronization is shown as verified, nor    *)
(* emails as reviewed unless the browser remembers it of the shop shown      *)
(* (Dashboard.tsx:446, SetupChecklist.tsx:82).                               *)
THEOREM FirstStepsAreReal == DashboardSpec => []StepsAreReal
<1>1. DashboardInv => StepsAreReal
  BY DEF DashboardInv, FirstInv, StepsAreReal, NoStepIsAssumed
<1> QED
  BY <1>1, DashboardHolds, PTL

(* For any tabs, plans, cycles and hours: a purchase that is tried again     *)
(* is sent under the intent of the first try while that may be used, and     *)
(* no two purchases share one (PlanAndData.tsx:237).                         *)
THEOREM OnePurchasePerIntent == DashboardSpec => []PurchasesAreMadeOnce
<1>1. DashboardInv => PurchasesAreMadeOnce
  BY IntentsInvImplies DEF DashboardInv, PlanInv
<1> QED
  BY <1>1, DashboardHolds, PTL

(* For any plans, logouts and overlapping requests: what replaces the        *)
(* entitlements shown is of the session there is, and not older than they    *)
(* are (Dashboard.tsx:270).                                                  *)
THEOREM EntitlementsAreNewest == DashboardSpec => ShownIsNewest
<1>1. DashboardInv /\ [DashboardNext]_dashboardVars => [TakesNewer]_viewVars
  BY OfOneView, EntitlementStep DEF DashboardInv
<1>2. DashboardSpec => [][TakesNewer]_viewVars
  BY <1>1, DashboardHolds, PTL DEF DashboardSpec
<1> QED
  BY <1>2, PTL DEF ShownIsNewest, TakesNewer

(* For any shops, emails and copies of them: what is approved is a copy      *)
(* that was shown, and no email is acted on before a page was read after     *)
(* the last action on it (EmailApprovals.tsx:155).                           *)
THEOREM ApprovalsWereShown == DashboardSpec => ApprovedWasPreviewed
<1>1. DashboardInv /\ [DashboardNext]_dashboardVars => [PostsWhatWasShown]_reviewVars
  BY OfOneView, ReviewStep DEF DashboardInv
<1>2. DashboardSpec => [][PostsWhatWasShown]_reviewVars
  BY <1>1, DashboardHolds, PTL DEF DashboardSpec
<1> QED
  BY <1>2, PTL DEF ApprovedWasPreviewed, PostsWhatWasShown

(* For any sponsors, sections and offers: a support link is of the offer     *)
(* held, and a refresh changes no advertisement that is still offered        *)
(* (CommunityFunding.tsx:34, 49).                                            *)
THEOREM OffersAreKept == DashboardSpec => OfferIsKept
<1>1. DashboardInv /\ [DashboardNext]_dashboardVars => [LinkIsOfTheOffer' /\ AdStays]_fundingVars
  BY OfOneView, FundingStep DEF DashboardInv, FundingInv
<1>2. DashboardSpec => [][LinkIsOfTheOffer' /\ AdStays]_fundingVars
  BY <1>1, DashboardHolds, PTL DEF DashboardSpec
<1> QED
  BY <1>2, PTL DEF OfferIsKept

(* For any requests, clock and number of rotations, if a pair is not due     *)
(* before its sharing is over and a call has ended: no pair is spent while   *)
(* its rotation is under way or shared, and the browser never goes back to   *)
(* an older pair (authenticated-cloud-fetch.ts:45).                          *)
THEOREM SessionsGoForward == DashboardSpec => SessionGoesForward
<1>1. DashboardInv /\ [DashboardNext]_dashboardVars => [Forward]_sessionVars
  BY OfOneView, SessionStep DEF DashboardInv
<1>2. DashboardSpec => [][Forward]_sessionVars
  BY <1>1, DashboardHolds, PTL DEF DashboardSpec
<1> QED
  BY <1>2, PTL DEF Forward, SessionGoesForward, ReuseWindow, CookieNeverGoesBack
=============================================================================
