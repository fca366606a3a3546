------------------------------ MODULE PlanChange ------------------------------
(* The change of a plan (components/PlanAndData.tsx), in several tabs of one *)
(* browser: a review asks for the price of what is selected and asks again   *)
(* when that changes; a purchase selects the plan and then asks for a        *)
(* checkout under an intent, which the browser stores so that the same       *)
(* purchase, tried again, is made once.                                      *)
EXTENDS Naturals

CONSTANTS
  Tabs,        \* of the browser
  Plans,       \* that may be bought
  Cycles,      \* of billing
  Unpriced,    \* no price
  IntentLife,  \* an intent is used for this long (25 h)
  MaxIntents,  \* bound: intents generated
  MaxHours     \* bound: the last instant

ASSUME PlanAssumption == {IntentLife, MaxIntents, MaxHours} \subseteq Nat

VARIABLES
  hour,     \* the browser's clock
  page,     \* each tab: what is selected, the review, its price, what is done
  pricing,  \* prices each tab has asked for and not been told
  stores,   \* the storage that works: shared by the tabs, of each, or none
  saved,    \* the intent of each selection in each of them
  intents,  \* generated so far
  sent      \* checkouts asked for: by whom, of what, under which intent

planVars == <<hour, page, pricing, stores, saved, intents, sent>>

Selections == Plans \X Cycles
NoIntent == [id |-> 0, created |-> 0]

NoOrder == <<>>

Opened(plan, cycle) ==
  [plan |-> plan, cycle |-> cycle, review |-> "closed", compared |-> Unpriced,
   upgrade |-> FALSE, price |-> Unpriced, loading |-> FALSE, busy |-> "no", order |-> NoOrder]

(* What a review is about is not kept track of after it.                     *)
Closed(p) ==
  [p EXCEPT !.review = "closed", !.compared = Unpriced, !.upgrade = FALSE, !.price = Unpriced, !.loading = FALSE]

PlanInit ==
  /\ hour = 0 /\ pricing = [t \in Tabs |-> {}]
  /\ page \in [Tabs -> {Opened(p, c) : p \in Plans, c \in Cycles}]
  /\ stores \in {"shared", "tab", "none"}
  /\ saved = [place \in Tabs \union {"shared"} |-> [s \in Selections |-> NoIntent]]
  /\ intents = 0 /\ sent = {}

-----------------------------------------------------------------------------
(* The review.                                                               *)

(* previewPlan, with the cycle: an account that can only be upgraded is      *)
(* shown the price of that.                                                  *)
Upgraded == CHOOSE p \in Plans : TRUE
Previewed(p) ==
  <<IF p.review = "portal" THEN p.compared ELSE IF p.upgrade THEN Upgraded ELSE p.plan, p.cycle>>

(* A page whose review has opened, or shows another selection, asks for its  *)
(* price; what it had asked for before is aborted.                           *)
Becomes(t, p) ==
  LET asks == p.review # "closed" /\ (page[t].review = "closed" \/ Previewed(p) # Previewed(page[t]))
  IN /\ page' = [page EXCEPT ![t] = IF asks THEN [p EXCEPT !.price = Unpriced, !.loading = TRUE] ELSE p]
     /\ pricing' = IF asks THEN [pricing EXCEPT ![t] = @ \union {Previewed(p)}] ELSE pricing

AtRest(t) == page[t].review = "closed" /\ page[t].busy = "no"

SelectPlan(t, s) ==
  /\ AtRest(t) /\ page' = [page EXCEPT ![t].plan = s[1], ![t].cycle = s[2]]
  /\ UNCHANGED <<hour, pricing, stores, saved, intents, sent>>

(* Reviews share nothing: one is open at a time.                             *)
ReviewPlan(t, action, compared) ==
  /\ AtRest(t) /\ \A other \in Tabs : page[other].review = "closed"
  /\ \E upgrade \in BOOLEAN :
       Becomes(t, [page[t] EXCEPT !.review = action, !.upgrade = upgrade,
                                  !.compared = IF action = "portal" THEN compared ELSE Unpriced])
  /\ UNCHANGED <<hour, stores, saved, intents, sent>>

Compare(t, plan) ==
  /\ page[t].review = "portal"
  /\ Becomes(t, [page[t] EXCEPT !.compared = plan])
  /\ UNCHANGED <<hour, stores, saved, intents, sent>>

(* Entitlements are refreshed around it: the plan selected may no longer be  *)
(* a target, and an upgrade may be all there is.  (Outside a review this is  *)
(* what SelectPlan may do.)                                                  *)
Refreshed(t) ==
  /\ page[t].review # "closed"
  /\ \E plan \in Plans, upgrade \in BOOLEAN : Becomes(t, [page[t] EXCEPT !.plan = plan, !.upgrade = upgrade])
  /\ UNCHANGED <<hour, stores, saved, intents, sent>>

AnyAnswer(t, s) == page[t].review # "closed"
NotAborted(t, s) == page[t].review # "closed" /\ s = Previewed(page[t])

(* An answer, if it is still waited for: a price of just that, or none.  (Of *)
(* two requests for one selection the answers are the same.)                 *)
PriceAnswered(t, s) ==
  /\ s \in pricing[t] /\ pricing' = [pricing EXCEPT ![t] = @ \ {s}]
  /\ \E price \in {s, Unpriced} :
       page' = IF NotAborted(t, s) THEN [page EXCEPT ![t].price = price, ![t].loading = FALSE] ELSE page
  /\ UNCHANGED <<hour, stores, saved, intents, sent>>

Close(t) ==
  /\ page[t].review # "closed" /\ page' = [page EXCEPT ![t] = Closed(@)]
  /\ pricing' = [pricing EXCEPT ![t] = {}]
  /\ UNCHANGED <<hour, stores, saved, intents, sent>>

-----------------------------------------------------------------------------
(* startSubscription() and openBillingPortal().                              *)

Confirm(t) ==
  LET p == page[t] IN
  /\ p.review # "closed" /\ ~p.loading /\ p.busy = "no"
  /\ page' = [page EXCEPT ![t] = IF p.review = "portal" \/ p.upgrade
                                   THEN [Closed(p) EXCEPT !.busy = "away"]
                                   ELSE [Closed(p) EXCEPT !.busy = "selects", !.order = <<p.plan, p.cycle>>]]
  /\ pricing' = [pricing EXCEPT ![t] = {}]
  /\ UNCHANGED <<hour, stores, saved, intents, sent>>

(* An answer that ends it: a failure, a payment already made, or a page of   *)
(* the Cloud, from which the tab comes back anew.                            *)
Ends(t) ==
  /\ page[t].busy # "no"
  /\ \/ page' = [page EXCEPT ![t].busy = "no", ![t].order = NoOrder]
     \/ page[t].busy = "away" /\ \E s \in Selections : page' = [page EXCEPT ![t] = Opened(s[1], s[2])]
  /\ UNCHANGED <<hour, pricing, stores, saved, intents, sent>>

Place(t) == IF stores = "shared" THEN "shared" ELSE t

Usable(intent) == intent # NoIntent /\ hour - intent.created <= IntentLife

(* The plan is selected: the saved intent of this purchase is taken, or one  *)
(* is generated and saved, in one go, and a checkout is asked for under it.  *)
(* (Browsers do not promise that no other tab stores one between the reading *)
(* and the saving; here none does.)                                          *)
Purchase(t) == page[t].order
CycleOnly(t) == <<CHOOSE p \in Plans : TRUE, page[t].order[2]>>
IntentKey(t) == Purchase(t)

CheckOut(t) ==
  LET kept == saved[Place(t)][IntentKey(t)]
      fresh == [id |-> intents + 1, created |-> hour]
      intent == IF stores # "none" /\ Usable(kept) THEN kept ELSE fresh
  IN /\ page[t].busy = "selects" /\ page' = [page EXCEPT ![t].busy = "away", ![t].order = NoOrder]
     /\ intent = fresh => intents < MaxIntents
     /\ intents' = IF intent = fresh THEN intents + 1 ELSE intents
     /\ saved' = IF stores = "none" THEN saved ELSE [saved EXCEPT ![Place(t)][IntentKey(t)] = intent]
     /\ sent' = sent \union {[place |-> Place(t), of |-> Purchase(t), intent |-> intent]}
     /\ UNCHANGED <<hour, pricing, stores>>

HourPasses ==
  /\ hour < MaxHours /\ hour' = hour + 1
  /\ UNCHANGED <<page, pricing, stores, saved, intents, sent>>

PlanNext ==
  \/ HourPasses
  \/ \E t \in Tabs :
       \/ \E s \in Selections : SelectPlan(t, s) \/ PriceAnswered(t, s)
       \/ \E action \in {"checkout", "portal"}, plan \in Plans : ReviewPlan(t, action, plan)
       \/ \E plan \in Plans : Compare(t, plan)
       \/ Refreshed(t) \/ Close(t) \/ Confirm(t) \/ CheckOut(t) \/ Ends(t)

PlanSpec == PlanInit /\ [][PlanNext]_planVars
-----------------------------------------------------------------------------
(* PlanAndData.tsx:107-127: the price under review is that of the selection  *)
(* under review, whatever was asked for before it.                           *)
PriceIsOfTheChoice ==
  \A t \in Tabs : page[t].review # "closed" /\ page[t].price # Unpriced => page[t].price = Previewed(page[t])

(* PlanAndData.tsx:237-249: a purchase that is tried again, after an answer  *)
(* was lost or in another tab that shares the storage, is made under the     *)
(* same intent for as long as that is good; and no two purchases share one.  *)
PurchasesAreMadeOnce ==
  \A x, y \in sent :
    /\ stores # "none" /\ x.place = y.place /\ x.of = y.of /\ Usable(x.intent) /\ Usable(y.intent)
         => x.intent = y.intent
    /\ x.intent = y.intent => x.of = y.of
=============================================================================
