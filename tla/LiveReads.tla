----------------------------- MODULE LiveReads ------------------------------
(* Commands of the Cloud that the shop itself answers, across an await:      *)
(* prices, order history or carts of one account                             *)
(* (scripts/customer-price-reader.mjs, customer-history-reader.mjs,          *)
(* customer-carts-reader.mjs), and the validators of each platform.  What    *)
(* arrives may be anything the shop has ever signed.  The installation is    *)
(* left out: once bound it never changes.                                    *)
EXTENDS Naturals, Sequences

CONSTANTS
  Secrets,   \* secrets shared with the connector, rotated by setup
  Accounts,  \* the accounts a request may name
  NoCall,    \* no call, nothing served
  MaxAge,    \* a fact read longer ago is refused (15 s)
  Wait,      \* a call is given up after this long (6 s)
  MaxNonce   \* bound: reads that are begun

ASSUME LiveAssumption ==
  /\ MaxAge \in Nat /\ Wait \in Nat /\ MaxNonce \in Nat
  /\ NoCall \notin [operation : {"prices", "history", "carts"}, account : Accounts,
                  to : [platform : {"magento", "woo", "presta"}, secret : Secrets], nonce : Nat, age : Nat]

VARIABLES
  connector,  \* source_binding: the platform of its endpoint, and its secret
  fresh,      \* requireSourceFresh
  signed,     \* the secret each nonce was sent with
  call,       \* the read under way
  served      \* what the last step handed to the Cloud, as it was at that moment

liveVars == <<connector, fresh, signed, call, served>>

Platforms == {"magento", "woo", "presta"}
Connectors == [platform : Platforms, secret : Secrets]

LiveInit ==
  /\ connector \in Connectors
  /\ fresh = FALSE
  /\ signed = <<>>
  /\ call = NoCall /\ served = NoCall

(* configure closes the reads until a pass completes with the new connector. *)
Configure(c) ==
  /\ connector' = c /\ fresh' = FALSE
  /\ served' = NoCall /\ UNCHANGED <<signed, call>>

(* A pass completes; or reads are paused, or the last pass is too long ago.  *)
PassOrPause ==
  /\ fresh' = ~fresh
  /\ served' = NoCall /\ UNCHANGED <<connector, signed, call>>

(* The relay runs one command at a time; one for another platform than that  *)
(* of the endpoint's path is refused.                                        *)
BeginRead(operation, platform, account) ==
  /\ call = NoCall /\ fresh /\ Len(signed) < MaxNonce
  /\ platform = connector.platform
  /\ signed' = Append(signed, connector.secret)
  /\ call' = [operation |-> operation, account |-> account, to |-> connector,
              nonce |-> Len(signed'), age |-> 0]
  /\ served' = NoCall /\ UNCHANGED <<connector, fresh>>

(* What is to be said of facts: that a part is missing, or one is repeated   *)
(* or about nothing else that is there; that an order is dated ahead of now; *)
(* that a price is rounded by half a unit or by a whole one; or that only    *)
(* some orders say their discount.                                           *)
Flaws == {"none", "partial", "incoherent", "ahead", "half", "unit", "discounts"}

(* Any answer the shop may have signed for a request.  It may speak of       *)
(* another account, when one was renumbered.                                 *)
Answers ==
  {a \in [account : Accounts, secret : Secrets, nonce : DOMAIN signed, age : 0..(MaxAge + 1), flaw : Flaws] :
     a.secret = signed[a.nonce]}

(* The signature and the hash of the request.                                *)
Signed(a) == a.secret = call.to.secret /\ a.nonce = call.nonce

(* The facts are of this account and recent.                                 *)
About(a) == a.account = call.account /\ a.age <= MaxAge

(* The validators: WooCommerce and PrestaShop round what they display, and   *)
(* the orders of PrestaShop carry the local time of the shop.                *)
PricesFit(a) == About(a) /\ a.flaw = "none"
WooPricesFit(a) == About(a) /\ a.flaw \in {"none", "half"}
PrestaPricesFit(a) == About(a) /\ a.flaw \in {"none", "half", "unit"}

WithDiscounts(a) == a.flaw # "discounts"
HistoryFits(a) == WithDiscounts(a) /\ About(a) /\ a.flaw = "none"
WooHistoryFits(a) == WithDiscounts(a) /\ About(a) /\ a.flaw = "none"
PrestaHistoryFits(a) == WithDiscounts(a) /\ About(a) /\ a.flaw \in {"none", "ahead"}

CartsFit(a) == About(a) /\ a.flaw = "none" /\ call.age <= Wait

Fits(a) ==
  [prices |-> [magento |-> PricesFit(a), woo |-> WooPricesFit(a), presta |-> PrestaPricesFit(a)],
   history |-> [magento |-> HistoryFits(a), woo |-> WooHistoryFits(a), presta |-> PrestaHistoryFits(a)],
   carts |-> [p \in Platforms |-> CartsFit(a)]][call.operation][call.to.platform]

StillFresh == fresh
StillCurrent == fresh /\ connector = call.to

Serve(a) ==
  /\ call # NoCall /\ Signed(a) /\ Fits(a) /\ StillCurrent
  /\ served' = [answer |-> a, call |-> call, connector |-> connector, fresh |-> fresh]
  /\ call' = NoCall
  /\ UNCHANGED <<connector, fresh, signed>>

(* No answer in time, or one that is refused.                                *)
Unavailable ==
  /\ call # NoCall /\ call' = NoCall
  /\ served' = NoCall /\ UNCHANGED <<connector, fresh, signed>>

Passing ==
  /\ call # NoCall /\ call.age < Wait
  /\ call' = [call EXCEPT !.age = @ + 1]
  /\ served' = NoCall /\ UNCHANGED <<connector, fresh, signed>>

LiveNext ==
  \/ \E c \in Connectors : Configure(c)
  \/ PassOrPause \/ Unavailable \/ Passing
  \/ \E operation \in {"prices", "history", "carts"}, platform \in Platforms, account \in Accounts :
       BeginRead(operation, platform, account)
  \/ \E a \in Answers : Serve(a)

LiveSpec == LiveInit /\ [][LiveNext]_liveVars
-----------------------------------------------------------------------------
(* customer-price-reader.mjs:59-89 and its two siblings: what is served is   *)
(* the answer to this request and no other, about its account, signed with   *)
(* the secret still in force of the connector still configured, with facts   *)
(* read recently, whole and coherent, while reads are open, whatever was     *)
(* configured, paused or repeated during the await.                          *)
ServedIsCurrent ==
  served # NoCall =>
    /\ served.answer.nonce = served.call.nonce
    /\ served.answer.account = served.call.account
    /\ served.answer.flaw \notin {"partial", "incoherent", "discounts"}
    /\ served.answer.age <= MaxAge
    /\ served.answer.secret = served.connector.secret /\ served.connector = served.call.to
    /\ served.fresh
=============================================================================
