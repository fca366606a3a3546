--------------------------- MODULE EntitlementView ---------------------------
(* What the dashboard shows of the account (components/Dashboard.tsx): the   *)
(* entitlements of the Cloud, loaded when the page opens, refreshed silently *)
(* while connected and loaded again after an error.  Requests overlap and    *)
(* only the answer to the last one counts (capabilitiesRequest); the Cloud   *)
(* may ask to wait (429), and a logout is a request of its own.  The user,   *)
(* the plan and the Cloud's answers are external.                            *)
EXTENDS Naturals

CONSTANTS
  Nothing,     \* no entitlements, no request
  MaxPlan,     \* bound: changes of the plan
  MaxLogouts   \* bound: logouts

ASSUME EntitlementAssumption == MaxPlan \in Nat /\ MaxLogouts \in Nat

VARIABLES
  status,      \* "loading", "connected", "disconnected" or "error"
  caps,        \* the entitlements shown: the plan, and the logouts before it
  asked,       \* the last request for them
  outdated,    \* an earlier one, which may still be answered
  backoff,     \* before capabilitiesRetryAt
  timer,       \* the retry of an error, see RetryIn
  visible,     \* the page is
  confirming,  \* the confirmation of a checkout is under way
  billing,     \* an action of the plan page is
  leaving,     \* logouts under way
  account      \* Cloud: the plan, logouts so far, whether the session is valid

asking == <<status, timer, asked, outdated>>
pageActions == <<confirming, billing, leaving>>
viewVars == <<asking, caps, backoff, visible, pageActions, account>>

(* A request reaches the Cloud with the session, and brings the plan in      *)
(* force at some moment after it was sent.                                   *)
Request(silent) ==
  [silent |-> silent, from |-> account.plan, logouts |-> account.logouts, session |-> account.session]

(* Entering "error" sets the timer; leaving it clears the timer.             *)
RetryIn(s) == IF s # "error" THEN "off" ELSE IF status = "error" THEN timer ELSE "set"
Shows(s) == status' = s /\ timer' = RetryIn(s)

(* load(silent).                                                             *)
Load(silent) ==
  IF backoff THEN UNCHANGED asking
  ELSE /\ asked' = Request(silent)
       /\ outdated' = IF asked = Nothing THEN outdated ELSE asked
       /\ Shows(IF silent THEN status ELSE "loading")

(* The page opens, perhaps on the way back from a checkout.                  *)
ViewInit ==
  /\ account = [plan |-> 0, logouts |-> 0, session |-> TRUE]
  /\ status = "loading" /\ caps = Nothing /\ timer = "off"
  /\ asked = Request(FALSE) /\ outdated = Nothing
  /\ backoff = FALSE /\ visible = TRUE /\ leaving = 0
  /\ confirming \in BOOLEAN /\ billing = FALSE

-----------------------------------------------------------------------------
(* Answers: of requests that were superseded, one is followed.               *)

CountsAnyway(f) == TRUE
Counts(f) == f = asked

AnswerEnds(f) ==
  IF f = asked THEN asked' = Nothing /\ UNCHANGED outdated
  ELSE outdated' = Nothing /\ UNCHANGED asked

Entitled(f) ==
  /\ f.session
  /\ \E plan \in f.from .. account.plan : caps' = [plan |-> plan, logouts |-> f.logouts]
  /\ backoff' = FALSE
  /\ Shows("connected")

Unauthenticated ==
  /\ caps' = Nothing /\ backoff' = FALSE
  /\ Shows("disconnected")

(* A silent failure only delays.  A 429 to a silent request during an error  *)
(* moves the instant its timer was set for.                                  *)
Fails(f, wait) ==
  /\ backoff' = wait
  /\ IF ~f.silent THEN Shows("error")
     ELSE /\ UNCHANGED status
          /\ timer' = IF ~wait \/ status # "error" THEN timer
                      ELSE IF timer = "set" THEN "cut" ELSE "lost"
  /\ UNCHANGED caps

Answered ==
  \E f \in {asked, outdated} \ {Nothing} :
    /\ AnswerEnds(f)
    /\ IF Counts(f)
       THEN Entitled(f) \/ Unauthenticated \/ \E wait \in BOOLEAN : Fails(f, wait)
       ELSE UNCHANGED <<status, timer, caps, backoff>>
    /\ UNCHANGED <<visible, pageActions, account>>

-----------------------------------------------------------------------------
(* Requests.                                                                 *)

(* The loop while connected; "Refresh entitlements" of the plan page.        *)
RefreshPlan ==
  /\ caps # Nothing /\ status \in {"connected", "loading"}
  /\ Load(TRUE)
  /\ UNCHANGED <<caps, backoff, visible, pageActions, account>>

(* An action of the plan page, which ends even when the page has gone, and   *)
(* may refresh then (already_paid_active).                                   *)
Bill ==
  /\ caps # Nothing /\ status \in {"connected", "loading"}
  /\ billing' = TRUE
  /\ UNCHANGED <<asking, caps, backoff, visible, confirming, leaving, account>>

Billed ==
  /\ billing /\ billing' = FALSE
  /\ Load(TRUE) \/ UNCHANGED asking
  /\ UNCHANGED <<caps, backoff, visible, confirming, leaving, account>>

(* confirmCheckout(), up to six attempts.                                    *)
CheckoutConfirmed ==
  /\ confirming /\ confirming' = FALSE
  /\ Load(FALSE) \/ UNCHANGED asking
  /\ UNCHANGED <<caps, backoff, visible, billing, leaving, account>>

(* "Try again", or the network is back.                                      *)
Retry ==
  /\ status = "error" /\ visible
  /\ Load(FALSE)
  /\ UNCHANGED <<caps, backoff, visible, pageActions, account>>

(* The timer is for the end of the wait known when the error was entered.    *)
DueAtOnce == TRUE
Due == ~backoff

TimerFires ==
  /\ timer = "cut" \/ (timer = "set" /\ Due)
  /\ IF visible /\ ~backoff THEN Load(FALSE)
     ELSE /\ timer' = IF timer = "cut" THEN "lost" ELSE "off"
          /\ UNCHANGED <<status, asked, outdated>>
  /\ UNCHANGED <<caps, backoff, visible, pageActions, account>>

Hidden ==
  /\ visible /\ visible' = FALSE
  /\ UNCHANGED <<asking, caps, backoff, pageActions, account>>

Shown ==
  /\ ~visible /\ visible' = TRUE
  /\ IF status = "error" THEN Load(FALSE)
     ELSE IF status = "connected" THEN Load(TRUE) ELSE UNCHANGED asking
  /\ UNCHANGED <<caps, backoff, pageActions, account>>

BackoffEnds ==
  /\ backoff /\ backoff' = FALSE
  /\ UNCHANGED <<asking, caps, visible, pageActions, account>>

-----------------------------------------------------------------------------
(* logout(), and pages opened again, by the user or by a login.              *)

Logout ==
  /\ status = "connected" /\ account.logouts < MaxLogouts
  /\ account' = [account EXCEPT !.logouts = @ + 1]
  /\ leaving' = leaving + 1
  /\ asked' = Nothing
  /\ outdated' = IF asked = Nothing THEN outdated ELSE asked
  /\ UNCHANGED <<status, timer, caps, backoff, visible, confirming, billing>>

LoggedOut ==
  /\ leaving > 0 /\ leaving' = leaving - 1
  /\ \E session \in {FALSE, account.session} : account' = [account EXCEPT !.session = session]
  /\ caps' = Nothing
  /\ Shows("disconnected")
  /\ UNCHANGED <<asked, outdated, backoff, visible, confirming, billing>>

Open ==
  /\ \E session \in {account.session, TRUE} : account' = [account EXCEPT !.session = session]
  /\ status' = "loading" /\ caps' = Nothing /\ timer' = "off"
  /\ asked' = [Request(FALSE) EXCEPT !.session = account'.session] /\ outdated' = Nothing
  /\ backoff' = FALSE /\ visible' = TRUE /\ leaving' = 0
  /\ confirming' \in BOOLEAN /\ billing' = FALSE

PlanChanges ==
  /\ account.plan < MaxPlan
  /\ account' = [account EXCEPT !.plan = @ + 1]
  /\ UNCHANGED <<asking, caps, backoff, visible, pageActions>>

ViewNext ==
  \/ Answered \/ RefreshPlan \/ Bill \/ Billed \/ CheckoutConfirmed \/ Retry
  \/ TimerFires \/ Hidden \/ Shown \/ BackoffEnds
  \/ Logout \/ LoggedOut \/ Open \/ PlanChanges

(* Timers fire, and a page that is hidden is looked at again.                *)
ViewFairness == WF_viewVars(TimerFires) /\ WF_viewVars(BackoffEnds) /\ WF_viewVars(Shown)

ViewSpec == ViewInit /\ [][ViewNext]_viewVars /\ ViewFairness
-----------------------------------------------------------------------------
(* Dashboard.tsx:270-302: whatever order answers arrive in, entitlements     *)
(* replace older ones only, and never those of before a logout.              *)
ShownIsNewest ==
  [][caps' # caps /\ caps' # Nothing =>
       /\ caps'.logouts = account'.logouts
       /\ caps # Nothing => caps'.plan >= caps.plan]_viewVars

(* "Your settings are preserved. Community will retry automatically."        *)
(* (Dashboard.tsx:617): an error does not stay, unless the Cloud asks an     *)
(* action of the plan page to wait meanwhile.                                *)
ErrorsAreRetried ==
  status = "error" ~> status # "error" \/ timer \in {"cut", "lost"}
=============================================================================
