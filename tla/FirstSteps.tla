------------------------------ MODULE FirstSteps ------------------------------
(* What the dashboard does for a member who has just connected: it has the   *)
(* vault of the only shop with a key set up (Dashboard.tsx), and lists the   *)
(* steps that are left (SetupChecklist.tsx).                                 *)
EXTENDS Naturals

CONSTANTS
  FirstShops,   \* that may be the member's first
  MaxConnects,  \* bound: times the dashboard becomes connected
  NoShop

ASSUME FirstAssumption == MaxConnects \in Nat

VARIABLES
  linked,    \* the status of the dashboard is "connected"
  connects,  \* times it has become so
  waiters,   \* the effects, by their number, that wait for the shared setup
  setupAt,   \* the shared setup: none, or the answer it waits for
  retries,   \* effects with a timer to try again
  settled,   \* effects that have returned

  first,     \* the shop of the list
  verified, healthy, reviewed,  \* its steps
  stored,    \* the shops this browser remembers as reviewed
  checkAt,   \* the check under way: none, or the answer it waits for
  featured,  \* the plan includes the state of synchronization
  alarmed     \* the alert

bootVars == <<linked, connects, waiters, setupAt, retries, settled>>
stepVars == <<first, verified, healthy, reviewed, stored, checkAt, featured, alarmed>>
firstVars == <<bootVars, stepVars>>

FirstInit ==
  /\ linked = FALSE /\ connects = 0 /\ waiters = {} /\ setupAt = "none" /\ retries = {} /\ settled = {}
  /\ first = NoShop /\ verified = FALSE /\ healthy = FALSE /\ reviewed = FALSE
  /\ stored \in SUBSET FirstShops /\ checkAt = "shops" /\ featured \in BOOLEAN /\ alarmed = FALSE

-----------------------------------------------------------------------------
(* ensureEncryptedLocalSynchronization(): one setup for all who ask.         *)

Asks == IF setupAt = "none" THEN "status" ELSE setupAt

Connected ==
  /\ ~linked /\ connects < MaxConnects
  /\ linked' = TRUE /\ connects' = connects + 1
  /\ waiters' = waiters \union {connects + 1} /\ setupAt' = Asks
  /\ UNCHANGED <<retries, settled>>

Disconnected ==
  /\ linked /\ linked' = FALSE
  /\ retries' = {}
  /\ UNCHANGED <<connects, waiters, setupAt, settled>>

RetryFires(e) ==
  /\ e \in retries /\ retries' = retries \ {e}
  /\ waiters' = waiters \union {e} /\ setupAt' = Asks
  /\ UNCHANGED <<linked, connects, settled>>

(* The status of the vault, the shops and the setup, one after another.  No  *)
(* vault here, one already, or not one shop: it returns.                     *)
SetupGoesOn ==
  /\ \/ setupAt = "status" /\ setupAt' = "shops"
     \/ setupAt = "shops" /\ setupAt' = "setup"
  /\ UNCHANGED <<linked, connects, waiters, retries, settled>>

SetupReturns ==
  /\ setupAt # "none" /\ setupAt' = "none"
  /\ settled' = settled \union waiters /\ waiters' = {}
  /\ UNCHANGED <<linked, connects, retries>>

(* The effect of the connection that is still on sets a timer, those of      *)
(* earlier ones do not.                                                      *)
FirstOnly(e) == linked /\ e = connects /\ e = CHOOSE f \in waiters : \A g \in waiters : f <= g
Lasting(e) == linked /\ e = connects

SetupThrows ==
  /\ setupAt # "none" /\ setupAt' = "none"
  /\ retries' = retries \union {e \in waiters : Lasting(e)} /\ waiters' = {}
  /\ UNCHANGED <<linked, connects, settled>>

BootNext ==
  \/ Connected \/ Disconnected
  \/ \E e \in retries : RetryFires(e)
  \/ SetupGoesOn \/ SetupReturns \/ SetupThrows

-----------------------------------------------------------------------------
(* The check of the steps: the shops first, then the states of the           *)
(* synchronization of the first of them, in the Cloud and here.              *)

KeptSteps == UNCHANGED <<verified, healthy>>
NoSteps == verified' = FALSE /\ healthy' = FALSE

Begins ==
  /\ checkAt' = "shops" /\ alarmed' = FALSE
  /\ NoSteps /\ reviewed' = FALSE /\ first' = NoShop
  /\ UNCHANGED stored

CheckAgain == checkAt = "none" /\ Begins /\ UNCHANGED featured

(* The check under way is aborted, and shows nothing.                        *)
FeatureChanges == featured' = ~featured /\ Begins

ShopsRead ==
  /\ checkAt = "shops"
  /\ \E shop \in FirstShops \union {NoShop} :
       /\ first' = shop
       /\ reviewed' = (shop \in stored)
       /\ checkAt' = IF shop # NoShop /\ featured THEN "health" ELSE "none"
  /\ UNCHANGED <<verified, healthy, stored, featured, alarmed>>

HealthRead ==
  /\ checkAt = "health" /\ checkAt' = "none"
  /\ verified' \in BOOLEAN
  /\ healthy' \in {FALSE, verified'}
  /\ UNCHANGED <<first, reviewed, stored, featured, alarmed>>

CheckFails ==
  /\ checkAt # "none" /\ checkAt' = "none" /\ alarmed' = TRUE
  /\ UNCHANGED <<first, verified, healthy, reviewed, stored, featured>>

Review ==
  /\ first # NoShop
  /\ reviewed' = ~reviewed
  /\ stored' = IF reviewed THEN stored \ {first} ELSE stored \union {first}
  /\ UNCHANGED <<first, verified, healthy, checkAt, featured, alarmed>>

StepsNext ==
  \/ CheckAgain \/ FeatureChanges
  \/ ShopsRead \/ HealthRead \/ CheckFails
  \/ Review

FirstNext ==
  \/ BootNext /\ UNCHANGED stepVars
  \/ StepsNext /\ UNCHANGED bootVars

FirstSpec == FirstInit /\ [][FirstNext]_firstVars
-----------------------------------------------------------------------------
(* Dashboard.tsx:443-446: while the dashboard is connected, a setup that has *)
(* thrown has a timer to try again, also when an effect of an earlier        *)
(* connection had begun it and this one only joined it.  One that returned   *)
(* counts as settled, for whatever reason it did, also when it had found     *)
(* nothing it could set up yet: that one is not tried again.                 *)
SetupIsRetried == linked => connects \in waiters \union retries \union settled

(* "No completed step has been assumed" (SetupChecklist.tsx:82): next to     *)
(* that alert neither the source nor the synchronization is shown as         *)
(* verified, and the emails as reviewed only if this browser remembers it of *)
(* the shop shown.  The steps of account and shop are no part of it (lines   *)
(* 65-66): the one is always done, the other as soon as a shop was read.     *)
NoStepIsAssumed ==
  alarmed => ~verified /\ ~healthy /\ (reviewed => first \in stored)

(* Both (Dashboard.tsx:446, SetupChecklist.tsx:82).                          *)
StepsAreReal == SetupIsRetried /\ NoStepIsAssumed
=============================================================================
