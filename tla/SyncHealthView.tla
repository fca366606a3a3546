--------------------------- MODULE SyncHealthView ----------------------------
(* The health of the synchronization (components/SynchronizationHealth.tsx): *)
(* what the Cloud and the local service say of one shop, asked for again at  *)
(* intervals, after a retry of the synchronization, for another shop and in  *)
(* another language.  Only the last request counts, and each has a timeout   *)
(* shorter than the interval.  Whether the source is verified is decided     *)
(* when the page is drawn, and stays on the screen until it is drawn again.  *)
(* Time is counted in ticks, and timers are on time (no tab is suspended).   *)
EXTENDS Integers

CONSTANTS
  HealthShops,  \* of the member
  Interval,     \* between two checks (15 s)
  AnswerTime,   \* of a check (12 s)
  RetryDelay,   \* from the answer to a retry until the check after it (2.5 s)
  FreshFor,     \* age of a complete pass that is good (60 s)
  MaxRestarts,  \* bound: retries, changes of shop or language
  NoHealth      \* no shop, no check, no state

ASSUME HealthAssumption ==
  /\ {Interval, AnswerTime, RetryDelay, FreshFor, MaxRestarts} \subseteq Nat
  /\ AnswerTime < Interval
  /\ NoHealth \notin HealthShops /\ NoHealth \notin [shop : HealthShops, age : Nat]
  /\ NoHealth \notin [shop : HealthShops, told : Nat]

VARIABLES
  watched,   \* the shop selected
  check,     \* the last request: its shop, and for how long it is under way
  seen,      \* what is known: of which shop, and the age of its last complete pass
  checking,  \* "Checking the full synchronization path"
  trouble,   \* what the error shown is about
  green,     \* the page, as last drawn, shows the source as verified
  untilNext, \* ticks before the next check of the interval
  posting,   \* the shop of the retry under way, if there is one
  reloads,   \* checks that retries have scheduled
  restarts,  \* retries and changes of shop or language so far
  listsDue   \* readings of the list of shops under way

checks == <<check, seen, checking, trouble>>
timers == <<untilNext, reloads>>
retrying == <<posting, restarts>>
healthVars == <<watched, checks, green, timers, retrying, listsDue>>

\* How long what is shown as verified may be old: see GreenIsRecent.
Recent == FreshFor + RetryDelay + Interval + AnswerTime

HealthInit ==
  /\ watched = NoHealth /\ check = NoHealth /\ seen = NoHealth
  /\ checking = TRUE /\ trouble = "none" /\ green = FALSE
  /\ untilNext = Interval /\ reloads = {}
  /\ posting = {} /\ restarts = 0
  /\ listsDue = 1

-----------------------------------------------------------------------------
(* Drawing: reliabilityStages() takes the time of now, and anything else it  *)
(* looks at may be wrong.  The page is drawn when what it shows has changed. *)
SourceIsGood == seen # NoHealth /\ seen.shop = watched /\ seen.told <= FreshFor
VerifiedNow == ~checking /\ SourceIsGood

Draw == green' \in {FALSE, VerifiedNow'}

DrawnIfChanged ==
  IF UNCHANGED <<watched, seen, checking, trouble, posting>> THEN UNCHANGED green ELSE Draw

(* The dashboard around it is drawn again.                                   *)
DrawAgain ==
  /\ UNCHANGED <<watched, checks, timers, retrying, listsDue>>
  /\ Draw

-----------------------------------------------------------------------------
(* loadHealth(quiet) for a shop, in place of the one before it; with no shop *)
(* it only puts an end to that.                                              *)
LoadHealth(shop, quiet) ==
  /\ check' = [shop |-> shop, age |-> 0]
  /\ checking' = (checking \/ ~quiet)
  /\ trouble' = "none"
  /\ UNCHANGED seen

LoadNothing == check' = NoHealth /\ UNCHANGED <<checking, trouble, seen>>

(* Another shop, or another language: a new interval begins with a check.    *)
WatchFrom(shop) ==
  /\ watched' = shop
  /\ LoadHealth(shop, FALSE)
  /\ untilNext' = Interval

-----------------------------------------------------------------------------
(* The shops: one that is no longer listed gives way to the first that is.   *)
ListRead == listsDue > 0 /\ listsDue' = listsDue - 1

ShopsKnown ==
  /\ ListRead
  /\ \/ watched # NoHealth /\ UNCHANGED <<watched, checks, untilNext>>
     \/ \E shop \in HealthShops \ {watched} : WatchFrom(shop)
  /\ UNCHANGED <<reloads, retrying>>
  /\ Draw

(* The member has no shop (any more).                                        *)
ShopsGone ==
  /\ ListRead
  /\ watched' = NoHealth /\ check' = NoHealth /\ seen' = NoHealth
  /\ checking' = FALSE /\ UNCHANGED trouble
  /\ untilNext' = Interval
  /\ UNCHANGED <<reloads, retrying>>
  /\ Draw

(* Nothing that is known is cleared, and a check under way goes on.          *)
ShopsUnknown ==
  /\ ListRead
  /\ trouble' = "list" /\ checking' = FALSE
  /\ UNCHANGED <<watched, check, seen, timers, retrying>>
  /\ DrawnIfChanged

Watch(shop) ==
  /\ watched # NoHealth /\ shop # watched /\ restarts < MaxRestarts
  /\ restarts' = restarts + 1
  /\ WatchFrom(shop)
  /\ UNCHANGED <<reloads, posting, listsDue>>
  /\ Draw

ChangeLanguage ==
  /\ restarts < MaxRestarts
  /\ listsDue' = listsDue + 1 /\ restarts' = restarts + 1
  /\ IF watched = NoHealth THEN UNCHANGED <<watched, checks, untilNext>> ELSE WatchFrom(watched)
  /\ UNCHANGED <<reloads, posting>>
  /\ Draw

-----------------------------------------------------------------------------
(* Timers.                                                                   *)

IntervalFires ==
  /\ watched # NoHealth /\ untilNext = 0
  /\ untilNext' = Interval
  /\ LoadHealth(watched, TRUE)
  /\ UNCHANGED <<watched, reloads, retrying, listsDue>>
  /\ DrawnIfChanged

(* The check after a retry is of the shop the retry was for.                 *)
ReloadFires(r) ==
  /\ r \in reloads /\ r.in = 0 /\ reloads' = reloads \ {r}
  /\ IF r.shop = NoHealth THEN LoadNothing ELSE LoadHealth(r.shop, TRUE)
  /\ UNCHANGED <<watched, untilNext, retrying, listsDue>>
  /\ DrawnIfChanged

\* Of no interest once it is more than Recent.
Older(n) == IF n <= Recent THEN n + 1 ELSE n

(* Only time itself lets what is shown grow old.                             *)
TimePasses ==
  /\ check # NoHealth => check.age < AnswerTime
  /\ watched # NoHealth => untilNext > 0
  /\ \A r \in reloads : r.in > 0
  /\ check' = IF check = NoHealth THEN NoHealth ELSE [check EXCEPT !.age = @ + 1]
  /\ seen' = IF seen = NoHealth THEN NoHealth ELSE [seen EXCEPT !.told = Older(@)]
  /\ untilNext' = IF watched = NoHealth THEN untilNext ELSE untilNext - 1
  /\ reloads' = {[r EXCEPT !.in = @ - 1] : r \in reloads}
  /\ UNCHANGED <<watched, checking, trouble, green, retrying, listsDue>>

-----------------------------------------------------------------------------
(* Answers: the local service tells of its source, whatever its age.         *)

HealthArrives ==
  /\ check # NoHealth /\ check' = NoHealth
  /\ \E told \in {0, FreshFor, FreshFor + 1} : seen' = [shop |-> check.shop, told |-> told]
  /\ checking' = FALSE
  /\ UNCHANGED <<watched, trouble, timers, retrying, listsDue>>
  /\ Draw

(* Refused, unreadable, or no answer in time.                                *)
KeptState == seen
NoState == NoHealth

HealthFails ==
  /\ check # NoHealth /\ check' = NoHealth
  /\ seen' = NoState
  /\ trouble' = "check" /\ checking' = FALSE
  /\ UNCHANGED <<watched, timers, retrying, listsDue>>
  /\ DrawnIfChanged

-----------------------------------------------------------------------------
(* "Retry synchronization", of the shop selected or of none.                 *)

RetrySync ==
  /\ posting = {} /\ seen # NoHealth /\ restarts < MaxRestarts
  /\ posting' = {watched} /\ restarts' = restarts + 1
  /\ trouble' = "none"
  /\ UNCHANGED <<watched, check, seen, checking, timers, listsDue>>
  /\ DrawnIfChanged

Scheduled ==
  /\ posting # {} /\ posting' = {}
  /\ reloads' = reloads \union {[shop |-> shop, in |-> RetryDelay] : shop \in posting}
  /\ UNCHANGED <<watched, checks, untilNext, restarts, listsDue>>
  /\ DrawnIfChanged

NotScheduled ==
  /\ posting # {} /\ posting' = {}
  /\ trouble' = "retry"
  /\ UNCHANGED <<watched, check, seen, checking, timers, restarts, listsDue>>
  /\ DrawnIfChanged

HealthNext ==
  \/ ShopsKnown \/ ShopsGone \/ ShopsUnknown \/ ChangeLanguage
  \/ \E shop \in HealthShops : Watch(shop)
  \/ IntervalFires \/ TimePasses \/ \E r \in reloads : ReloadFires(r)
  \/ HealthArrives \/ HealthFails \/ RetrySync \/ Scheduled \/ NotScheduled \/ DrawAgain

HealthSpec == HealthInit /\ [][HealthNext]_healthVars
-----------------------------------------------------------------------------
(* "Never keep an old green state after losing the ability to verify it"     *)
(* (SynchronizationHealth.tsx:113): what the page shows as verified is of    *)
(* the shop selected, its last complete pass is no older than the age that   *)
(* is good, the delay after a retry, an interval and an answer (89.5 s; the  *)
(* guide says two minutes, USER_GUIDE.md:166), however often checks are      *)
(* replaced, and it is never beside the error of a check that failed.  It    *)
(* may be beside that of a list of shops or of a retry that failed, which    *)
(* clear nothing.                                                            *)
GreenIsRecent ==
  green => /\ seen # NoHealth /\ seen.shop = watched /\ seen.told <= Recent
           /\ trouble # "check"
=============================================================================
