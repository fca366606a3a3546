------------------------------ MODULE LoginFlow ------------------------------
(* Login and logout (api/auth): a login begins in a tab with a state and a   *)
(* verifier, kept in two cookies of the browser, leads through the Cloud and *)
(* ends in a callback that has them compared and the code exchanged.  Tabs   *)
(* share the cookies; responses, each of which sets or deletes them, arrive  *)
(* in any order, and a callback may be opened again.  Logins are numbered:   *)
(* the number stands for the state, the verifier and what the Cloud grants.  *)
EXTENDS Naturals

CONSTANTS
  MaxLogins,    \* bound: logins begun
  MaxReturns,   \* bound: callbacks and logouts sent
  NoCookie,     \* it is not there
  Same          \* a response leaves the session alone

ASSUME LoginAssumption == MaxLogins \in Nat /\ MaxReturns \in Nat

Logins == 1 .. MaxLogins

VARIABLES
  begun,      \* logins so far
  starting,   \* logins whose first response is under way
  atCloud,    \* logins the Cloud asks the user about
  approved,   \* logins it has issued a code for
  used,       \* codes exchanged
  live,       \* sessions the Cloud has granted and not revoked
  cookies,    \* of the browser: state, verifier, session
  exchanging, \* requests for a session: the code and the verifier sent
  departing,    \* logouts under way: the session that came with each
  replies,    \* responses under way: what they do to the cookies
  returns     \* callbacks and logouts so far

cloudLogins == <<atCloud, approved, used, live>>
loginVars == <<begun, starting, cloudLogins, cookies, exchanging, departing, replies, returns>>

LoginInit ==
  /\ begun = 0 /\ starting = {} /\ atCloud = {} /\ approved = {} /\ used = {} /\ live = {}
  /\ cookies = [state |-> NoCookie, verifier |-> NoCookie, session |-> NoCookie]
  /\ exchanging = {} /\ departing = {} /\ replies = {} /\ returns = 0

-----------------------------------------------------------------------------
(* auth/start.                                                               *)

Start ==
  /\ begun < MaxLogins /\ begun' = begun + 1
  /\ starting' = starting \union {begun'}
  /\ UNCHANGED <<cloudLogins, cookies, exchanging, replies, returns, departing>>

StartAnswered(n) ==
  /\ n \in starting /\ starting' = starting \ {n}
  /\ cookies' = [cookies EXCEPT !.state = n, !.verifier = n]
  /\ atCloud' = atCloud \union {n}
  /\ UNCHANGED <<begun, approved, used, live, exchanging, replies, returns, departing>>

(* The two cookies last ten minutes.                                         *)
CookiesExpire ==
  /\ cookies.state # NoCookie
  /\ cookies' = [cookies EXCEPT !.state = NoCookie, !.verifier = NoCookie]
  /\ UNCHANGED <<begun, starting, cloudLogins, exchanging, replies, returns, departing>>

(* The user agrees: the Cloud issues a code, for the challenge of the login. *)
Approve(n) ==
  /\ n \in atCloud /\ atCloud' = atCloud \ {n}
  /\ approved' = approved \union {n}
  /\ UNCHANGED <<begun, starting, used, live, cookies, exchanging, replies, returns, departing>>

-----------------------------------------------------------------------------
(* auth/callback.                                                            *)

AnyState(n) == cookies.state # NoCookie
IsStateOf(n) == cookies.state = n

(* Every response of a callback deletes the two cookies; a session may come  *)
(* with it, or the one there is be kept.                                     *)
Finish(session) == [transient |-> TRUE, session |-> session]

(* The tab comes back with the code and the state of its login, or somebody  *)
(* opens that address again.                                                 *)
Callback(n) ==
  /\ n \in approved /\ returns < MaxReturns
  /\ returns' = returns + 1
  /\ IF IsStateOf(n) /\ cookies.verifier # NoCookie
     THEN exchanging' = exchanging \union {[code |-> n, verifier |-> cookies.verifier]} /\ UNCHANGED replies
     ELSE replies' = replies \union {Finish(Same)} /\ UNCHANGED exchanging
  /\ UNCHANGED <<begun, starting, cloudLogins, cookies, departing>>

(* The user does not agree: a callback without a code.                       *)
Declined(n) ==
  /\ n \in atCloud /\ atCloud' = atCloud \ {n}
  /\ replies' = replies \union {Finish(Same)}
  /\ UNCHANGED <<begun, starting, approved, used, live, cookies, exchanging, returns, departing>>

(* The Cloud takes each code once, and only with its verifier.               *)
Exchanged(x) ==
  /\ x \in exchanging /\ exchanging' = exchanging \ {x}
  /\ x.code \notin used /\ x.verifier = x.code
  /\ used' = used \union {x.code} /\ live' = live \union {x.code}
  /\ replies' = replies \union {Finish(x.code)}
  /\ UNCHANGED <<begun, starting, atCloud, approved, cookies, returns, departing>>

(* It does not, or its answer is lost, or cannot be stored.                  *)
NotExchanged(x) ==
  /\ x \in exchanging /\ exchanging' = exchanging \ {x}
  /\ \/ UNCHANGED <<used, live>>
     \/ used' = used \union {x.code} /\ live' = live \union ({x.code} \ used)
  /\ replies' = replies \union {Finish(Same)}
  /\ UNCHANGED <<begun, starting, atCloud, approved, cookies, returns, departing>>

-----------------------------------------------------------------------------
(* auth/logout: the session that came with the request is revoked, if the    *)
(* Cloud can be reached; the one the browser then holds is forgotten.        *)

Leave ==
  /\ returns < MaxReturns /\ returns' = returns + 1
  /\ departing' = departing \union {cookies.session}
  /\ UNCHANGED <<begun, starting, cloudLogins, cookies, exchanging, replies>>

LeaveAnswered(s) ==
  /\ s \in departing /\ departing' = departing \ {s}
  /\ live' \in {live, live \ {s}}
  /\ replies' = replies \union {[transient |-> FALSE, session |-> NoCookie]}
  /\ UNCHANGED <<begun, starting, atCloud, approved, used, cookies, exchanging, returns>>

-----------------------------------------------------------------------------
Delivered(r) ==
  /\ r \in replies /\ replies' = replies \ {r}
  /\ LET transient(cookie) == IF r.transient THEN NoCookie ELSE cookie
     IN cookies' = [state |-> transient(cookies.state), verifier |-> transient(cookies.verifier),
                    session |-> IF r.session = Same THEN cookies.session ELSE r.session]
  /\ UNCHANGED <<begun, starting, cloudLogins, exchanging, departing, returns>>

LoginNext ==
  \/ Start \/ CookiesExpire \/ Leave
  \/ \E n \in Logins : StartAnswered(n) \/ Approve(n) \/ Declined(n) \/ Callback(n)
  \/ \E x \in exchanging : Exchanged(x) \/ NotExchanged(x)
  \/ \E s \in departing : LeaveAnswered(s)
  \/ \E r \in replies : Delivered(r)

LoginSpec == LoginInit /\ [][LoginNext]_loginVars
-----------------------------------------------------------------------------
(* callback/route.ts:33-38: whatever the tabs that share the cookies did     *)
(* meanwhile, a code is exchanged only with the verifier of its own login,   *)
(* and the session the browser gets is of a login whose state it held.       *)
CodeMeetsItsVerifier == \A x \in exchanging : x.verifier = x.code
=============================================================================
