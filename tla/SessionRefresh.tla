--------------------------- MODULE SessionRefresh ---------------------------
(***************************************************************************)
(* The OAuth session of one browser: lib/authenticated-cloud-fetch.ts and  *)
(* tokenRequest of lib/cloud-client.ts.                                    *)
(*                                                                         *)
(* The browser keeps the session in a cookie and sends it with every       *)
(* request; requests overlap.  A refresh token may be used once: the Cloud *)
(* answers with the next pair and refuses the token afterwards.  The       *)
(* server lets requests that carry the same token share one refresh, and   *)
(* remembers its result for a while.  Pairs are numbered in the order the  *)
(* Cloud issues them.  The Cloud is external: it answers 401 to an access  *)
(* token that has expired or was replaced, and any call may fail.  Every   *)
(* call ends within Patience; a response is delivered within the instant,  *)
(* in any order.                                                           *)
(***************************************************************************)
EXTENDS Integers

CONSTANTS
  Requests,     \* concurrent requests of the browser
  Reuse,        \* how long a finished refresh is shared (10 s)
  Patience,     \* timeout of a call to the Cloud (60 s, 15 s for tokens)
  Life,         \* lifetime of an access token (expires_in, 900 s)
  Skew,         \* a token is refreshed this long before it expires (30 s)
  MaxPair,      \* bound: pairs the Cloud issues
  MaxTime       \* bound: last instant of the clock

ASSUME SessionAssumption ==
  /\ Reuse \in Nat \ {0} /\ Patience \in Nat \ {0} /\ Skew \in Nat
  /\ Life \in Nat /\ Life >= Skew + Reuse + Patience
  /\ MaxPair \in Nat /\ MaxTime \in Nat

Pairs == 0 .. MaxPair
NoSession == -1
Kept == -2         \* a response without Set-Cookie

VARIABLES
  now,
  cookie,     \* the pair in the browser's cookie, or NoSession
  stage,      \* where each request is in authenticatedCloudFetch
  session,    \* the pair each request holds
  refreshed,  \* whether it holds a pair the cookie it came with did not
  since,      \* when its current call began
  setCookie,  \* what its response does to the cookie
  flight,     \* refreshFlights: "none", "pending" or "done" per token
  until,      \* reuseUntil of finished flights; start of pending ones
  expires,    \* expires_at of each pair
  latest,     \* Cloud: the newest pair
  heard,      \* tokens whose replacement the server has received
  shared      \* tokens whose replacement the server has given to requests

calls == <<stage, session, refreshed, since, setCookie>>
flights == <<flight, until>>
sessionVars == <<now, cookie, calls, flights, expires, latest, heard, shared>>

SessionInit ==
  /\ now = 0 /\ cookie = 0 /\ latest = 0
  /\ stage = [r \in Requests |-> "idle"]
  /\ session = [r \in Requests |-> NoSession]
  /\ refreshed = [r \in Requests |-> FALSE]
  /\ since = [r \in Requests |-> 0]
  /\ setCookie = [r \in Requests |-> Kept]
  /\ flight = [p \in Pairs |-> "none"] /\ until = [p \in Pairs |-> 0]
  /\ expires = [p \in Pairs |-> Life]
  /\ heard = {} /\ shared = {}
-----------------------------------------------------------------------------
\* The response of a request, which ends its handling.
Respond(r, c) ==
  /\ stage' = [stage EXCEPT ![r] = "answered"]
  /\ setCookie' = [setCookie EXCEPT ![r] = c]

\* A finished response replaces the cookie only if the session was refreshed.
CookieOfRequest(r) == session[r]
Replacement(r) == IF refreshed[r] THEN session[r] ELSE Kept

(* refreshSessionOnce(): the flight of a token that can still be joined.   *)
ForgetsPending(p) == flight[p] # "none" /\ until[p] + Reuse > now
Joinable(p) ==
  \/ flight[p] = "pending"
  \/ flight[p] = "done" /\ until[p] > now

(* Request r needs a replacement of the pair p: it takes the one of a      *)
(* recent refresh, waits for the one under way, or starts a refresh.       *)
Refresh(r, p) ==
  /\ since' = [since EXCEPT ![r] = now]
  /\ IF Joinable(p) /\ flight[p] = "done"
     THEN /\ stage' = [stage EXCEPT ![r] = "sending"]
          /\ session' = [session EXCEPT ![r] = p + 1]
          /\ refreshed' = [refreshed EXCEPT ![r] = TRUE]
          /\ UNCHANGED flights
     ELSE /\ stage' = [stage EXCEPT ![r] = "refreshing"]
          /\ session' = [session EXCEPT ![r] = p]
          /\ IF Joinable(p) THEN UNCHANGED flights
             ELSE /\ flight' = [flight EXCEPT ![p] = "pending"]
                  /\ until' = [until EXCEPT ![p] = now]
          /\ UNCHANGED refreshed

(* resolveSession(): a request arrives with the cookie of the browser.     *)
Begin(r) ==
  /\ stage[r] = "idle"
  /\ cookie # NoSession
  /\ IF expires[cookie] <= now + Skew
     THEN Refresh(r, cookie)
     ELSE /\ stage' = [stage EXCEPT ![r] = "sending"]
          /\ session' = [session EXCEPT ![r] = cookie]
          /\ since' = [since EXCEPT ![r] = now]
          /\ UNCHANGED <<refreshed, flights>>
  /\ UNCHANGED <<now, cookie, setCookie, expires, latest, heard, shared>>

(* The Cloud answers, or the call fails: a rotation that succeeded reaches *)
(* the browser either way.                                                 *)
Resource(r) ==
  /\ stage[r] = "sending"
  /\ Respond(r, Replacement(r))
  /\ UNCHANGED <<now, cookie, session, refreshed, since, flights, expires, latest, heard, shared>>

Refused(p) == expires[p] <= now \/ p < latest

(* 401: the first one is followed by a refresh, the second by a logout.    *)
Unauthorized(r) ==
  /\ stage[r] = "sending"
  /\ Refused(session[r])
  /\ IF refreshed[r]
     THEN Respond(r, NoSession) /\ UNCHANGED <<session, refreshed, since, flights>>
     ELSE Refresh(r, session[r]) /\ UNCHANGED setCookie
  /\ UNCHANGED <<now, cookie, expires, latest, heard, shared>>

Waiting(p) == {r \in Requests : stage[r] = "refreshing" /\ session[r] = p}

\* All requests that wait for a refresh hear of it together.
AllRespond(p, c) ==
  /\ stage' = [r \in Requests |-> IF r \in Waiting(p) THEN "answered" ELSE stage[r]]
  /\ setCookie' = [r \in Requests |-> IF r \in Waiting(p) THEN c ELSE setCookie[r]]
  /\ flight' = [flight EXCEPT ![p] = "none"]
  /\ UNCHANGED <<session, refreshed, since, until>>

Rotates(p) ==
  /\ flight[p] = "pending"
  /\ p = latest /\ p < MaxPair
  /\ latest' = p + 1
  /\ expires' = [expires EXCEPT ![p + 1] = now + Life]

(* tokenRequest(): the Cloud issues the next pair, the credentials that    *)
(* come with it are stored, and the waiting requests go on with it.        *)
Rotated(p) ==
  /\ Rotates(p)
  /\ heard' = heard \union {p} /\ shared' = shared \union {p}
  /\ flight' = [flight EXCEPT ![p] = "done"]
  /\ until' = [until EXCEPT ![p] = now + Reuse]
  /\ stage' = [r \in Requests |-> IF r \in Waiting(p) THEN "sending" ELSE stage[r]]
  /\ session' = [r \in Requests |-> IF r \in Waiting(p) THEN p + 1 ELSE session[r]]
  /\ refreshed' = [r \in Requests |-> r \in Waiting(p) \/ refreshed[r]]
  /\ since' = [r \in Requests |-> IF r \in Waiting(p) THEN now ELSE since[r]]
  /\ UNCHANGED <<now, cookie, setCookie>>

(* The pair arrives, but storing a credential that came with it throws.    *)
NotStored(p) ==
  /\ Rotates(p)
  /\ heard' = heard \union {p}
  /\ AllRespond(p, Kept)
  /\ UNCHANGED <<now, cookie, shared>>

(* The Cloud rotates, and its answer is lost.                              *)
Lost(p) ==
  /\ Rotates(p)
  /\ AllRespond(p, Kept)
  /\ UNCHANGED <<now, cookie, heard, shared>>

(* The Cloud refuses a used token: the session is over.                    *)
Invalid(p) ==
  /\ flight[p] = "pending"
  /\ p # latest
  /\ AllRespond(p, NoSession)
  /\ UNCHANGED <<now, cookie, expires, latest, heard, shared>>

(* The call never reaches the Cloud.                                       *)
Unreached(p) ==
  /\ flight[p] = "pending"
  /\ AllRespond(p, Kept)
  /\ UNCHANGED <<now, cookie, expires, latest, heard, shared>>

\* The browser receives a response.
Deliver(r) ==
  /\ stage[r] = "answered"
  /\ cookie' = IF setCookie[r] = Kept THEN cookie ELSE setCookie[r]
  /\ stage' = [stage EXCEPT ![r] = "idle"]
  /\ session' = [session EXCEPT ![r] = NoSession]
  /\ refreshed' = [refreshed EXCEPT ![r] = FALSE]
  /\ since' = [since EXCEPT ![r] = 0]
  /\ setCookie' = [setCookie EXCEPT ![r] = Kept]
  /\ UNCHANGED <<now, flights, expires, latest, heard, shared>>

\* Time passes while every call is within its timeout.
Tick ==
  /\ now < MaxTime
  /\ \A r \in Requests :
       /\ stage[r] # "answered"
       /\ stage[r] # "idle" => now < since[r] + Patience
  /\ \A p \in Pairs : flight[p] = "pending" => now < until[p] + Patience
  /\ now' = now + 1
  /\ UNCHANGED <<cookie, calls, flights, expires, latest, heard, shared>>

SessionNext ==
  \/ \E r \in Requests : Begin(r) \/ Resource(r) \/ Unauthorized(r) \/ Deliver(r)
  \/ \E p \in Pairs : Rotated(p) \/ NotStored(p) \/ Lost(p) \/ Invalid(p) \/ Unreached(p)
  \/ Tick

SessionSpec == SessionInit /\ [][SessionNext]_sessionVars
-----------------------------------------------------------------------------
SessionTypeOK ==
  /\ now \in Nat
  /\ cookie \in 0 .. latest \union {NoSession}
  /\ stage \in [Requests -> {"idle", "refreshing", "sending", "answered"}]
  /\ session \in [Requests -> Pairs \union {NoSession}]
  /\ refreshed \in [Requests -> BOOLEAN]
  /\ since \in [Requests -> Nat]
  /\ setCookie \in [Requests -> 0 .. latest \union {NoSession, Kept}]
  /\ flight \in [Pairs -> {"none", "pending", "done"}]
  /\ until \in [Pairs -> Nat] /\ expires \in [Pairs -> Nat]
  /\ latest \in Pairs
  /\ heard \subseteq Pairs /\ shared \subseteq heard

\* A refresh that sends the token of pair p to the Cloud begins.
Sent(p) ==
  flight'[p] = "pending" /\ (flight[p] # "pending" \/ until'[p] # until[p])

(* "An in-flight refresh has no expiry: a slow Cloud response must not     *)
(* allow a second use of the single-use refresh token"                     *)
(* (authenticated-cloud-fetch.ts:45-48): nor does a recent one.            *)
ReuseWindow ==
  [][\A p \in Pairs : Sent(p) =>
       flight[p] # "pending" /\ (p \in shared => now >= until[p])]_sessionVars

(* Responses that overtake each other never put an older pair back into    *)
(* the browser, as long as an access token is not due for a refresh before *)
(* its sharing is over and a call made with it has ended                   *)
(* (SessionAssumption).                                                    *)
CookieNeverGoesBack ==
  [][cookie' # NoSession => cookie' >= cookie]_sessionVars

(* Both: no pair is spent twice, no pair in the browser gives way to an     *)
(* older one.                                                              *)
SessionGoesForward == ReuseWindow /\ CookieNeverGoesBack

(* "Concurrent requests carrying the same pre-rotation cookie all receive  *)
(* the same replacement token pair" (authenticated-cloud-fetch.ts:45-46):  *)
(* a token whose replacement was given out is not used again.              *)
SharedReplacement == [][\A p \in Pairs : Sent(p) => p \notin shared]_sessionVars

(* "Persist the replacement [...] otherwise the browser would retain a     *)
(* used token" (authenticated-cloud-fetch.ts:150-151): when all responses  *)
(* have arrived, its cookie is not a token the server saw replaced.        *)
BrowserHasReplacement ==
  (\A r \in Requests : stage[r] = "idle") => cookie \notin heard
=============================================================================
