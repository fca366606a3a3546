----------------------------- MODULE UpdatePage -----------------------------
(* The update area of the dashboard (components/LocalUpdate.tsx) over the    *)
(* launcher: a click posts a request, and polls read how it goes.  A poll is *)
(* a GET of app/api/local-update/route.ts, which asks the Cloud and then     *)
(* reads the launcher's files one after the other; the post asks the Cloud   *)
(* twice before it makes the queue's lock.  Polls of an earlier state of the *)
(* page are ignored and left out.  Bounds: one poll and one post at a time.  *)
EXTENDS UpdateLauncher

CONSTANT MaxVersion  \* bound: releases the Cloud advertises

Version == 0 .. MaxVersion   \* 0: the installed one, and none in a file

VARIABLES
  latest,    \* Cloud: the release it advertises
  target,    \* the version each request asks for
  written,   \* the version in status.json
  marker,    \* target.json
  pending,   \* the page waits for an update
  phase,     \* what it shows
  poll,      \* its GET under way: where it is and what it has read
  post,      \* its POST: "none", "asking" or "reserved", or its answer
  fresh      \* status.json was written since the last click

pageFiles == <<target, written, marker>>
pageVars == <<launcherVars, latest, pageFiles, pending, phase, poll, post, fresh>>

Terminal == {"complete", "rolled_back", "failed", "interrupted"}
Running == child # NoBuild
VersionOf(b) == IF b = Root THEN 0 ELSE target[b]

NoPoll == [at |-> "none", latest |-> 0, phase |-> "idle", version |-> 0]
NewPoll == [NoPoll EXCEPT !.at = IF Running THEN "asking" ELSE "none"]

PageInit ==
  /\ LauncherInit
  /\ latest = 0 /\ target = [b \in Build |-> 0] /\ written = 0 /\ marker = 0
  /\ pending = FALSE /\ phase = "idle" /\ poll = NoPoll /\ post = "none" /\ fresh = TRUE

-----------------------------------------------------------------------------
(* The launcher goes on; calls to a server that has gone fail, which tells   *)
(* the page nothing.                                                         *)
StatusWritten ==
  \/ NoteInterrupted /\ written' = target[issued]
  \/ Take /\ written' = target[request]
  \/ Report /\ written' = target[candidate]
  \/ (NoteRolledBack \/ ReadError) /\ written' = 0

Written == StatusWritten /\ fresh' = TRUE

LauncherGoesOn ==
  /\ \/ Written
     \/ (Launcher \/ Serve \/ ChildExits \/ Signal \/ Die \/ Spoil) /\ status' = status /\ UNCHANGED <<written, fresh>>
  /\ poll' = IF child' = child THEN poll ELSE NoPoll
  /\ post' = IF child' = child THEN post ELSE "none"
  /\ UNCHANGED <<latest, target, marker, pending, phase>>

Advertise ==
  /\ latest < MaxVersion /\ latest' = latest + 1
  /\ UNCHANGED <<launcherVars, pageFiles, pending, phase, poll, post, fresh>>

-----------------------------------------------------------------------------
(* GET.                                                                      *)

PollBegins ==
  /\ Running /\ poll = NoPoll /\ poll' = NewPoll
  /\ UNCHANGED <<launcherVars, latest, pageFiles, pending, phase, post, fresh>>

PollGoes(from, to) ==
  /\ poll.at = from /\ poll' = to
  /\ UNCHANGED <<launcherVars, latest, pageFiles, pending, phase, post, fresh>>

PollAsks == PollGoes("asking", [poll EXCEPT !.at = "status", !.latest = latest])

ReadStatus ==
  PollGoes("status", [poll EXCEPT !.at = "target",
    !.phase = IF status = "none" THEN "idle" ELSE status, !.version = written])

ReadTarget ==
  PollGoes("target", [poll EXCEPT !.at = "request",
    !.version = IF @ = 0 /\ poll.phase \in Terminal THEN marker ELSE @])

(* A request that cannot be read is none.  A terminal state counts for the   *)
(* release advertised, and a complete one for the server that answers.       *)
Present(p) ==
  IF request \notin {NoRequest, Unreadable} /\ p.phase # "working" THEN "queued"
  ELSE IF p.phase \in Terminal /\ p.version # p.latest THEN "idle"
  ELSE IF p.phase = "complete" /\ p.version # VersionOf(child) THEN "idle"
  ELSE p.phase

CheckRequest == PollGoes("request", [poll EXCEPT !.at = "answer", !.phase = Present(poll)])

(* The answer: a success that is waited for reloads the page; a wait without *)
(* any sign of the update ends after fifteen seconds.  When the wait begins  *)
(* or ends, the page polls at once.                                          *)
Waits(p) == pending' = p /\ poll' = IF p = pending THEN NoPoll ELSE NewPoll

PollAnswered ==
  /\ poll.at = "answer"
  /\ phase' = poll.phase
  /\ IF poll.phase \in Terminal THEN Waits(FALSE)
     ELSE Waits(pending) \/ (poll.phase = "idle" /\ Waits(FALSE))
  /\ UNCHANGED <<launcherVars, latest, pageFiles, post, fresh>>

-----------------------------------------------------------------------------
(* update() and POST.                                                        *)

Busy == pending \/ phase \in {"queued", "working"}

Click ==
  /\ ~Busy /\ post = "none" /\ Running /\ latest > VersionOf(child)
  /\ phase' = "queued" /\ Waits(TRUE)
  /\ post' = "asking" /\ fresh' = FALSE
  /\ UNCHANGED <<launcherVars, latest, pageFiles>>

PostReserves ==
  /\ post = "asking" /\ Reserve /\ post' = "reserved"
  /\ UNCHANGED <<latest, pageFiles, pending, phase, poll, fresh>>

PostRefused ==
  /\ post = "asking" /\ post' = "refused"
  /\ UNCHANGED <<launcherVars, latest, pageFiles, pending, phase, poll, fresh>>

PostPublishes ==
  /\ post = "reserved" /\ Publish /\ post' = "accepted"
  /\ target' = [target EXCEPT ![issued'] = latest] /\ marker' = latest
  /\ UNCHANGED <<latest, written, pending, phase, poll, fresh>>

PostFails ==
  /\ post = "reserved" /\ CannotPublish /\ post' = "refused"
  /\ marker' = 0
  /\ UNCHANGED <<latest, target, written, pending, phase, poll, fresh>>

PostAnswered ==
  /\ post \in {"accepted", "refused"} /\ post' = "none"
  /\ IF post = "refused" THEN phase' = "failed" /\ Waits(FALSE) ELSE UNCHANGED <<phase, pending, poll>>
  /\ UNCHANGED <<launcherVars, latest, pageFiles, fresh>>

PageNext ==
  \/ LauncherGoesOn \/ Advertise
  \/ PollBegins \/ PollAsks \/ ReadStatus \/ ReadTarget \/ CheckRequest \/ PollAnswered
  \/ Click \/ PostReserves \/ PostRefused \/ PostPublishes \/ PostFails \/ PostAnswered

PageSpec == PageInit /\ [][PageNext]_pageVars
-----------------------------------------------------------------------------
(* "A terminal state describes one release attempt" (route.ts:49) and "If an *)
(* update fails, retry using the button" (USER_GUIDE.md:45): a state, with   *)
(* its version, that ends the wait of the page was written after the click.  *)
OutcomeIsOfThisAttempt ==
  [][pending /\ ~pending' /\ post' = post /\ phase' \in Terminal /\ written # 0 => fresh]_pageVars
=============================================================================
