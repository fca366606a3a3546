---------------------------- MODULE EmailArchive ----------------------------
(***************************************************************************)
(* The encrypted copies of the emails of one vault:                        *)
(* scripts/email-archive.mjs, as the relay's commands                      *)
(* (scripts/server-data-relay.mjs:139-158) and the history page            *)
(* (lib/email-history-archive.ts, app/api/cloud/recent-emails) use it.     *)
(*                                                                         *)
(* The Cloud asks the vault to archive a copy before it sends it, confirms *)
(* it afterwards, and lists sent and converted deliveries to whoever views *)
(* the history.  Every answer, confirmation and view may be lost, late or  *)
(* repeated.  The Cloud is external: it asks until it has an answer, sends *)
(* the copy of the last answer it got, and asks no more once it has sent.  *)
(* A page of the history is viewed one delivery at a time, and a delivery  *)
(* keeps its recipient and its agent.                                      *)
(***************************************************************************)
EXTENDS Integers, FiniteSets

CONSTANTS
  N,            \* deliveries; their numbers order equal times
  Copies,       \* what a delivery may say
  NoCopy,       \* nothing
  Day,          \* an unsent copy lives this long
  Month,        \* any copy lives this long
  MaxUnsent,    \* unsent copies held (100)
  MaxSent,      \* sent copies held (50)
  MaxConverted, \* converted copies held beyond them (50)
  MaxTime       \* bound: last instant of the clock

ASSUME ArchiveAssumption ==
  /\ N \in Nat \ {0} /\ Day \in Nat /\ Month \in Nat /\ MaxTime \in Nat
  /\ MaxUnsent \in Nat /\ MaxSent \in Nat /\ MaxConverted \in Nat
  /\ Day <= Month
  /\ NoCopy \notin Copies

Ids == 1 .. N
Never == -1
Instant == 0 .. MaxTime
NoRow == [copy |-> NoCopy, created |-> Never, sent |-> Never]

VARIABLES
  now,
  archive,      \* table email_archive
  conversions,  \* table email_archive_conversions
  answer,       \* Cloud: the copy it was last told is archived
  mail,         \* Cloud: the copy it has sent
  sentAt,       \* Cloud: when it sent it
  convertedAt   \* Cloud: when the delivery converted

tables == <<archive, conversions>>
cloud == <<answer, mail, sentAt, convertedAt>>
archiveVars == <<now, tables, cloud>>

ArchiveInit ==
  /\ now = 0
  /\ archive = [i \in Ids |-> NoRow]
  /\ conversions = [i \in Ids |-> Never]
  /\ answer = [i \in Ids |-> NoCopy]
  /\ mail = [i \in Ids |-> NoCopy]
  /\ sentAt = [i \in Ids |-> Never]
  /\ convertedAt = [i \in Ids |-> Never]
-----------------------------------------------------------------------------
Held(t) == {i \in Ids : t[i] # NoRow}
Sent(t) == {i \in Held(t) : t[i].sent # Never}
Unsent(t) == Held(t) \ Sent(t)

\* ORDER BY key DESC, id DESC LIMIT n
Later(key, i, j) == key[i] > key[j] \/ (key[i] = key[j] /\ i > j)
Top(S, key, n) == {i \in S : Cardinality({j \in S : Later(key, j, i)}) < n}

Touched(row) == IF row.sent # Never THEN row.sent ELSE row.created
TooOld(row) ==
  Touched(row) < now - Month \/ (row.sent = Never /\ row.created < now - Day)

(* clean(): what is too old goes, then all sent copies but the latest and  *)
(* the latest converted ones, then conversions without a copy.             *)
LatestOnly(t, times, sent) == Top(sent, [i \in Ids |-> t[i].sent], MaxSent)
Retained(t, times, sent) ==
  Top(sent, [i \in Ids |-> t[i].sent], MaxSent) \union
  Top({i \in sent : times[i] # Never}, times, MaxConverted)
Cleaned(t, times) ==
  LET young == {i \in Held(t) : ~TooOld(t[i])}
      sent == young \intersect Sent(t)
      kept == (young \ sent) \union Retained(t, times, sent)
  IN  [rows |-> [i \in Ids |-> IF i \in kept THEN t[i] ELSE NoRow],
       times |-> [i \in Ids |-> IF i \in kept THEN times[i] ELSE Never]]

(* Every use opens the archive, and its constructor cleans it: an action's *)
(* first parameter o is what it finds then.                                *)
Opened == Cleaned(archive, conversions)
Becomes(o) == archive' = o.rows /\ conversions' = o.times
-----------------------------------------------------------------------------
\* The relay's reply to archive_email arrives, or the Cloud never sees it.
Replied(i, copy) ==
  /\ answer' \in {[answer EXCEPT ![i] = copy], [answer EXCEPT ![i] = NoCopy]}
  /\ UNCHANGED <<now, mail, sentAt, convertedAt>>

(* prepare(): a delivery that is archived keeps its copy, and the answer   *)
(* names that one, whatever the retry offers.                              *)
OfferedCopy(o, i, copy) == copy
AnsweredCopy(o, i, copy) == o.rows[i].copy
Retry(o, i, copy) ==
  /\ mail[i] = NoCopy
  /\ o.rows[i] # NoRow
  /\ Becomes(o)
  /\ Replied(i, AnsweredCopy(o, i, copy))

HasRoom(t) == Cardinality(Unsent(t)) < MaxUnsent
Store(o, i, copy) ==
  /\ mail[i] = NoCopy
  /\ o.rows[i] = NoRow
  /\ HasRoom(o.rows)
  /\ archive' = [o.rows EXCEPT ![i] = [copy |-> copy, created |-> now, sent |-> Never]]
  /\ conversions' = o.times
  /\ Replied(i, copy)

\* email_archive_full: only the constructor's clean-up remains.
Refuse(o, i) ==
  /\ mail[i] = NoCopy
  /\ o.rows[i] = NoRow
  /\ ~HasRoom(o.rows)
  /\ Becomes(o)
  /\ Replied(i, NoCopy)

(* confirm() of a delivery the Cloud has sent: the first time stays.       *)
Marked(t, i) == [t EXCEPT ![i].sent = IF @ = Never THEN sentAt[i] ELSE @]
Confirm(o, i) ==
  /\ mail[i] # NoCopy
  /\ Becomes(IF o.rows[i] = NoRow THEN o ELSE Cleaned(Marked(o.rows, i), o.times))
  /\ UNCHANGED <<now, cloud>>

(* The history lists the delivery: enrichEmailHistory() notes its          *)
(* conversion, then confirms it.                                           *)
Noted(times, i) ==
  IF convertedAt[i] = Never \/ (times[i] # Never /\ times[i] <= convertedAt[i])
  THEN times ELSE [times EXCEPT ![i] = convertedAt[i]]
TimesAfterConfirming(o, i) == LET c == Cleaned(Marked(o.rows, i), o.times)
                              IN  IF c.rows[i] = NoRow THEN c.times ELSE Noted(c.times, i)
TimesBeforeConfirming(o, i) == Noted(o.times, i)
ViewFound(o, i) ==
  /\ mail[i] # NoCopy
  /\ o.rows[i] # NoRow
  /\ Becomes(Cleaned(Marked(o.rows, i), TimesBeforeConfirming(o, i)))
  /\ UNCHANGED <<now, cloud>>

\* Without a copy there is no preview; the archive is cleaned all the same.
ViewMissing(o, i) ==
  /\ mail[i] # NoCopy
  /\ o.rows[i] = NoRow
  /\ Becomes(o)
  /\ UNCHANGED <<now, cloud>>

\* The Cloud sends what it was told is archived, and learns of conversions.
Send(i) ==
  /\ mail[i] = NoCopy /\ answer[i] # NoCopy
  /\ mail' = [mail EXCEPT ![i] = answer[i]]
  /\ sentAt' = [sentAt EXCEPT ![i] = now]
  /\ UNCHANGED <<now, tables, answer, convertedAt>>

Convert(i) ==
  /\ mail[i] # NoCopy /\ convertedAt[i] = Never
  /\ convertedAt' = [convertedAt EXCEPT ![i] = now]
  /\ UNCHANGED <<now, tables, answer, mail, sentAt>>

Tick ==
  /\ now < MaxTime
  /\ now' = now + 1
  /\ UNCHANGED <<tables, cloud>>

ArchiveNext ==
  \/ \E o \in {Opened}, i \in Ids :
       \/ \E copy \in Copies : Retry(o, i, copy) \/ Store(o, i, copy)
       \/ Refuse(o, i) \/ Confirm(o, i) \/ ViewFound(o, i) \/ ViewMissing(o, i)
  \/ \E i \in Ids : Send(i) \/ Convert(i)
  \/ Tick

ArchiveSpec == ArchiveInit /\ [][ArchiveNext]_archiveVars
-----------------------------------------------------------------------------
Row == [copy : Copies, created : Instant, sent : Instant \union {Never}]

(* Types, and the bounds of the tables: they hold after every use, however *)
(* many copies are prepared, confirmed late or converted                   *)
(* (email-archive.mjs:25-33, 63).                                          *)
ArchiveTypeOK ==
  /\ now \in Instant
  /\ archive \in [Ids -> Row \union {NoRow}]
  /\ conversions \in [Ids -> Instant \union {Never}]
  /\ answer \in [Ids -> Copies \union {NoCopy}] /\ mail \in [Ids -> Copies \union {NoCopy}]
  /\ sentAt \in [Ids -> Instant \union {Never}] /\ convertedAt \in [Ids -> Instant \union {Never}]
  /\ Cardinality(Unsent(archive)) <= MaxUnsent
  /\ Cardinality(Sent(archive)) <= MaxSent + MaxConverted
  /\ \A i \in Ids : conversions[i] # Never => archive[i] # NoRow

(* "Retries must send the same content" (email-archive.mjs:57): whatever   *)
(* answers were lost and copies regenerated meanwhile, the history shows   *)
(* what the Cloud has sent, or nothing.                                    *)
ShowsWhatWasSent ==
  \A i \in Ids : (archive[i] # NoRow /\ mail[i] # NoCopy) => archive[i].copy = mail[i]

(* "Community retains the latest 50 confirmed copies and up to 50          *)
(* additional copies identified as converted ... for a maximum of 30 days" *)
(* (USER_GUIDE.md:61-63): a confirmed copy leaves only when it is too old, *)
(* or when later ones have taken every place it could have.                *)
LatestAreKept ==
  [][\A i \in Sent(archive) : archive'[i] = NoRow =>
       \/ archive[i].sent < now - Month
       \/ /\ Cardinality({j \in Sent(archive') : archive'[j].sent >= archive[i].sent}) >= MaxSent
          /\ \/ conversions[i] = Never
             \/ Cardinality({j \in Sent(archive') : conversions'[j] # Never}) >= MaxConverted]_archiveVars

(* A copy that is shown as converted is kept for it, also when the view    *)
(* itself is what confirms it after many later ones: it gives way only to  *)
(* later conversions (email-history-archive.ts:43-47).                     *)
ViewedConversionIsKept ==
  [][\A i \in Ids : (/\ convertedAt[i] # Never /\ sentAt[i] >= now - Month
                     /\ ViewFound(Opened, i)) =>
       \/ archive'[i] # NoRow
       \/ Cardinality({j \in Sent(archive') : conversions'[j] >= convertedAt[i]}) >= MaxConverted
     ]_archiveVars

(* Between them: what cleaning may take.                                     *)
CopiesAreKept == LatestAreKept /\ ViewedConversionIsKept
=============================================================================
