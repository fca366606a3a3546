--------------------------- MODULE SignalDelivery ---------------------------
(***************************************************************************)
(* What the outbox of a vault promises to the Cloud                        *)
(* (scripts/local-data-store.mjs, scripts/server-data-relay.mjs): a signal *)
(* is announced once, it is only known if it was offered, and it stays     *)
(* pending until the Cloud knows it or it is too old to matter.  How       *)
(* batches travel, what fails on the way and what a restart forgets do not *)
(* appear here.                                                            *)
(***************************************************************************)
EXTENDS FiniteSets

VARIABLES
  pending,   \* announced and not yet settled
  offered,   \* on their way to the Cloud, perhaps for a long time
  known,     \* what the Cloud has accepted
  dead       \* pending signals past their retention

delivery == <<pending, offered, known, dead>>

DeliveryInit == pending = {} /\ offered = {} /\ known = {} /\ dead = {}

\* A change of the shop announces one new signal; dead ones may make room.
Announce ==
  /\ \E s \in pending' \ (pending \union offered \union known) :
       \E gone \in SUBSET dead :
         /\ pending' = (pending \ gone) \union {s}
         /\ dead' \subseteq (dead \ gone) \union {s}
  /\ UNCHANGED <<offered, known>>

\* Some of the pending signals set out, others have arrived before.
Offer ==
  /\ offered' \subseteq offered \union pending
  /\ UNCHANGED <<pending, known, dead>>

\* The Cloud accepts what reaches it, and never forgets.
Learn ==
  /\ known \subseteq known' /\ known' \subseteq known \union offered
  /\ offered' \subseteq offered
  /\ UNCHANGED <<pending, dead>>

\* What the Cloud knows, or what is too old, need not stay pending.
Settle ==
  /\ pending \ (known \union dead) \subseteq pending' /\ pending' \subseteq pending
  /\ dead' = dead \intersect pending'
  /\ UNCHANGED <<offered, known>>

Age ==
  /\ dead \subseteq dead' /\ dead' \subseteq pending
  /\ UNCHANGED <<pending, offered, known>>

DeliveryNext == Announce \/ Offer \/ Learn \/ Settle \/ Age

DeliverySpec == DeliveryInit /\ [][DeliveryNext]_delivery
=============================================================================
