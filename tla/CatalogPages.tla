---------------------------- MODULE CatalogPages ----------------------------
(* The Cloud reads the catalogue page by page                                *)
(* (scripts/local-catalog-reader.mjs).  The vault keeps nothing of a reader: *)
(* a signed cursor carries the last reference read, the time it expires and  *)
(* a digest of the manifest, that is of every product that was readable.     *)
(* The catalogue changes between pages, and answers may be lost.             *)
EXTENDS Naturals, FiniteSets, Functions

CONSTANTS
  Products,      \* references, in the order of the manifest
  PageSize,      \* records of a page (32)
  MaxProducts,   \* products of a manifest (10,000)
  CursorLife,    \* a cursor is good for this long (120 s)
  RecordLife,    \* a record expires after this long
  MaxChanges,    \* bound: changes of the catalogue
  MaxClock       \* bound: last instant

ASSUME CatalogAssumption ==
  /\ Products \subseteq Nat \ {0} /\ IsFiniteSet(Products)
  /\ PageSize \in Nat \ {0} /\ MaxProducts \in Nat
  /\ CursorLife \in Nat /\ RecordLife \in Nat /\ MaxChanges \in Nat /\ MaxClock \in Nat

VARIABLES
  clock,
  records,  \* the products stored: revision, and when it expires
  changes,  \* how many revisions there have been
  open,     \* whether the source is fresh (requireSourceFresh)
  reader    \* what the reader has: its cursor and the products read so far

catalogVars == <<clock, records, changes, open, reader>>

Start == [after |-> 0, generation |-> <<>>, expires |-> 0]
Reading(cursor, got) == [cursor |-> cursor, got |-> got, whole |-> FALSE, then |-> <<>>]

CatalogInit ==
  /\ clock = 0
  /\ records = <<>>
  /\ changes = 0
  /\ open = TRUE
  /\ reader = Reading(Start, <<>>)

-----------------------------------------------------------------------------
(* The vault.                                                                *)

PutProduct(p) ==
  /\ changes < MaxChanges
  /\ changes' = changes + 1
  /\ records' = [q \in DOMAIN records \union {p} |->
       IF q = p THEN [revision |-> changes', expires |-> clock + RecordLife] ELSE records[q]]
  /\ UNCHANGED <<clock, open, reader>>

DeleteProduct(p) ==
  /\ changes < MaxChanges /\ p \in DOMAIN records
  /\ changes' = changes + 1
  /\ records' = Restrict(records, DOMAIN records \ {p})
  /\ UNCHANGED <<clock, open, reader>>

(* A lease expires, a pass completes or fails.                               *)
OpenOrClose == open' = ~open /\ UNCHANGED <<clock, records, changes, reader>>

Later ==
  /\ clock < MaxClock /\ clock' = clock + 1
  /\ UNCHANGED <<records, changes, open, reader>>

-----------------------------------------------------------------------------
(* A page.                                                                   *)

Manifest == Restrict(records, {p \in DOMAIN records : records[p].expires > clock})

InForce(cursor) == cursor.expires > clock

ContinuesAnyway(cursor) ==
  cursor # Start => InForce(cursor) /\ cursor.after \in DOMAIN Manifest
Continues(cursor) ==
  cursor # Start => InForce(cursor) /\ cursor.generation = Manifest /\ cursor.after \in DOMAIN Manifest

Remaining(cursor) == {p \in DOMAIN Manifest : p > cursor.after}

(* The first of what remains, as many as have room: a large product leaves   *)
(* less for the others.                                                      *)
Pages(cursor) ==
  {page \in SUBSET Remaining(cursor) :
     /\ Cardinality(page) <= PageSize
     /\ \A p \in page, q \in Remaining(cursor) \ page : p < q
     /\ page = {} => Remaining(cursor) = {}}

Continuation(cursor, last) ==
  [after |-> last,
   generation |-> Manifest,
   expires |-> IF cursor = Start THEN clock + CursorLife ELSE cursor.expires]

With(page) ==
  [p \in DOMAIN reader.got \union page |-> IF p \in page THEN Manifest[p] ELSE reader.got[p]]

(* readLocalCatalog; its answer reaches the reader.                          *)
ReadPage ==
  LET cursor == reader.cursor
  IN /\ open /\ ~reader.whole
     /\ Continues(cursor)
     /\ Cardinality(DOMAIN Manifest) <= MaxProducts
     /\ \E page \in Pages(cursor) :
          \/ /\ page = Remaining(cursor)
             /\ reader' = [Reading(cursor, With(page)) EXCEPT !.whole = TRUE, !.then = Manifest]
          \/ /\ page # Remaining(cursor)
             /\ \E last \in page :
                  /\ \A p \in page : p <= last
                  /\ reader' = Reading(Continuation(cursor, last), With(page))
     /\ UNCHANGED <<clock, records, changes, open>>

(* The reader begins again: the catalogue has changed, or was read.          *)
BeginAgain ==
  /\ reader' = Reading(Start, <<>>)
  /\ UNCHANGED <<clock, records, changes, open>>

CatalogNext ==
  \/ \E p \in Products : PutProduct(p) \/ DeleteProduct(p)
  \/ OpenOrClose \/ Later
  \/ ReadPage \/ BeginAgain

CatalogSpec == CatalogInit /\ [][CatalogNext]_catalogVars
-----------------------------------------------------------------------------
(* local-catalog-reader.mjs:36-44: the pages of one chain are together the   *)
(* catalogue as it was at the last of them, whatever was written, deleted or *)
(* expired in between.                                                       *)
ChainIsOneCatalog == reader.whole => reader.got = reader.then
=============================================================================
