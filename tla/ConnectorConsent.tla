-------------------------- MODULE ConnectorConsent --------------------------
(* A connector key is issued to a shop after the user has accepted the       *)
(* data-processing agreement the Cloud publishes                             *)
(* (components/CloudConfiguration.tsx).  The document is fetched for the     *)
(* shop, the language and the tool that are open, again when any of them     *)
(* changes, and again when the Cloud says that it has changed.  The answer   *)
(* for a page that has gone is cancelled, and left out.  The selection also  *)
(* moves by itself when the shop disappears from the account.                *)
EXTENDS Naturals

CONSTANTS
  KeyShops,   \* shops of the account
  NoDocument, \* no document, nothing asked for, accepted or posted
  MaxEdition  \* bound: editions of the document

OpenPages == [shop : KeyShops, french : BOOLEAN, connector : BOOLEAN]
Documents == [edition : Nat, french : BOOLEAN]

ASSUME ConsentAssumption ==
  /\ MaxEdition \in Nat
  /\ NoDocument \notin [open : OpenPages, document : Documents]

VARIABLES
  open,       \* what is open: the shop, the language, whether the connector
  document,   \* the document shown: its edition and language
  wanted,     \* the edition in force when it was last asked for
  accepted,   \* the box is ticked
  ticked,     \* what was on the page when it was last ticked
  issuing,    \* a key is being issued: "no", "posted" or "activating"
  keyRequest, \* the last request for a key
  edition     \* Cloud: the edition published

consentVars == <<open, document, wanted, accepted, ticked, issuing, keyRequest, edition>>

(* The effect of a change of the page, or of dpaReload.                      *)
StillTicked == accepted
Unticked == FALSE

Reload(p) ==
  /\ accepted' = Unticked
  /\ document' = NoDocument
  /\ wanted' = IF p.connector THEN edition ELSE NoDocument

ConsentInit ==
  /\ open \in OpenPages /\ ~open.connector
  /\ edition = 0
  /\ document = NoDocument /\ wanted = NoDocument /\ accepted = FALSE
  /\ ticked = NoDocument /\ keyRequest = NoDocument /\ issuing = "no"

(* By the user, who cannot select a shop while a key is issued, or by the    *)
(* list of shops when it no longer has the one selected.                     *)
TurnsTo(p) ==
  /\ p # open /\ open' = p
  /\ Reload(p)
  /\ UNCHANGED <<ticked, issuing, keyRequest, edition>>

Publishes ==
  /\ edition < MaxEdition /\ edition' = edition + 1
  /\ UNCHANGED <<open, document, wanted, accepted, ticked, issuing, keyRequest>>

(* A document in another language is refused.                                *)
DocumentArrives ==
  /\ wanted # NoDocument /\ wanted' = NoDocument
  /\ document' \in [edition : wanted .. edition, french : {open.french}] \union {NoDocument}
  /\ UNCHANGED <<open, accepted, ticked, issuing, keyRequest, edition>>

RetryDocument ==
  /\ open.connector /\ document = NoDocument /\ wanted = NoDocument
  /\ Reload(open)
  /\ UNCHANGED <<open, ticked, issuing, keyRequest, edition>>

InLanguage == document # NoDocument /\ document.french = open.french

Accept ==
  /\ open.connector /\ InLanguage
  /\ accepted' = ~accepted
  /\ ticked' = IF accepted' THEN [open |-> open, document |-> document] ELSE NoDocument
  /\ UNCHANGED <<open, document, wanted, issuing, keyRequest, edition>>

-----------------------------------------------------------------------------
(* issueConnectorKey().                                                      *)

Issue ==
  /\ open.connector /\ InLanguage /\ accepted /\ issuing = "no"
  /\ issuing' = "posted"
  /\ keyRequest' = [open |-> open, document |-> document, consent |-> ticked]
  /\ UNCHANGED <<open, document, wanted, accepted, ticked, edition>>

(* The key is shown, and local synchronization started for the same shop.    *)
Issued ==
  /\ issuing = "posted" /\ keyRequest.document.edition = edition
  /\ issuing' \in {"activating", "no"}
  /\ UNCHANGED <<open, document, wanted, accepted, ticked, keyRequest, edition>>

Activated ==
  /\ issuing = "activating" /\ issuing' = "no"
  /\ UNCHANGED <<open, document, wanted, accepted, ticked, keyRequest, edition>>

(* dpa_document_changed.                                                     *)
DocumentChanged ==
  /\ issuing = "posted" /\ keyRequest.document.edition < edition
  /\ issuing' = "no"
  /\ Reload(open)
  /\ UNCHANGED <<open, ticked, keyRequest, edition>>

NotIssued ==
  /\ issuing = "posted" /\ issuing' = "no"
  /\ UNCHANGED <<open, document, wanted, accepted, ticked, keyRequest, edition>>

ConsentNext ==
  \/ \E p \in OpenPages : TurnsTo(p)
  \/ Publishes \/ DocumentArrives \/ RetryDocument \/ Accept
  \/ Issue \/ Issued \/ Activated \/ DocumentChanged \/ NotIssued

ConsentSpec == ConsentInit /\ [][ConsentNext]_consentVars
-----------------------------------------------------------------------------
(* "Bind explicit consent to its version, language and content fingerprint." *)
(* and "require fresh consent after publication changes" (CHANGELOG.md:111): *)
(* a key is asked for with the document that was on the page, for the shop   *)
(* and in the language of the page, when the box was ticked.                 *)
ConsentIsToWhatWasShown ==
  keyRequest # NoDocument =>
    /\ keyRequest.consent # NoDocument
    /\ keyRequest.consent.document = keyRequest.document
    /\ keyRequest.consent.open = keyRequest.open
=============================================================================
