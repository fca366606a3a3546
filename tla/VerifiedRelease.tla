--------------------------- MODULE VerifiedRelease ---------------------------
(* prepareRelease() (scripts/verified-update.mjs) inside the launcher it     *)
(* prepares builds for: the tag is cloned, three files are downloaded one by *)
(* one, and all are compared.  Meanwhile the release may be published again  *)
(* under the same version: a tag, then its archive, checksum and signature.  *)
(* An edition stands for the contents of one such publication.  What the     *)
(* launcher checks before it (a newer version, room, no local changes) is    *)
(* part of PrepareFails; a staging directory left behind is never used.      *)
EXTENDS UpdateLauncher

CONSTANTS
  Editions,    \* publications, in their order
  Genuine,     \* those signed with the pinned key
  MaxRetries   \* attempts at a download beyond the first (two)

ASSUME ReleaseAssumption ==
  /\ Editions \subseteq Nat \ {0} /\ Genuine \subseteq Editions
  /\ MaxRetries \in Nat

VARIABLES
  tag,       \* GitHub: the edition the tag names
  assets,    \* GitHub: the edition of each file of the release
  released,  \* the editions whose archive has been there
  step,      \* where the preparation is
  tree,      \* the edition that was cloned
  fetched,   \* those of the files downloaded
  attempt,   \* attempts at the download under way that have failed
  source     \* the edition each build was made of

place == <<tag, assets, released>>
staging == <<step, tree, fetched, attempt>>
releaseVars == <<launcherVars, place, staging, source>>

Missing == 0
Files == {"archive", "checksum", "signature"}
NoFiles == [f \in Files |-> Missing]

ReleaseInit ==
  /\ LauncherInit
  /\ tag = Missing /\ assets = NoFiles /\ released = {}
  /\ step = "none" /\ tree = Missing /\ fetched = NoFiles /\ attempt = 0
  /\ source = [b \in Build |-> Missing]
-----------------------------------------------------------------------------
(* Whoever can publish: a tag first, its files later, if at all.             *)
Tag(e) ==
  /\ e > tag /\ tag' = e
  /\ UNCHANGED <<launcherVars, assets, released, staging, source>>

Upload(f) ==
  /\ assets[f] # tag
  /\ assets' = [assets EXCEPT ![f] = tag]
  /\ released' = IF f = "archive" THEN released \union {tag} ELSE released
  /\ UNCHANGED <<launcherVars, tag, staging, source>>
-----------------------------------------------------------------------------
(* The preparation, while no signal aborts it.                               *)
From(s) == At("preparing") /\ ~cancelled /\ step = s
To(s) == step' = s /\ UNCHANGED <<launcherVars, place, source>>

Clone ==
  /\ From("cloning") /\ tag # Missing
  /\ tree' = tag
  /\ To("cloned") /\ UNCHANGED <<fetched, attempt>>

(* verify-tag with the key of the tree, whose fingerprint is pinned.         *)
VerifySigner(e) == e \in Genuine

VerifyTag ==
  /\ From("cloned") /\ VerifySigner(tree)
  /\ To("archive") /\ UNCHANGED <<tree, fetched, attempt>>

(* fetchReleaseAsset(), for each file in turn: one that is missing is final, *)
(* after other errors it is asked for again.                                 *)
After == [archive |-> "checksum", checksum |-> "signature", signature |-> "fetched"]

Download(f) ==
  /\ From(f) /\ assets[f] # Missing
  /\ fetched' = [fetched EXCEPT ![f] = assets[f]]
  /\ attempt' = 0
  /\ To(After[f]) /\ UNCHANGED tree

DownloadAgain(f) ==
  /\ From(f) /\ attempt < MaxRetries
  /\ attempt' = attempt + 1
  /\ UNCHANGED <<launcherVars, place, source, step, tree, fetched>>

(* The checksum and the signature are of the archive, and the archive is     *)
(* that of the tree.                                                         *)
ChecksumFits == fetched["checksum"] = fetched["archive"]
SignatureFits == fetched["signature"] = fetched["archive"] /\ VerifySigner(fetched["archive"])
AnyTree == TRUE
TreeIsPublished == fetched["archive"] = tree

VerifyFiles ==
  /\ From("fetched")
  /\ ChecksumFits /\ SignatureFits /\ TreeIsPublished
  /\ To("building") /\ UNCHANGED <<tree, fetched, attempt>>

Preparation ==
  \/ Clone \/ VerifyTag \/ VerifyFiles
  \/ \E f \in Files : Download(f) \/ DownloadAgain(f)
-----------------------------------------------------------------------------
(* The launcher: it begins a preparation, which ends in a build or removes   *)
(* what it has staged.                                                       *)
Unstaged == step' = "none" /\ tree' = Missing /\ fetched' = NoFiles /\ attempt' = 0

Begin == Take /\ step' = "cloning" /\ UNCHANGED <<tree, fetched, attempt, place, source>>

Built ==
  /\ Prepare /\ step = "building"
  /\ source' = [source EXCEPT ![candidate] = tree]
  /\ Unstaged /\ UNCHANGED place

Abandoned == (PrepareFails \/ Die) /\ Unstaged /\ UNCHANGED <<place, source>>

GoesOn ==
  /\ Startup \/ ReadError \/ GoAhead \/ Activation \/ Cleanup
  /\ UNCHANGED <<place, staging, source>>

Around == (Server \/ ChildExits \/ Signal \/ Spoil) /\ UNCHANGED <<place, staging, source>>

LauncherSteps == Begin \/ Preparation \/ Built \/ (PrepareFails /\ Abandoned) \/ GoesOn

ReleaseNext ==
  \/ LauncherSteps \/ Abandoned \/ Around
  \/ \E e \in Editions : Tag(e)
  \/ \E f \in Files : Upload(f)

(* As the launcher alone (FairLauncherSpec).                                 *)
ReleaseSpec ==
  /\ ReleaseInit /\ [][ReleaseNext]_releaseVars
  /\ WF_releaseVars(LauncherSteps) /\ WF_launcherVars(Publish \/ CannotPublish)
  /\ SF_launcherVars(DropRequest)
-----------------------------------------------------------------------------
(* "Verify all release assets and their equality with the signed Git tree"   *)
(* (verified-update.mjs:147): a build is only ever made of a tree signed     *)
(* with the pinned key whose archive has been released, whatever is tagged   *)
(* or uploaded again between the reads and wherever the launcher stops.      *)
BuiltIsReleased == \A b \in builds \ {Root} : source[b] \in Genuine \intersect released
=============================================================================
