--------------------------- MODULE WorkspaceSetup ---------------------------
(* How a shop gets its vault: the setup the dashboard asks for               *)
(* (api/local-data/setup, bootstrapWorkspaceDirectory of lib/workspace.ts),  *)
(* the directory a grant leads to (scripts/workspace-store.mjs), and the     *)
(* credentials and the source written into it.  Requests overlap, the server *)
(* may die between two of their steps, and the Cloud renames shops, removes  *)
(* them and links them again meanwhile.  The credential of the session is    *)
(* written into the vault at the root by the same steps.                     *)
EXTENDS Integers, Sequences

CONSTANTS
  Uuids,             \* shops of the member
  Primary,           \* the one the session was linked for
  Slugs,             \* names of shops
  SetupRequests,     \* of browsers, and of the refresh of the session
  MaxInstallations,  \* bound: links
  MaxSetups,         \* bound: requests
  Root,              \* the directory of the first vault
  Unset              \* nothing is there

Installations == 1 .. MaxInstallations
Grants == [slug : Slugs, inst : Installations]
Dirs == {Root} \union (Uuids \X Installations)

ASSUME SetupAssumption ==
  /\ Primary \in Uuids
  /\ MaxInstallations \in Nat \ {0} /\ MaxSetups \in Nat
  /\ Unset \notin Uuids /\ Unset \notin Installations /\ Unset \notin Grants
  /\ Root \notin Uuids \X Installations /\ Root # Unset

VARIABLES
  linkedAs,  \* Cloud: the name and installation of each shop
  owner,     \* Cloud: the shop of each installation so far
  vaults,    \* what each directory holds
  setup,     \* where each request is
  setups     \* requests so far

setupVars == <<linkedAs, owner, vaults, setup, setups>>

Empty == [exists |-> FALSE, slug |-> Unset, inst |-> Unset, relay |-> Unset, token |-> Unset, source |-> Unset]
Idle == [at |-> "idle", shop |-> Unset, bound |-> Unset, inst |-> Unset, slug |-> Unset, dir |-> Unset]

SetupInit ==
  /\ \E slug \in Slugs : linkedAs = [u \in Uuids |-> IF u = Primary THEN [slug |-> slug, inst |-> 1] ELSE Unset]
  /\ owner = <<Primary>>
  /\ vaults = [d \in Dirs |-> [Empty EXCEPT !.exists = (d = Root)]]
  /\ setup = [r \in SetupRequests |-> Idle]
  /\ setups = 0

Gone(r) == setup' = [setup EXCEPT ![r] = Idle]

-----------------------------------------------------------------------------
(* workspaceStoreDirectory(): the root, when it holds the vault of that name *)
(* and of that installation; otherwise a directory of their own.             *)

SameInstallation(inst) == vaults[Root].inst = inst
AnyInstallation(inst) == TRUE
OpensRoot(inst) == SameInstallation(inst)

DirectoryFor(u, grant, create) ==
  IF vaults[Root].slug = grant.slug
  THEN IF OpensRoot(grant.inst) THEN Root ELSE Unset
  ELSE IF create \/ vaults[<<u, grant.inst>>].exists THEN <<u, grant.inst>> ELSE Unset

-----------------------------------------------------------------------------
(* The setup of a shop.                                                      *)

(* The source binding is asked of the Cloud: the name of the shop and its    *)
(* secret.                                                                   *)
AskBinding(r, u) ==
  /\ setup[r].at = "idle" /\ setups < MaxSetups
  /\ linkedAs[u] # Unset
  /\ setups' = setups + 1
  /\ setup' = [setup EXCEPT ![r] = [Idle EXCEPT !.at = "grants", !.shop = u, !.bound = linkedAs[u].slug]]
  /\ UNCHANGED <<linkedAs, owner, vaults>>

(* authorizedWorkspaceDirectory(): a vault at the root needs no bootstrap.   *)
ReadGrants(r) ==
  LET u == setup[r].shop IN
  /\ setup[r].at = "grants"
  /\ IF linkedAs[u] = Unset THEN Gone(r)
     ELSE LET dir == DirectoryFor(u, linkedAs[u], FALSE)
          IN setup' = [setup EXCEPT ![r] =
               IF dir = Root THEN [@ EXCEPT !.at = "configure", !.dir = Root] ELSE [@ EXCEPT !.at = "bootstrap"]]
  /\ UNCHANGED <<linkedAs, owner, vaults, setups>>

(* bootstrapWorkspaceDirectory(): the grant in force, and its directory.     *)
Bootstrap(r) ==
  LET u == setup[r].shop IN
  /\ setup[r].at = "bootstrap"
  /\ LET dir == IF linkedAs[u] = Unset THEN Unset ELSE DirectoryFor(u, linkedAs[u], TRUE) IN
       IF dir = Unset THEN Gone(r) /\ UNCHANGED vaults
       ELSE /\ vaults' = [vaults EXCEPT ![dir] = [@ EXCEPT !.exists = TRUE]]
            /\ setup' = [setup EXCEPT ![r] =
                 [@ EXCEPT !.at = "vault", !.dir = dir, !.inst = linkedAs[u].inst, !.slug = linkedAs[u].slug]]
  /\ UNCHANGED <<linkedAs, owner, setups>>

(* The session begins or is refreshed: its credentials are for the root, the *)
(* one of the heartbeat first.                                               *)
RefreshPrimary(r) ==
  /\ setup[r].at = "idle" /\ setups < MaxSetups
  /\ linkedAs[Primary] # Unset
  /\ setups' = setups + 1
  /\ setup' = [setup EXCEPT ![r] =
       [Idle EXCEPT !.at = "token", !.dir = Root, !.inst = linkedAs[Primary].inst, !.slug = linkedAs[Primary].slug]]
  /\ UNCHANGED <<linkedAs, owner, vaults>>

(* saveRelayCredential(): the vault, created when there is none, must be of  *)
(* that name; it is bound to one installation for ever (bindInstallation).   *)
Created(v, slug) == IF v.slug = Unset THEN [v EXCEPT !.slug = slug] ELSE v
Bound(v, inst) == IF v.inst = Unset THEN [v EXCEPT !.inst = inst] ELSE v

OpenVault(r) ==
  LET d == setup[r].dir
      made == Created(vaults[d], setup[r].slug)
  IN /\ setup[r].at = "vault"
     /\ IF made.slug # setup[r].slug THEN Gone(r) /\ UNCHANGED vaults
        ELSE /\ vaults' = [vaults EXCEPT ![d] = Bound(made, setup[r].inst)]
             /\ IF vaults'[d].inst # setup[r].inst THEN Gone(r)
                ELSE setup' = [setup EXCEPT ![r] = [@ EXCEPT !.at = "relay"]]
     /\ UNCHANGED <<linkedAs, owner, setups>>

SaveRelay(r) ==
  /\ setup[r].at = "relay"
  /\ vaults' = [vaults EXCEPT ![setup[r].dir] = [@ EXCEPT !.relay = setup[r].inst]]
  /\ IF setup[r].shop = Unset THEN Gone(r) ELSE setup' = [setup EXCEPT ![r] = [@ EXCEPT !.at = "token"]]
  /\ UNCHANGED <<linkedAs, owner, setups>>

(* The credential of the heartbeat, whatever vault is in the directory.      *)
SaveToken(r) ==
  /\ setup[r].at = "token"
  /\ vaults' = [vaults EXCEPT ![setup[r].dir] = [@ EXCEPT !.token = setup[r].inst]]
  /\ setup' = [setup EXCEPT ![r] = [@ EXCEPT !.at = IF setup[r].shop = Unset THEN "vault" ELSE "configure"]]
  /\ UNCHANGED <<linkedAs, owner, setups>>

(* configureAutomaticSource(): of the vault, only the name is compared.      *)
Configure(r) ==
  LET d == setup[r].dir
      made == Created(vaults[d], setup[r].bound)
  IN /\ setup[r].at = "configure"
     /\ vaults' = [vaults EXCEPT ![d] =
          IF made.slug = setup[r].bound THEN [made EXCEPT !.source = setup[r].shop] ELSE @]
     /\ Gone(r)
     /\ UNCHANGED <<linkedAs, owner, setups>>

(* A request to the Cloud fails, or a write does, or the server dies.        *)
SetupFails(r) ==
  /\ setup[r].at # "idle"
  /\ Gone(r)
  /\ UNCHANGED <<linkedAs, owner, vaults, setups>>

-----------------------------------------------------------------------------
(* The Cloud: a shop is linked, under a name no other has, renamed within    *)
(* its installation, or removed.                                             *)

FreeName(u, slug) == \A v \in Uuids \ {u} : linkedAs[v] # Unset => linkedAs[v].slug # slug

LinkShop(u, slug) ==
  /\ Len(owner) < MaxInstallations /\ FreeName(u, slug)
  /\ linkedAs' = [linkedAs EXCEPT ![u] = [slug |-> slug, inst |-> Len(owner) + 1]]
  /\ owner' = Append(owner, u)
  /\ UNCHANGED <<vaults, setup, setups>>

RenameShop(u, slug) ==
  /\ linkedAs[u] # Unset /\ linkedAs[u].slug # slug /\ FreeName(u, slug)
  /\ linkedAs' = [linkedAs EXCEPT ![u].slug = slug]
  /\ UNCHANGED <<owner, vaults, setup, setups>>

RemoveShop(u) ==
  /\ linkedAs[u] # Unset
  /\ linkedAs' = [linkedAs EXCEPT ![u] = Unset]
  /\ UNCHANGED <<owner, vaults, setup, setups>>

SetupNext ==
  \/ \E r \in SetupRequests :
       \/ \E u \in Uuids : AskBinding(r, u)
       \/ ReadGrants(r) \/ Bootstrap(r) \/ RefreshPrimary(r)
       \/ OpenVault(r) \/ SaveRelay(r) \/ SaveToken(r) \/ Configure(r) \/ SetupFails(r)
  \/ \E u \in Uuids : RemoveShop(u) \/ \E slug \in Slugs : LinkShop(u, slug) \/ RenameShop(u, slug)

SetupSpec == SetupInit /\ [][SetupNext]_setupVars
-----------------------------------------------------------------------------
(* "A recycled shop slug or a new installation must not open the old vault"  *)
(* (workspace-store.mjs:33): the credentials in a vault are those of the one *)
(* installation it is bound to, and the source it reads is of the shop that  *)
(* installation was made for, whatever was renamed, linked again or under    *)
(* way when the server died.  The heartbeat of the first vault is that of    *)
(* the session.                                                              *)
VaultIsOfItsShop ==
  \A d \in Dirs : LET v == vaults[d] IN
    /\ v.relay \in {Unset, v.inst}
    /\ d # Root => {v.inst, v.token} \subseteq {Unset, d[2]}
    /\ v.source # Unset => v.inst # Unset /\ v.source = owner[v.inst]
=============================================================================
