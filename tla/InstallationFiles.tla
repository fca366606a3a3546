-------------------------- MODULE InstallationFiles --------------------------
(* The files of an installation: .env.local, written by setup-community.mjs, *)
(* with the secret the server seals its credentials by, the credentials, and *)
(* the backups the launcher takes of both, from which new directories are    *)
(* restored (update-backup.mjs).                                             *)
EXTENDS Naturals

CONSTANTS
  Setups,      \* runs of the setup command, perhaps at once
  Places,      \* directories for backups and restored copies
  MaxSecrets,  \* bound: secrets created
  Down,        \* no server running
  Torn         \* a file that cannot be read

ASSUME FilesAssumption == MaxSecrets \in Nat /\ Down \notin Nat /\ Torn \notin Nat

VARIABLES
  env,     \* the secret in .env.local: its number, 0 for none, or Torn
  created, \* secrets so far
  setups,  \* each run: idle, asking with the secret it has read, or writing one
  running, \* the secret the server has started with
  sealed,  \* the secret the credentials on disk are sealed by, 0 for none
  places,  \* each directory: how far it is, and what it holds
  saved,   \* a secret has been saved in .env.local
  lost     \* a setup has found no secret, or left none, where one had been saved

filesVars == <<env, created, setups, running, sealed, places, saved, lost>>

Unread == {0, Torn}
IdleRun == [at |-> "idle", secret |-> 0, read |-> 0]
Free == [at |-> "free", secret |-> 0, sealed |-> 0]

FilesInit ==
  /\ env = 0 /\ created = 0 /\ running = Down /\ sealed = 0
  /\ setups = [c \in Setups |-> IdleRun] /\ places = [p \in Places |-> Free]
  /\ saved = FALSE /\ lost = FALSE

-----------------------------------------------------------------------------
(* The setup: it reads the file, asks, and rewrites the file in place.       *)

ReadsFile(c) ==
  /\ setups[c].at = "idle" /\ env # Torn
  /\ setups' = [setups EXCEPT ![c] = [at |-> "asks", secret |-> 0, read |-> env]]
  /\ UNCHANGED <<env, created, running, sealed, places, saved, lost>>

(* An answer that is not valid, or a file that is not to be overwritten.     *)
Declines(c) ==
  /\ setups[c].at = "asks"
  /\ setups' = [setups EXCEPT ![c] = IdleRun]
  /\ UNCHANGED <<env, created, running, sealed, places, saved, lost>>

(* The secret that was read is kept; else one is created.                    *)
FreshAlways(read) == created + 1
SessionSecret(read) == IF read # 0 THEN read ELSE created + 1

Truncates(c) ==
  /\ setups[c].at = "asks"
  /\ LET secret == SessionSecret(setups[c].read) IN
       /\ secret <= MaxSecrets
       /\ created' = IF secret > created THEN secret ELSE created
       /\ setups' = [setups EXCEPT ![c].at = "writes", ![c].secret = secret]
  /\ env' = 0
  /\ UNCHANGED <<running, sealed, places, saved, lost>>

Writes(c) ==
  /\ setups[c].at = "writes"
  /\ env' = setups[c].secret /\ saved' = TRUE
  /\ lost' = (lost \/ (saved /\ setups[c].read = 0))
  /\ setups' = [setups EXCEPT ![c] = IdleRun]
  /\ UNCHANGED <<created, running, sealed, places>>

(* Nothing was written, or a part: the next run may take the first half of a *)
(* secret for one, if it is long enough.                                     *)
Interrupted(c) ==
  /\ setups[c].at = "writes"
  /\ \/ env' \in Unread /\ UNCHANGED created
     \/ created < MaxSecrets /\ env' = created + 1 /\ created' = created + 1
  /\ saved' = (saved \/ env' \notin Unread)
  /\ lost' = (lost \/ saved)
  /\ setups' = [setups EXCEPT ![c] = IdleRun]
  /\ UNCHANGED <<running, sealed, places>>

(* The owner removes a file that cannot be read.                             *)
RemovesTorn ==
  /\ env = Torn /\ env' = 0
  /\ UNCHANGED <<created, setups, running, sealed, places, saved, lost>>

-----------------------------------------------------------------------------
(* The server reads the file when it starts, and seals what it saves.        *)

Copying == \E p \in Places : places[p].at \in {"state", "config"}

Starts ==
  /\ running = Down /\ ~Copying /\ env # Torn
  /\ running' = env
  /\ UNCHANGED <<env, created, setups, sealed, places, saved, lost>>

Stops ==
  /\ running # Down /\ running' = Down
  /\ UNCHANGED <<env, created, setups, sealed, places, saved, lost>>

Seals ==
  /\ running \notin {Down, 0}
  /\ sealed' = running
  /\ UNCHANGED <<env, created, setups, running, places, saved, lost>>

-----------------------------------------------------------------------------
(* createUpdateBackup(), with the server stopped: the state, then the file,  *)
(* then the manifest, after which all of it is verified.                     *)

CopiesState(p) ==
  /\ running = Down /\ ~Copying /\ places[p].at = "free"
  /\ places' = [places EXCEPT ![p] = [at |-> "state", secret |-> 0, sealed |-> sealed]]
  /\ UNCHANGED <<env, created, setups, running, sealed, saved, lost>>

CopiesConfig(p) ==
  /\ places[p].at = "state"
  /\ places' = [places EXCEPT ![p].at = "config", ![p].secret = env]
  /\ UNCHANGED <<env, created, setups, running, sealed, saved, lost>>

Lists(p) ==
  /\ places[p].at = "config"
  /\ places' = [places EXCEPT ![p].at = "verified"]
  /\ UNCHANGED <<env, created, setups, running, sealed, saved, lost>>

(* Without its manifest, or with files that are not those it lists, a        *)
(* directory is refused; a new one is needed.                                *)
Abandons(p) ==
  /\ places[p].at \in {"state", "config"}
  /\ places' = [places EXCEPT ![p].at = "refused"]
  /\ UNCHANGED <<env, created, setups, running, sealed, saved, lost>>

(* restoreUpdateBackup(): a verified directory into a new one.               *)
Restores(p, q) ==
  /\ places[p].at = "verified" /\ places[q].at = "free"
  /\ \E end \in {"verified", "refused"} : places' = [places EXCEPT ![q] = [places[p] EXCEPT !.at = end]]
  /\ UNCHANGED <<env, created, setups, running, sealed, saved, lost>>

(* The owner puts a restored directory into service.                         *)
Adopts(p) ==
  /\ running = Down /\ ~Copying
  /\ places[p].at = "verified" /\ places[p].secret \notin Unread
  /\ env' = places[p].secret /\ sealed' = places[p].sealed
  /\ UNCHANGED <<created, setups, running, places, saved, lost>>

FilesNext ==
  \/ \E c \in Setups : ReadsFile(c) \/ Declines(c) \/ Truncates(c) \/ Writes(c) \/ Interrupted(c)
  \/ RemovesTorn
  \/ Starts \/ Stops \/ Seals
  \/ \E p \in Places : CopiesState(p) \/ CopiesConfig(p) \/ Lists(p) \/ Abandons(p) \/ Adopts(p)
  \/ \E p, q \in Places : Restores(p, q)

FilesSpec == FilesInit /\ [][FilesNext]_filesVars
-----------------------------------------------------------------------------
(* setup-community.mjs:169, update-backup.mjs:74-79: what is sealed under a  *)
(* secret is never left with another one, in service, in a backup or in a    *)
(* directory restored from it, however often setup is run and whenever the   *)
(* backup falls between its steps; unless a setup was interrupted, or found  *)
(* no secret where another had saved one, as two first runs at once do.      *)
Pairs(secret, sealedBy) == secret \in Unread \/ sealedBy \in {0, secret}

SealedStaysReadable ==
  ~lost => /\ Pairs(env, sealed)
           /\ \A p \in Places : places[p].at = "verified" => Pairs(places[p].secret, places[p].sealed)
=============================================================================
