---------------------------- MODULE ServerCopies ----------------------------
(* What the server keeps a copy of: for the dashboard and the Cloud, the     *)
(* emails it has sent and the order histories it has read; for its owner,    *)
(* the secret and the credentials sealed by it.  They share nothing a        *)
(* property here speaks of, so each behaviour exercises one of them.         *)
EXTENDS EmailArchive, OrderHistory, InstallationFiles

LOCAL INSTANCE TLC

VARIABLE copied  \* the one a behaviour exercises

copiesVars == <<copied, archiveVars, historyVars, filesVars>>

CopiesInit ==
  /\ copied \in {"emails", "orders", "files"}
  /\ ArchiveInit /\ HistoryInit /\ FilesInit

CopiesNext ==
  /\ UNCHANGED copied
  /\ \/ copied = "emails" /\ ArchiveNext /\ UNCHANGED <<historyVars, filesVars>>
     \/ copied = "orders" /\ HistoryNext /\ UNCHANGED <<archiveVars, filesVars>>
     \/ copied = "files" /\ FilesNext /\ UNCHANGED <<archiveVars, historyVars>>

CopiesSpec == CopiesInit /\ [][CopiesNext]_copiesVars

(* Copies, workers and bindings are interchangeable; deliveries and accounts *)
(* are not: their numbers order them.                                        *)
Symmetric == Permutations(Copies) \union Permutations(Workers) \union Permutations(Bindings)
=============================================================================
