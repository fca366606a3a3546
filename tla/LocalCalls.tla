----------------------------- MODULE LocalCalls -----------------------------
(* How the Cloud and the shop's software reach what is kept locally: signed  *)
(* requests to the endpoints of the vault, and the commands the relay        *)
(* fetches and answers one at a time (scripts/server-data-relay.mjs), for    *)
(* private states, the catalogue and live facts.  They share no state a      *)
(* property here speaks of, so each behaviour exercises one of them.         *)
EXTENDS SignedRequests, PrivateState, CatalogPages, LiveReads

LOCAL INSTANCE TLC

VARIABLE part  \* the one a behaviour exercises

callsVars == <<part, requestVars, privateVars, catalogVars, liveVars>>

CallsInit ==
  /\ part \in {"requests", "states", "catalogue", "live"}
  /\ RequestInit /\ PrivateInit /\ CatalogInit /\ LiveInit
  /\ part # "requests" => \A g, h \in Handlers : message[g] = message[h]
  /\ part # "live" => connector = CHOOSE c \in Connectors : TRUE

CallsNext ==
  /\ UNCHANGED part
  /\ \/ part = "requests" /\ RequestNext /\ UNCHANGED <<privateVars, catalogVars, liveVars>>
     \/ part = "states" /\ PrivateNext /\ UNCHANGED <<requestVars, catalogVars, liveVars>>
     \/ part = "catalogue" /\ CatalogNext /\ UNCHANGED <<requestVars, privateVars, liveVars>>
     \/ part = "live" /\ LiveNext /\ UNCHANGED <<requestVars, privateVars, catalogVars>>

CallsSpec == CallsInit /\ [][CallsNext]_callsVars

(* Messages and handlers are interchangeable.                                *)
Symmetric == Permutations(Messages) \union Permutations(Handlers)
=============================================================================
