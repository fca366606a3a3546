----------------------------- MODULE ShopSettings -----------------------------
(* The settings of a shop (components/CloudConfiguration.tsx): the rules of  *)
(* its emails, samples written by them and the status of its AI key.  One    *)
(* flag keeps the user from another operation or another shop while one is   *)
(* under way; but it is cleared by whichever ends first, and lists of the    *)
(* shops, which may come without the one selected, do not take it.           *)
EXTENDS Naturals, FiniteSets

CONSTANTS
  SettingShops,  \* of the member
  MaxLists,      \* bound: lists of the shops under way
  MaxOpenings,   \* bound: loads of a shop's settings under way
  MaxTasks,      \* bound: other operations under way
  NoSettings     \* no shop, nothing read

ASSUME SettingsAssumption == {MaxLists, MaxOpenings, MaxTasks} \subseteq Nat

VARIABLES
  active,    \* the shop selected
  rules,     \* in the form: of which shop, NoSettings for the defaults
  samples,   \* shown: of which shop
  keyStatus, \* shown: of which shop
  occupied,  \* the flag
  opening,   \* loads of all of a shop's settings: the parts still to come
  tasks,     \* other operations under way
  lists,     \* lists of the shops under way
  uncovered  \* a write has gone on without the flag, or for another shop

shownSettings == <<rules, samples, keyStatus>>
settingsVars == <<active, shownSettings, occupied, opening, tasks, lists, uncovered>>

(* The third, the state of the local synchronization, shows none of them.    *)
Parts == {"rules", "key", "sync"}

SettingsInit ==
  /\ active = NoSettings /\ rules = NoSettings /\ samples = NoSettings /\ keyStatus = NoSettings
  /\ occupied = FALSE /\ opening = {} /\ tasks = {} /\ lists = 1 /\ uncovered = FALSE

(* What loadEmailProfile() and loadByokStatus() ask before they show it.     *)
ForAny(shop) == TRUE
StillActive(shop) == shop = active

(* Another shop: everything is cleared, and asked for.                       *)
Opens(shop) ==
  /\ Cardinality(opening) < MaxOpenings
  /\ active' = shop
  /\ rules' = NoSettings /\ samples' = NoSettings /\ keyStatus' = NoSettings
  /\ occupied' = (shop # NoSettings)
  /\ opening' = IF shop = NoSettings THEN opening
                ELSE opening \union {[shop |-> shop, due |-> Parts, held |-> TRUE]}

-----------------------------------------------------------------------------
(* The shops.                                                                *)

(* loadShops(): the shop selected stays so while it is among them.           *)
TakeList(flag) ==
  \E items \in SUBSET SettingShops :
    IF active \in items \/ (items = {} /\ active = NoSettings)
    THEN occupied' = flag /\ UNCHANGED <<active, shownSettings, opening>>
    ELSE \E shop \in IF items = {} THEN {NoSettings} ELSE items : Opens(shop)

RefreshShops ==
  /\ ~occupied /\ active # NoSettings /\ lists < MaxLists
  /\ lists' = lists + 1
  /\ UNCHANGED <<active, shownSettings, occupied, opening, tasks>>

ListReceived ==
  /\ lists > 0 /\ lists' = lists - 1
  /\ \/ TakeList(occupied)
     \/ UNCHANGED <<active, shownSettings, occupied, opening>>
  /\ UNCHANGED tasks

SwitchShop(shop) ==
  /\ ~occupied /\ active # NoSettings /\ shop # active
  /\ Opens(shop)
  /\ UNCHANGED <<tasks, lists>>

-----------------------------------------------------------------------------
(* The load of a shop: its flag is cleared by the last part, or by the first *)
(* that fails; the others come all the same.                                 *)

Cleared(shop) == IF shop = active THEN FALSE ELSE occupied

PartArrives(o, part) ==
  /\ o \in opening /\ part \in o.due
  /\ LET rest == [o EXCEPT !.due = @ \ {part}] IN
       IF rest.due # {}
       THEN opening' = (opening \ {o}) \union {rest} /\ UNCHANGED occupied
       ELSE opening' = opening \ {o} /\ occupied' = IF o.held THEN Cleared(o.shop) ELSE occupied
  /\ rules' = IF part = "rules" /\ StillActive(o.shop) THEN o.shop ELSE rules
  /\ samples' = IF part = "rules" /\ StillActive(o.shop) THEN NoSettings ELSE samples
  /\ keyStatus' = IF part = "key" /\ StillActive(o.shop) THEN o.shop ELSE keyStatus
  /\ UNCHANGED <<active, tasks, lists>>

PartFails(o, part) ==
  /\ o \in opening /\ part \in o.due
  /\ LET rest == [o EXCEPT !.due = @ \ {part}, !.held = FALSE]
     IN opening' = IF rest.due = {} THEN opening \ {o} ELSE (opening \ {o}) \union {rest}
  /\ occupied' = IF o.held THEN Cleared(o.shop) ELSE occupied
  /\ UNCHANGED <<active, shownSettings, tasks, lists>>

-----------------------------------------------------------------------------
(* Operations: the rules of another language are read ("locale") or saved    *)
(* ("rules"), saved and then a sample asked for ("sample", "show"); a key is *)
(* stored ("key"), its status read ("status"), or changed and then read      *)
(* ("change"); a connector's key is issued and synchronization set up with   *)
(* it ("issue"), after which the shops are listed ("list").  Synchronization *)
(* set up by itself changes none of what is shown, and ends like a failure.  *)

Operate(kind) ==
  /\ ~occupied /\ active # NoSettings /\ Cardinality(tasks) < MaxTasks
  /\ kind = "sample" => keyStatus # NoSettings
  /\ occupied' = TRUE
  /\ tasks' = tasks \union {[kind |-> kind, shop |-> active]}
  /\ UNCHANGED <<active, shownSettings, opening, lists>>

Continues(t, kind) == tasks' = (tasks \ {t}) \union {[t EXCEPT !.kind = kind]}
EndsTask(t) == tasks' = tasks \ {t} /\ occupied' = FALSE

RulesAnswered(t) ==
  \/ /\ t.kind = "locale" /\ EndsTask(t)
     /\ IF StillActive(t.shop) THEN rules' = t.shop /\ samples' = NoSettings ELSE UNCHANGED <<rules, samples>>
  \/ /\ t.kind = "rules" /\ EndsTask(t)
     /\ rules' = t.shop /\ samples' = NoSettings
  \/ /\ t.kind = "sample" /\ Continues(t, "show") /\ UNCHANGED occupied
     /\ rules' = t.shop /\ UNCHANGED samples
  \/ /\ t.kind = "show" /\ EndsTask(t)
     /\ samples' = t.shop /\ UNCHANGED rules

KeyAnswered(t) ==
  \/ /\ t.kind = "status" /\ EndsTask(t)
     /\ keyStatus' = IF StillActive(t.shop) THEN t.shop ELSE keyStatus
  \/ t.kind = "key" /\ EndsTask(t) /\ keyStatus' = t.shop
  \/ t.kind = "change" /\ Continues(t, "status") /\ UNCHANGED <<keyStatus, occupied>>

(* The setup, when there is one, clears the flag before the shops are        *)
(* listed.                                                                   *)
ConnectorAnswered(t) ==
  /\ t.kind = "issue" /\ Continues(t, "list")
  /\ occupied' \in {FALSE, occupied}

Answer(t) ==
  /\ t \in tasks
  /\ \/ RulesAnswered(t) /\ UNCHANGED keyStatus
     \/ KeyAnswered(t) /\ UNCHANGED <<rules, samples>>
     \/ ConnectorAnswered(t) /\ UNCHANGED shownSettings
  /\ UNCHANGED <<active, opening, lists>>

(* The end of it clears the flag, whoever has taken it meanwhile, unless     *)
(* another shop is opened by it.                                             *)
Relist(t) ==
  /\ t \in tasks /\ t.kind = "list" /\ tasks' = tasks \ {t}
  /\ TakeList(FALSE)
  /\ UNCHANGED lists

TaskFails(t) ==
  /\ t \in tasks /\ EndsTask(t)
  /\ UNCHANGED <<active, shownSettings, opening, lists>>

Operations == {"locale", "rules", "sample", "status", "key", "change", "issue"}

SettingsStep ==
  \/ RefreshShops \/ ListReceived
  \/ \E shop \in SettingShops : SwitchShop(shop)
  \/ \E o \in opening : \E part \in o.due : PartArrives(o, part) \/ PartFails(o, part)
  \/ \E kind \in Operations : Operate(kind)
  \/ \E t \in tasks : Answer(t) \/ Relist(t) \/ TaskFails(t)

Writes == {t \in tasks : t.kind \in {"rules", "sample", "show", "key"}}

SettingsNext ==
  /\ SettingsStep
  /\ uncovered' = (uncovered \/ (Writes \intersect tasks' # {} /\ (~occupied' \/ active' # active)))

SettingsSpec == SettingsInit /\ [][SettingsNext]_settingsVars
-----------------------------------------------------------------------------
(* CloudConfiguration.tsx:191, 203: the rules in the form, the samples and   *)
(* the status of the key are of the shop selected, so that what is saved     *)
(* next is saved for the shop it was read from, although the flag may be     *)
(* cleared while loads go on; unless it was cleared, or another shop         *)
(* selected, while something was being written, whose answer is then shown   *)
(* for whatever shop is selected.                                            *)
SettingsAreOfTheActiveShop ==
  ~uncovered => {rules, samples, keyStatus} \subseteq {NoSettings, active}
=============================================================================
