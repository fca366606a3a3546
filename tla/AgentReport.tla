----------------------------- MODULE AgentReport -----------------------------
(* The report of a shop (components/AgentPerformance.tsx) and, inside it,    *)
(* the recommendations with the switch that lets the Cloud apply them        *)
(* (components/OptimizationRecommendations.tsx).  The report checks that an  *)
(* answer is the last one asked for; the panel inside applies its answers in *)
(* the order they come, and relies on the report to be taken down, with all  *)
(* its requests, when another shop is selected or loaded.  A shop is         *)
(* selected before the effects of the selection run.                         *)
EXTENDS Naturals

CONSTANTS
  ReportShops,  \* shops of the account
  Absent        \* no report, panel, setting or request

VARIABLES
  selected,   \* the shop selected
  due,        \* the effect that loads its report has not run yet
  fetching,   \* the last report asked for
  report,     \* the report shown: its shop
  panel,      \* the panel: setting shown, whether it loads, saves, and requests
  posted,     \* the last change of a setting: shop, value, shop it was read for
  automatic   \* Cloud: the setting of each shop

reportVars == <<selected, due, fetching, report, panel, posted, automatic>>

Fresh(shop) == [setting |-> Absent, loading |-> TRUE, saving |-> FALSE, asked |-> {shop}]

ReportInit ==
  /\ selected \in ReportShops /\ due = TRUE
  /\ fetching = Absent /\ report = Absent /\ panel = Absent /\ posted = Absent
  /\ automatic = [s \in ReportShops |-> FALSE]

(* Where the panel is rendered.                                              *)
Mounted == fetching = Absent /\ report = selected

(* A panel that is rendered again begins anew; otherwise it becomes p.       *)
PanelIs(p) ==
  panel' = IF ~Mounted' THEN Absent ELSE IF panel = Absent THEN Fresh(selected') ELSE p

-----------------------------------------------------------------------------
(* The report.                                                               *)

Select(s) ==
  /\ s # selected /\ selected' = s /\ due' = TRUE
  /\ UNCHANGED <<fetching, report, posted, automatic>>
  /\ PanelIs(panel)

(* The effect of a selection, "Refresh", another period, the minute's poll.  *)
Fetch ==
  /\ due' = FALSE /\ fetching' = selected
  /\ UNCHANGED <<selected, report, posted, automatic>>
  /\ PanelIs(panel)

(* The report of another shop than was asked for is an error.                *)
ReportArrives ==
  /\ fetching # Absent
  /\ report' \in {fetching, Absent} /\ fetching' = Absent
  /\ UNCHANGED <<selected, due, posted, automatic>>
  /\ PanelIs(panel)

-----------------------------------------------------------------------------
(* The panel.                                                                *)

PanelStep(p) == Mounted /\ UNCHANGED <<selected, due, fetching, report>> /\ PanelIs(p)

RecommendationsArrive ==
  \E s \in panel.asked, fine \in BOOLEAN :
    /\ PanelStep([panel EXCEPT !.loading = FALSE, !.asked = @ \ {s},
         !.setting = IF fine THEN [of |-> s, on |-> automatic[s]] ELSE Absent])
    /\ UNCHANGED <<posted, automatic>>

(* "Retry" after an error: of a load, or of a change.                        *)
RetryPanel ==
  /\ PanelStep([panel EXCEPT !.loading = TRUE, !.asked = @ \union {selected}])
  /\ UNCHANGED <<posted, automatic>>

(* toggleSupervisor(): the Cloud may take the change and the answer be lost. *)
Toggle ==
  /\ panel.setting # Absent /\ ~panel.loading /\ ~panel.saving
  /\ posted' = [shop |-> selected, on |-> ~panel.setting.on, of |-> panel.setting.of]
  /\ automatic' \in {automatic, [automatic EXCEPT ![selected] = ~panel.setting.on]}
  /\ PanelStep([panel EXCEPT !.saving = TRUE])

ToggleAnswered ==
  /\ panel.saving
  /\ \E saved \in {FALSE, automatic[posted.shop] = posted.on} :
       PanelStep([panel EXCEPT !.saving = FALSE,
         !.setting = IF saved /\ panel.setting # Absent THEN [panel.setting EXCEPT !.on = posted.on] ELSE @])
  /\ UNCHANGED <<posted, automatic>>

ReportNext ==
  \/ (\E s \in ReportShops : Select(s)) \/ Fetch \/ ReportArrives
  \/ (panel # Absent /\ (RecommendationsArrive \/ RetryPanel \/ Toggle \/ ToggleAnswered))

ReportSpec == ReportInit /\ [][ReportNext]_reportVars
-----------------------------------------------------------------------------
(* OptimizationRecommendations.tsx:107-122: the value posted for a shop is   *)
(* the opposite of what was read for that shop, whatever answers arrive      *)
(* while shops are selected.                                                 *)
SettingsAreOfTheirShop == posted # Absent => posted.shop = posted.of
=============================================================================
