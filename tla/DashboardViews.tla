--------------------------- MODULE DashboardViews ---------------------------
(* What one browser does with the Cloud through the Next.js server: the      *)
(* views of the dashboard, whose requests overlap with those of the user and *)
(* with their own timers, the login that leads to them, the setup they begin *)
(* and the session all of them carry.  They keep their state to themselves,  *)
(* so each behaviour exercises one of them.                                  *)
EXTENDS EntitlementView, EmailReview, MemberInbox, AgentReport, ConnectorConsent,
        EvidencePages, SyncHealthView, ShopSettings, FundingOffer, PlanChange,
        LoginFlow, FirstSteps, WorkspaceSetup, SessionRefresh

VARIABLE view  \* the one a behaviour exercises

memberVars == <<viewVars, reviewVars, inboxVars, fundingVars, planVars>>
shopVars == <<reportVars, consentVars, evidenceVars, healthVars, settingsVars>>
entryVars == <<loginVars, firstVars, setupVars, sessionVars>>
dashboardVars == <<view, memberVars, shopVars, entryVars>>

Views == {"entitlements", "review", "inbox", "funding", "plan",
          "report", "consent", "evidence", "health", "settings",
          "login", "first", "setup", "session"}

(* The views that are not exercised begin in one way.                        *)
DashboardInit ==
  /\ view \in Views
  /\ ViewInit /\ (view # "entitlements" => ~confirming)
  /\ ReviewInit /\ (view # "review" => shop = CHOOSE s \in Shops : TRUE)
  /\ InboxInit /\ (view # "inbox" => kept)
  /\ FundingInit /\ (view # "funding" => section = (CHOOSE d \in Sections : TRUE) /\ last = NoOffer)
  /\ PlanInit
  /\ view # "plan" => /\ stores = "none"
                      /\ page = [t \in Tabs |-> CHOOSE p \in {Opened(s[1], s[2]) : s \in Selections} : TRUE]
  /\ ReportInit /\ (view # "report" => selected = CHOOSE s \in ReportShops : TRUE)
  /\ ConsentInit
  /\ view # "consent" => open = CHOOSE p \in [shop : KeyShops, french : {FALSE}, connector : {FALSE}] : TRUE
  /\ EvidenceInit /\ (view # "evidence" => list = "audit")
  /\ HealthInit
  /\ SettingsInit /\ LoginInit
  /\ FirstInit /\ (view # "first" => stored = {} /\ featured)
  /\ SetupInit /\ (view # "setup" => linkedAs[Primary].slug = CHOOSE n \in Slugs : TRUE)
  /\ SessionInit

(* The views of what the member has.                                         *)
MemberNext ==
  \/ view = "entitlements" /\ ViewNext /\ UNCHANGED <<reviewVars, inboxVars, fundingVars, planVars>>
  \/ view = "review" /\ ReviewNext /\ UNCHANGED <<viewVars, inboxVars, fundingVars, planVars>>
  \/ view = "inbox" /\ InboxNext /\ UNCHANGED <<viewVars, reviewVars, fundingVars, planVars>>
  \/ view = "funding" /\ FundingNext /\ UNCHANGED <<viewVars, reviewVars, inboxVars, planVars>>
  \/ view = "plan" /\ PlanNext /\ UNCHANGED <<viewVars, reviewVars, inboxVars, fundingVars>>

(* Those of what each shop has.                                              *)
ShopNext ==
  \/ view = "report" /\ ReportNext /\ UNCHANGED <<consentVars, evidenceVars, healthVars, settingsVars>>
  \/ view = "consent" /\ ConsentNext /\ UNCHANGED <<reportVars, evidenceVars, healthVars, settingsVars>>
  \/ view = "evidence" /\ EvidenceNext /\ UNCHANGED <<reportVars, consentVars, healthVars, settingsVars>>
  \/ view = "health" /\ HealthNext /\ UNCHANGED <<reportVars, consentVars, evidenceVars, settingsVars>>
  \/ view = "settings" /\ SettingsNext /\ UNCHANGED <<reportVars, consentVars, evidenceVars, healthVars>>

EntryNext ==
  \/ view = "login" /\ LoginNext /\ UNCHANGED <<firstVars, setupVars, sessionVars>>
  \/ view = "first" /\ FirstNext /\ UNCHANGED <<loginVars, setupVars, sessionVars>>
  \/ view = "setup" /\ SetupNext /\ UNCHANGED <<loginVars, firstVars, sessionVars>>
  \/ view = "session" /\ SessionNext /\ UNCHANGED <<loginVars, firstVars, setupVars>>

DashboardNext ==
  /\ UNCHANGED view
  /\ \/ MemberNext /\ UNCHANGED <<shopVars, entryVars>>
     \/ ShopNext /\ UNCHANGED <<memberVars, entryVars>>
     \/ EntryNext /\ UNCHANGED <<memberVars, shopVars>>

DashboardSpec == DashboardInit /\ [][DashboardNext]_dashboardVars /\ ViewFairness
-----------------------------------------------------------------------------
(* What a view shows is of what is selected in it: pages of evidence, the    *)
(* settings of the supervisor, the rules and the key of a shop, the price of *)
(* a plan; whatever was asked for before something else was selected and is  *)
(* answered afterwards.                                                      *)
ShownIsOfTheChoice ==
  EvidenceIsOfTheChoice /\ SettingsAreOfTheirShop /\ SettingsAreOfTheActiveShop /\ PriceIsOfTheChoice
=============================================================================
