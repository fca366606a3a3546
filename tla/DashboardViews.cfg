\* Two plans and one logout; two shops, two emails and two contents of each;
\* two messages; two shops with a report; two shops and two editions of the
\* agreement; and three overlapping requests over two rotations.
CONSTANTS
  Nothing = Nothing
  MaxPlan = 2
  MaxLogouts = 1
  Shops = {s1, s2}
  Mails = {e1, e2}
  Copies = {c1, c2}
  NoMail = NoMail
  Messages = {m1, m2}
  Welcome = welcome
  NoList = NoList
  ReportShops = {s1, s2}
  Absent = Absent
  KeyShops = {s1, s2}
  NoDocument = NoDocument
  MaxEdition = 1
  Requests = {a, b, c}
  Reuse = 1
  Patience = 2
  Life = 6
  Skew = 1
  MaxPair = 2
  MaxTime = 12
  PageShops = {s1, s2}
  MaxPage = 2
  MaxListings = 2
  NoPayload = NoPayload
  HealthShops = {s1, s2}
  Interval = 2
  AnswerTime = 1
  RetryDelay = 1
  FreshFor = 1
  MaxRestarts = 4
  NoHealth = NoHealth
  MaxLogins = 2
  MaxReturns = 3
  NoCookie = NoCookie
  Same = Same
  Uuids = {u1, u2}
  Primary = u1
  Slugs = {n1, n2}
  SetupRequests = {r1, r2}
  MaxInstallations = 3
  MaxSetups = 2
  Root = Root
  Unset = Unset
  SettingShops = {s1, s2}
  MaxLists = 1
  MaxOpenings = 2
  MaxTasks = 1
  NoSettings = NoSettings
  Sponsors = {p1, p2}
  Sections = {d1, d2}
  MaxOffers = 3
  MaxSupports = 3
  NoOffer = NoOffer
  FirstShops = {s1, s2}
  MaxConnects = 3
  NoShop = NoShop
  Tabs = {t1, t2}
  Plans = {starter, pro}
  Cycles = {monthly}
  Unpriced = Unpriced
  IntentLife = 0
  MaxIntents = 2
  MaxHours = 1
SPECIFICATION DashboardSpec
CHECK_DEADLOCK FALSE
INVARIANTS
  ReadStaysRead
  ConsentIsToWhatWasShown
  ShownIsOfTheChoice
  GreenIsRecent
  CodeMeetsItsVerifier
  VaultIsOfItsShop
  StepsAreReal
  PurchasesAreMadeOnce
PROPERTIES
  SessionGoesForward
  ShownIsNewest
  ErrorsAreRetried
  ApprovedWasPreviewed
  OfferIsKept
