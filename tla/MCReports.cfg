CONSTANTS
  Goods = {1, 2}
  Sites = {1, 2, 3}
  Stocks <- MCStocks
  Rooms = {1, Unlimited}
  Unlimited = Unlimited
  OrderIds = {1, 2}
  Deals <- MCDeals
  Days = 3
  Window = 1
  IdleDays = 2
  NoOne = NoOne
  Suppliers = {1, 2, 3}
  Prices = {1, 3}
  Rates = {0, 2}
  Histories = {2, 4}
  Unavailable = Unavailable
  Stores = {1, 2, 3}
  Shelves <- MCShelves
  Openings <- MCOpenings
  Capacities <- MCCapacities
  Unbounded = Unbounded
  Advisors = {a1, a2}
  IdleTime = 2
  Horizon = 1
  Fields <- MCFields
  Blocks <- MCBlocks
  LineItems <- MCLineItems
  Dated <- MCDated
  MaxFields = 2
  MaxBlocks = 1
  MaxRows = 2
  Undefined = Undefined
  Catalogue = {1, 2, 3, 4}
  NameOf <- MCNameOf
  CategoryOf <- MCCategoryOf
  Numerals = {"22", "24"}
  ExtractedNames <- MCNames
  Lists <- MCLists
  Proposals <- MCProposals
  NoProposal = NoProposal
  NoCategory = NoCategory
  Papers = {d1, d2}
  Contents <- MCContents
  Likeness <- MCLikeness
  NoParty = NoParty
  Switchable = {2, 3}
  NotUploaded = NotUploaded
  NoDate = NoDate
  NoPrice = NoPrice
  r1 = r1
  r2 = r2
  w1 = w1
  p1 = 1
  p2 = 2
  Rows <- MCRows
  ProductOf <- MCProductOf
  WarehouseOf <- MCWarehouseOf
  PageOf = w1
  Txns = {t1}
  Plans <- MCPlans
  Adjustments <- OneLess
  OpeningStock <- Stock
  Thresholds = {0, 2}
  Orders <- MCOrders
  Unread = Unread
  Nowhere = Nowhere
  OldTables <- MCOldTables
  MaxCommits = 1
  Entities = {1, 2}
  OrderSlots = {o1, o2}
  Reserving = {o1}
  Wants <- MCWants
  Clients = {c1, c2}
CHECK_DEADLOCK FALSE
SPECIFICATION MCSpec
SYMMETRY MCSymmetry
INVARIANTS
  ReportsAreTrueOrRaced ReferencesResolve PlanIsSound ReportsAgree BetterRanksFirst
  NothingIsInvented HintsAreSound AdviceIsSound DemoIsSound
PROPERTIES
  OnlyAdjustmentsOversell NewUsesWereActive
