CONSTANTS
  Sessions = {a, b, c}
  Invocations = {i1, i2, i3}
  States = {o1, o2, o3, o4}
  MaxCached = 2
  IdleTTL = 1
  MaxTime = 2
  NoSession = NoSession
  NoState = NoState
  Nobody = Nobody
  r1 = r1
  r2 = r2
  r3 = r3
  main = main
  worker = worker
  Requests = {r1, r2, r3}
  Loops = {main, worker}
  LoopOf <- MCLoopOf
  MaxTokens = 2
  NoLoop = NoLoop
  Conversations = {c1, c2}
  MaxTurns = 3
  MaxRounds = 2
  NoConversation = NoConversation
  MaxLogins = 3
  Accounts = {u1, u2}
  NoUser = NoUser
  Documents = {d1, d2, d3}
  MaxRuns = 4
  NoDocument = NoDocument
  OrderIds = {1, 2}
  Deals <- MCDeals
  Days = 2
  Window = 1
  IdleDays = 1
  NoOne = NoOne
  CategoryName <- MCCategoryName
  MaxCapacity <- MCMaxCapacity
  Corrections <- MCCorrections
  MaxCounts = 2
  MaxInactive = 1
  TopRows = 1
  RecentRows = 1
  LastDays = 0
  MonthDays = 1
  Snapshots <- MCSnapshots
  Selections <- MCSelections
  MaxPieces = 1
  MaxAnswers = 2
  All = All
  Null = Null
CHECK_DEADLOCK FALSE
SPECIFICATION MCSpec
VIEW MCView
INVARIANT ClientIsOfTheRunningLoop
