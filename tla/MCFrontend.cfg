CONSTANTS
  appShell = appShell
  sidebar = sidebar
  controlled = controlled
  own = own
  listener = listener
  NoProvider = NoProvider
  Providers <- MCProviders
  Trees <- MCTrees
  Earlier <- MCEarlier
  Mode <- MCMode
  Collapsible <- MCCollapsible
  Clicks <- MCClicks
  CollapsedAction <- MCCollapsedAction
  DefaultOpen <- MCDefaultOpen
  Widths <- MCWidths
  Pages <- MCPages
  PageTree <- MCPageTree
  Bundle <- MCBundle
  MaxVisits = 2
  a = a
  b = b
  c = c
  Records <- MCRecords
  Contents <- MCContents
  SortKey <- MCSortKey
  Filters = {"all", "some"}
  Passes <- MCPasses
  PageSizes = {1, 2}
  FirstSize = 2
  Accessors = {"name"}
  DisplayOnly = {"actions"}
  ShowColumnVisibility = TRUE
  Values = {1, 2}
  NoValue = 0
  Undefined = Undefined
SPECIFICATION MCSpec
INVARIANTS BrowserTypeOK FreshHandlers CookieOfLastWriter HookFollowsViewport
  PageInRange SelectionFollowsRecords SliderShowsItsThumb
PROPERTIES AnswersFitTheBundle PhoneLeavesTheCookie AlertNeedsAnswer PhoneLayoutComes
