SPECIFICATION Spec
CONSTANTS
  Second = 2
  HalfRange = 1024
  CounterRange = 1024
  RouteLists <- MCRouteLists
  CustomLists <- MCCustomLists
  Destinations <- MCDestinations
  SettingCases <- MCSettingCases
  PanelSeconds <- MCPanelSeconds
  InboundCases <- MCInboundCases
  UserLists <- MCUserLists
  ReadingLists <- MCReadingLists
INVARIANTS
  RoutesKeepMeaning
  RuntimesBlockAlike
  TickersPanicOnlyOnOverflow
  MaterialNeverMixed
  ServesAnnouncedType
  UsersResolve
  ReportedSpeedsAddUp
CHECK_DEADLOCK FALSE
