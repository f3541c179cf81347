\* Every request is answered when all device records fit in a page.
SPECIFICATION FairSpec
CONSTANTS
  Server = Server
  NoRow = NoRow
  NoTag = NoTag
  BookmarkType = BookmarkType
  PreferenceType = PreferenceType
  PreferenceTag = PreferenceTag
  HistoryType = HistoryType
  HistoryDeleteType = HistoryDeleteType
  DeviceInfoType = DeviceInfoType
  NigoriType = NigoriType
  NigoriTag = NigoriTag
  BookmarkTag = BookmarkTag
  ClientTags = {PreferenceTag}
  Ids <- MCIds
  Types <- MCTypes
  TypeOf <- MCTypeOf
  TagOf <- MCTagOf
  Budget <- MCBudget
  Devices = {d1, d2}
  Slots = {s1}
  Bookmarks = {}
  Preferences = {}
  HistoryItems = {}
  Directives = {}
  DeviceInfos = {i1}
  NigoriFolders = {n1, n2}
  BookmarkFolders = {}
  ServerTags = {NigoriTag}
  MaxObjects = 10
  MaxHistory = 2
  MaxDevices = 2
  MaxGUBatch = 1
  MaxEntries = 1
  RoundTrip = 1
  StampGap = 0
  ClockGoesBack = FALSE
  MaxClock = 2
  Serial = FALSE
  EditTombstones = FALSE
  OriginsSent = {"NEW_CLIENT"}
  Commits = 2
  GetUpdates = 1
  Clears = 1
  StoreErrors = 1
  GiveUps = 0
  Crashes = 0
  Expiries = 0
PROPERTIES
  RequestsAnswered
