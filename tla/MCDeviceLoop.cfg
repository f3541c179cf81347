\* More device records than fit in a page.
SPECIFICATION FairSpec
CONSTANTS
  Server = Server
  NoRow = NoRow
  NoTag = NoTag
  BookmarkType = BookmarkType
  PreferenceType = PreferenceType
  PreferenceTag = PreferenceTag
  HistoryType = HistoryType
  HistoryDeleteType = HistoryDeleteType
  DeviceInfoType = DeviceInfoType
  NigoriType = NigoriType
  NigoriTag = NigoriTag
  BookmarkTag = BookmarkTag
  ClientTags = {PreferenceTag}
  Ids <- MCIds
  Types <- MCTypes
  TypeOf <- MCTypeOf
  TagOf <- MCTagOf
  Budget <- MCBudget
  Devices = {d1}
  Slots = {s1}
  Bookmarks = {}
  Preferences = {}
  HistoryItems = {}
  Directives = {}
  DeviceInfos = {i1, i2}
  NigoriFolders = {n1}
  BookmarkFolders = {}
  ServerTags = {NigoriTag}
  MaxObjects = 10
  MaxHistory = 2
  MaxDevices = 2
  MaxGUBatch = 1
  MaxEntries = 1
  RoundTrip = 1
  StampGap = 0
  ClockGoesBack = FALSE
  MaxClock = 2
  Serial = TRUE
  EditTombstones = FALSE
  OriginsSent = {"NEW_CLIENT"}
  Commits = 4
  GetUpdates = 1
  Clears = 0
  StoreErrors = 0
  GiveUps = 0
  Crashes = 0
  Expiries = 0
PROPERTIES
  RequestsAnswered
