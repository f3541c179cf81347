\* One request at a time: commits of ordinary and history entities against small quotas.
SPECIFICATION Spec
CONSTANTS
  Server = Server
  NoRow = NoRow
  NoTag = NoTag
  BookmarkType = BookmarkType
  PreferenceType = PreferenceType
  PreferenceTag = PreferenceTag
  HistoryType = HistoryType
  HistoryDeleteType = HistoryDeleteType
  DeviceInfoType = DeviceInfoType
  NigoriType = NigoriType
  NigoriTag = NigoriTag
  BookmarkTag = BookmarkTag
  ClientTags = {PreferenceTag}
  Ids <- MCIds
  Types <- MCTypes
  TypeOf <- MCTypeOf
  TagOf <- MCTagOf
  Budget <- MCBudget
  Devices = {d1, d2}
  Slots = {s1}
  Bookmarks = {b1, b2}
  Preferences = {}
  HistoryItems = {h1, h2}
  Directives = {x1}
  DeviceInfos = {}
  NigoriFolders = {}
  BookmarkFolders = {}
  ServerTags = {NigoriTag}
  MaxObjects = 2
  MaxHistory = 1
  MaxDevices = 2
  MaxGUBatch = 3
  MaxEntries = 2
  RoundTrip = 1
  StampGap = 1
  ClockGoesBack = FALSE
  MaxClock = 1
  Serial = TRUE
  EditTombstones = FALSE
  OriginsSent = {"GU_TRIGGER"}
  Commits = 3
  GetUpdates = 0
  Clears = 0
  StoreErrors = 0
  GiveUps = 0
  Crashes = 0
  Expiries = 0
SYMMETRY Symmetry
INVARIANTS
  CountsExact
  QuotaHeld
