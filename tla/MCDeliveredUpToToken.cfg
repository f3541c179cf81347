\* One request at a time: a batch boundary between rows of the same millisecond.
SPECIFICATION Spec
CONSTANTS
  Server = Server
  NoRow = NoRow
  NoTag = NoTag
  BookmarkType = BookmarkType
  PreferenceType = PreferenceType
  PreferenceTag = PreferenceTag
  HistoryType = HistoryType
  HistoryDeleteType = HistoryDeleteType
  DeviceInfoType = DeviceInfoType
  NigoriType = NigoriType
  NigoriTag = NigoriTag
  BookmarkTag = BookmarkTag
  ClientTags = {PreferenceTag}
  Ids <- MCIds
  Types <- MCTypes
  TypeOf <- MCTypeOf
  TagOf <- MCTagOf
  Budget <- MCBudget
  Devices = {d1, d2}
  Slots = {s1}
  Bookmarks = {b1, b2}
  Preferences = {}
  HistoryItems = {}
  Directives = {}
  DeviceInfos = {}
  NigoriFolders = {}
  BookmarkFolders = {}
  ServerTags = {NigoriTag}
  MaxObjects = 10
  MaxHistory = 2
  MaxDevices = 2
  MaxGUBatch = 1
  MaxEntries = 2
  RoundTrip = 1
  StampGap = 0
  ClockGoesBack = FALSE
  MaxClock = 1
  Serial = TRUE
  EditTombstones = FALSE
  OriginsSent = {"GU_TRIGGER"}
  Commits = 1
  GetUpdates = 1
  Clears = 0
  StoreErrors = 0
  GiveUps = 0
  Crashes = 0
  Expiries = 0
SYMMETRY Symmetry
INVARIANTS
  DeliveredUpToToken
