\* Two new clients create the root folders at the same time; a call fails, the process
\* crashes and the chain is cleared.
SPECIFICATION Spec
CONSTANTS
  Server = Server
  NoRow = NoRow
  NoTag = NoTag
  BookmarkType = BookmarkType
  PreferenceType = PreferenceType
  PreferenceTag = PreferenceTag
  HistoryType = HistoryType
  HistoryDeleteType = HistoryDeleteType
  DeviceInfoType = DeviceInfoType
  NigoriType = NigoriType
  NigoriTag = NigoriTag
  BookmarkTag = BookmarkTag
  ClientTags = {PreferenceTag}
  Ids <- MCIds
  Types <- MCTypes
  TypeOf <- MCTypeOf
  TagOf <- MCTagOf
  Budget <- MCBudget
  Devices = {d1, d2}
  Slots = {s1}
  Bookmarks = {}
  Preferences = {}
  HistoryItems = {}
  Directives = {}
  DeviceInfos = {}
  NigoriFolders = {n1, n2}
  BookmarkFolders = {f1, f2}
  ServerTags = {NigoriTag, BookmarkTag}
  MaxObjects = 10
  MaxHistory = 2
  MaxDevices = 2
  MaxGUBatch = 3
  MaxEntries = 1
  RoundTrip = 1
  StampGap = 0
  ClockGoesBack = TRUE
  MaxClock = 2
  Serial = FALSE
  EditTombstones = FALSE
  OriginsSent = {"NEW_CLIENT"}
  Commits = 0
  GetUpdates = 2
  Clears = 1
  StoreErrors = 1
  GiveUps = 0
  Crashes = 1
  Expiries = 0
SYMMETRY Symmetry
INVARIANTS
  FoldersAllOrNone
