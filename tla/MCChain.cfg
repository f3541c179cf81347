\* All handlers against the abstract chain: two entities of one unique tag, a history item,
\* root folders, and a clear.
SPECIFICATION Spec
CONSTANTS
  Server = Server
  NoRow = NoRow
  NoTag = NoTag
  BookmarkType = BookmarkType
  PreferenceType = PreferenceType
  PreferenceTag = PreferenceTag
  HistoryType = HistoryType
  HistoryDeleteType = HistoryDeleteType
  DeviceInfoType = DeviceInfoType
  NigoriType = NigoriType
  NigoriTag = NigoriTag
  BookmarkTag = BookmarkTag
  ClientTags = {PreferenceTag}
  Ids <- MCIds
  Types <- MCTypes
  TypeOf <- MCTypeOf
  TagOf <- MCTagOf
  Budget <- MCBudget
  Devices = {d1, d2}
  Slots = {s1}
  Bookmarks = {}
  Preferences = {p1, p2}
  HistoryItems = {h1}
  Directives = {}
  DeviceInfos = {}
  NigoriFolders = {n1, n2}
  BookmarkFolders = {}
  ServerTags = {NigoriTag}
  MaxObjects = 10
  MaxHistory = 2
  MaxDevices = 2
  MaxGUBatch = 3
  MaxEntries = 1
  RoundTrip = 1
  StampGap = 0
  ClockGoesBack = FALSE
  MaxClock = 2
  Serial = FALSE
  EditTombstones = FALSE
  OriginsSent = {"NEW_CLIENT"}
  Commits = 2
  GetUpdates = 1
  Clears = 1
  StoreErrors = 0
  GiveUps = 0
  Crashes = 0
  Expiries = 0
SYMMETRY Symmetry
INVARIANTS
  TagsUnique
PROPERTIES
  ImplementsChain
