\* One request at a time, in distinct milliseconds: new clients make root folders, devices
\* commit, fetch in batches of one and poll; calls fail, keys expire, the process restarts.
SPECIFICATION Spec
CONSTANTS
  Server = Server
  NoRow = NoRow
  NoTag = NoTag
  BookmarkType = BookmarkType
  PreferenceType = PreferenceType
  PreferenceTag = PreferenceTag
  HistoryType = HistoryType
  HistoryDeleteType = HistoryDeleteType
  DeviceInfoType = DeviceInfoType
  NigoriType = NigoriType
  NigoriTag = NigoriTag
  BookmarkTag = BookmarkTag
  ClientTags = {PreferenceTag}
  Ids <- MCIds
  Types <- MCTypes
  TypeOf <- MCTypeOf
  TagOf <- MCTagOf
  Budget <- MCBudget
  Devices = {d1, d2}
  Slots = {s1}
  Bookmarks = {b1, b2}
  Preferences = {}
  HistoryItems = {}
  Directives = {}
  DeviceInfos = {}
  NigoriFolders = {n1, n2}
  BookmarkFolders = {f1, f2}
  ServerTags = {NigoriTag, BookmarkTag}
  MaxObjects = 10
  MaxHistory = 2
  MaxDevices = 2
  MaxGUBatch = 1
  MaxEntries = 1
  RoundTrip = 1
  StampGap = 1
  ClockGoesBack = FALSE
  MaxClock = 1
  Serial = TRUE
  EditTombstones = FALSE
  OriginsSent = {"GU_TRIGGER", "PERIODIC", "NEW_CLIENT"}
  Commits = 2
  GetUpdates = 2
  Clears = 0
  StoreErrors = 1
  GiveUps = 0
  Crashes = 1
  Expiries = 1
SYMMETRY Symmetry
INVARIANTS
  PassedAreDelivered
  CacheCoversCommits
