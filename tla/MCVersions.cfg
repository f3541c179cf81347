\* Two devices, one of them with an abandoned request still running, race on one
\* untagged entity; calls fail and the process crashes.
SPECIFICATION Spec
CONSTANTS
  Server = Server
  NoRow = NoRow
  NoTag = NoTag
  BookmarkType = BookmarkType
  PreferenceType = PreferenceType
  PreferenceTag = PreferenceTag
  HistoryType = HistoryType
  HistoryDeleteType = HistoryDeleteType
  DeviceInfoType = DeviceInfoType
  NigoriType = NigoriType
  NigoriTag = NigoriTag
  BookmarkTag = BookmarkTag
  ClientTags = {PreferenceTag}
  Ids <- MCIds
  Types <- MCTypes
  TypeOf <- MCTypeOf
  TagOf <- MCTagOf
  Budget <- MCBudget
  Devices = {d1, d2}
  Slots = {s1, s2}
  Bookmarks = {b1}
  Preferences = {}
  HistoryItems = {}
  Directives = {}
  DeviceInfos = {}
  NigoriFolders = {}
  BookmarkFolders = {}
  ServerTags = {NigoriTag}
  MaxObjects = 10
  MaxHistory = 2
  MaxDevices = 2
  MaxGUBatch = 3
  MaxEntries = 1
  RoundTrip = 1
  StampGap = 0
  ClockGoesBack = FALSE
  MaxClock = 2
  Serial = FALSE
  EditTombstones = FALSE
  OriginsSent = {"GU_TRIGGER"}
  Commits = 3
  GetUpdates = 1
  Clears = 0
  StoreErrors = 1
  GiveUps = 1
  Crashes = 1
  Expiries = 0
SYMMETRY Symmetry
INVARIANTS
  TypeOK
  KnownVersionsAgree
  VersionsInv
  AckedIsStored
PROPERTIES
  NoBlindOverwrite
