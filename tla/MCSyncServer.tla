----------------------------- MODULE MCSyncServer -----------------------------
(***************************************************************************)
(* Instances of SyncServer for TLC: which ids there are, their types and   *)
(* tags, and how often each thing outside the handlers may happen.         *)
(***************************************************************************)
EXTENDS ServerInvariants, TLC

CONSTANTS
  Bookmarks, BookmarkType,      \* ids of an ordinary type without tags
  Preferences, PreferenceType,  \* ids that share one client tag
  PreferenceTag,
  HistoryItems,                 \* ids of the history type
  Directives,                   \* ids of the history-delete type
  DeviceInfos,                  \* ids of device records
  NigoriFolders,                \* ids for root folders with the nigori tag
  BookmarkFolders, BookmarkTag, \* ids for root folders with another server tag
  Commits, GetUpdates, Clears, StoreErrors, GiveUps, Crashes, Expiries

MCIds == Bookmarks \cup Preferences \cup HistoryItems \cup Directives \cup DeviceInfos
           \cup NigoriFolders \cup BookmarkFolders

MCTypeOf ==
  [i \in MCIds |->
     CASE i \in Bookmarks \cup BookmarkFolders -> BookmarkType
       [] i \in Preferences -> PreferenceType
       [] i \in HistoryItems -> HistoryType
       [] i \in Directives -> HistoryDeleteType
       [] i \in DeviceInfos -> DeviceInfoType
       [] i \in NigoriFolders -> NigoriType]

MCTagOf ==
  [i \in MCIds |->
     CASE i \in Preferences -> PreferenceTag
       [] i \in NigoriFolders -> NigoriTag
       [] i \in BookmarkFolders -> BookmarkTag
       [] OTHER -> NoTag]

MCTypes == {MCTypeOf[i] : i \in MCIds}

MCBudget ==
  [k \in Kinds |->
     CASE k = "commit" -> Commits
       [] k = "getUpdates" -> GetUpdates
       [] k = "clear" -> Clears
       [] k = "storeError" -> StoreErrors
       [] k = "giveUp" -> GiveUps
       [] k = "crash" -> Crashes
       [] k = "expire" -> Expiries]

Symmetry ==
  Permutations(Devices) \cup Permutations(Bookmarks) \cup Permutations(Preferences)
    \cup Permutations(NigoriFolders) \cup Permutations(BookmarkFolders)
=============================================================================
