\* Two directives of one tag, the root folders of two new clients, a history item and a
\* clear: two requests write at the same time while a device polls pages of one entity.
\* CHECK_DEADLOCK is off because the bounds on requests and time end every behaviour.
SPECIFICATION Spec
CONSTANTS
  Counts = Counts
  Marker = Marker
  NoItem = NoItem
  NoTag = NoTag
  Idle = Idle
  DirectiveTag = DirectiveTag
  FolderTag = FolderTag
  NigoriTag = NigoriTag
  ClientTags = {DirectiveTag}
  ServerTags = {FolderTag, NigoriTag}
  HistoryIds = {h1}
  DirectiveIds = {d1, d2}
  Folders = {b1, b2}
  Nigoris = {n1, n2}
  Ids <- MCIds
  TagOf <- MCTagOf
  Writers = {w1, w2}
  BatchSize = 2
  PageSize = 1
  Lifetime = 1
  Polled = {"history", "ordinary"}
  MaxCommits = 2
  MaxTime = 4
SYMMETRY Symmetry
CHECK_DEADLOCK FALSE
INVARIANTS
  TypeOK
  TagItemsExact
  ClearedIsGone
PROPERTIES
  NoBlindDelete
  OnlyTheseAreSkipped
