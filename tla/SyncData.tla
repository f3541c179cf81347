------------------------------ MODULE SyncData ------------------------------
(***************************************************************************)
(* The data of one sync chain (one client_id), as the store, the cache and *)
(* the request handlers of go-sync/sync-lite see it.                       *)
(*                                                                         *)
(* An entity is named by the id of its row.  An id is a uuid the server    *)
(* draws, or, for the history type, the hash of the client tag; a uuid is  *)
(* fresh whenever it is drawn, so a value of Ids already stands for one    *)
(* entity with its immutable data type and unique tag.  Payload columns    *)
(* (specifics, names, position, parent) are abstracted to their last       *)
(* writer, which is enough to tell two versions of an entity apart.        *)
(***************************************************************************)
EXTENDS Integers, FiniteSets

CONSTANTS
  Devices,            \* the devices of the chain
  Server,             \* the writer of the server-defined root folders
  Ids,                \* entity ids
  Types,              \* data type ids
  HistoryType,        \* datastore.HistoryTypeID
  HistoryDeleteType,  \* datastore.HistoryDeleteDirectiveTypeID
  DeviceInfoType,     \* deviceInfoTypeID
  NigoriType,         \* nigoriTypeID
  ClientTags,         \* client-defined unique tags
  ServerTags,         \* server-defined unique tags
  NigoriTag,          \* nigoriTag, the server tag that stands for all of them
  NoTag,              \* an entity without a unique tag
  NoRow,              \* the value of an id that has no row
  TypeOf,             \* the data type of an id
  TagOf,              \* the unique tag of an id
  MaxObjects,         \* maxClientObjectQuota
  MaxHistory,         \* maxClientHistoryObjectQuota
  MaxDevices,         \* maxActiveDevices
  MaxGUBatch          \* maxGUBatchSize

\* A row of sync_entities.
Row == [version: Nat, mtime: Nat, deleted: BOOLEAN, by: Devices \cup {Server}]

\* What a device knows of an entity; version 0 when it knows nothing.
Known == [version: Nat, deleted: BOOLEAN, by: Devices \cup {Server}]
Unknown == [version |-> 0, deleted |-> FALSE, by |-> Server]

\* One entry of a commit message; base is the version the client read.
Entry == [id: Ids, base: Nat, deleted: BOOLEAN]

\* Item counts of the chain: client_item_counts, or the interim counters.
Counters == {"normal", "history"}
Counts == [Counters -> Int]
NoCounts == [c \in Counters |-> 0]

\* The cache has no value for a key.
Miss == -1

\* Rows whose updates are compare-and-swap on the version.
Versioned(i) == TypeOf[i] # HistoryType

\* The root folders, which the server creates.
RootIds == {i \in Ids : TagOf[i] \in ServerTags}

HistoryRelated(i) == TypeOf[i] \in {HistoryType, HistoryDeleteType}
CounterOf(i) == IF HistoryRelated(i) THEN "history" ELSE "normal"

\* Uuids are finitely many.
ASSUME IdsAssumption == IsFiniteSet(Ids)
ASSUME TypeAssumption == TypeOf \in [Ids -> Types]
ASSUME TagAssumption ==
  /\ TagOf \in [Ids -> ClientTags \cup ServerTags \cup {NoTag}]
  /\ ClientTags \cap ServerTags = {}
  /\ NoTag \notin ClientTags \cup ServerTags
  /\ NigoriTag \in ServerTags
  /\ \A i \in Ids : TagOf[i] \in ServerTags => TypeOf[i] # HistoryType
ASSUME NoRowAssumption == NoRow \notin Row
ASSUME ServerAssumption == Server \notin Devices
ASSUME LimitAssumption ==
  /\ MaxObjects \in Nat
  /\ MaxHistory \in 0 .. MaxObjects
  /\ MaxDevices \in Nat \ {0}
  /\ MaxGUBatch \in Nat \ {0}
=============================================================================
