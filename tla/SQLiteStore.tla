----------------------------- MODULE SQLiteStore -----------------------------
(***************************************************************************)
(* sqlite_store.go: the tables sync_entities, unique_tags and              *)
(* client_item_counts of one chain, and the operations of the Datastore    *)
(* interface on them.  Every operation that writes is one SQLite           *)
(* transaction or one statement, hence one step.                           *)
(***************************************************************************)
EXTENDS SyncData

VARIABLES
  rows,        \* sync_entities, by id, without the disabled-chain marker row
  tagRows,     \* unique_tags: the tags that are taken
  disabled,    \* sync_entities holds the disabled-chain marker row
  itemCounts   \* client_item_counts, the four history periods summed

storeVars == <<rows, tagRows, disabled, itemCounts>>

StoreTypeOK ==
  /\ rows \in [Ids -> Row \cup {NoRow}]
  /\ tagRows \subseteq ClientTags \cup ServerTags
  /\ disabled \in BOOLEAN
  /\ itemCounts \in Counts

StoreInit ==
  /\ rows = [i \in Ids |-> NoRow]
  /\ tagRows = {}
  /\ disabled = FALSE
  /\ itemCounts = NoCounts

Stored(i) == rows[i] # NoRow

HasServerDefinedUniqueTag(tag) == tag \in tagRows

(* Inserting ---------------------------------------------------------------*)

\* The unique_tags row an insert takes: none for the history type.
ClientTagRow(i) ==
  IF TagOf[i] \in ClientTags /\ Versioned(i) THEN {TagOf[i]} ELSE {}

\* Mutant: the insert checks only the primary key.
InsertIgnoringTags(i) == Stored(i)

\* A primary key of unique_tags or sync_entities is violated.
InsertConflicts(i) == ClientTagRow(i) \cap tagRows # {} \/ Stored(i)

\* InsertSyncEntity rolls back on a conflict, and the caller is told "no error".
InsertSyncEntity(i, row) ==
  \/ /\ InsertConflicts(i)
     /\ UNCHANGED storeVars
  \/ /\ ~InsertConflicts(i)
     /\ rows' = [rows EXCEPT ![i] = row]
     /\ tagRows' = tagRows \cup ClientTagRow(i)
     /\ UNCHANGED <<disabled, itemCounts>>

\* Mutant: only the primary keys of the folders are checked.
FolderIdsConflict(R) == \E i \in R : Stored(i)

\* A server tag or an id of the transaction is taken.
ServerTagsConflict(R) == \E i \in R : TagOf[i] \in tagRows \/ Stored(i)

\* The root folders and their tag rows, in one transaction.
InsertSyncEntitiesWithServerTags(R, row) ==
  /\ rows' = [i \in Ids |-> IF i \in R THEN row ELSE rows[i]]
  /\ tagRows' = tagRows \cup {TagOf[i] : i \in R}
  /\ UNCHANGED <<disabled, itemCounts>>

(* Updating ----------------------------------------------------------------*)

\* Mutant: the current version is not compared with the one the client read.
UpdateWithoutVersionCheck(i, base) == ~Stored(i)

\* The row is gone, or its version is not the one the client read.
UpdateConflicts(i, base) ==
  Stored(i) => Versioned(i) /\ rows[i].version # base

\* Mutant: a deletion leaves the tag row behind.
KeepsTagRow(i, deleted) == {}

\* Deleting a tagged entity frees its tag.
FreedTagRow(i, deleted) == IF deleted THEN ClientTagRow(i) ELSE {}

UpdateSyncEntity(i, row) ==
  /\ rows' = [rows EXCEPT ![i] = row]
  /\ tagRows' = tagRows \ FreedTagRow(i, row.deleted)
  /\ UNCHANGED <<disabled, itemCounts>>

\* UpdateSyncEntity's third result: the update turned a live row into a tombstone.
BecomesDeleted(i, deleted) == ~rows[i].deleted /\ deleted

(* Reading -----------------------------------------------------------------*)

Newer(ty, tok) ==
  {i \in Ids : TypeOf[i] = ty /\ Stored(i) /\ rows[i].mtime > tok}

\* Mutant: rows beyond the limit are dropped in no particular order.
UnorderedPages(ty, tok, size) ==
  {P \in SUBSET Newer(ty, tok) :
     \/ Cardinality(P) = size
     \/ P = Newer(ty, tok) /\ Cardinality(P) <= size}

\* The results the query may give: ORDER BY mtime LIMIT size, ties in any order.
Pages(ty, tok, size) ==
  {P \in SUBSET Newer(ty, tok) :
     /\ \/ Cardinality(P) = size
        \/ P = Newer(ty, tok) /\ Cardinality(P) <= size
     /\ \A i \in P : \A j \in Newer(ty, tok) \ P : rows[i].mtime <= rows[j].mtime}

\* Mutant: the query has no extra row to tell a full page from a truncated one.
PageIsFull(ty, tok, size) == Cardinality(Newer(ty, tok)) >= size

ChangesRemain(ty, tok, size) == Cardinality(Newer(ty, tok)) > size

(* Counting, disabling, clearing -------------------------------------------*)

\* The absolute counts the caller computed overwrite the table's.
UpdateClientItemCount(counts, new) ==
  /\ itemCounts' = [c \in Counters |-> counts[c] + new[c]]
  /\ UNCHANGED <<rows, tagRows, disabled>>

DisableSyncChain ==
  /\ disabled' = TRUE
  /\ UNCHANGED <<rows, tagRows, itemCounts>>

\* The types of the rows ClearServerData reads before its transaction.
StoredTypes == {TypeOf[i] : i \in {j \in Ids : Stored(j)}}

\* The transaction of ClearServerData: everything goes but the marker row.
ClearServerData ==
  /\ rows' = [i \in Ids |-> NoRow]
  /\ tagRows' = {}
  /\ itemCounts' = NoCounts
  /\ UNCHANGED disabled
=============================================================================
