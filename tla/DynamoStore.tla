----------------------------- MODULE DynamoStore -----------------------------
(***************************************************************************)
(* datastore/sync_entity.go: one chain in DynamoDB.  Entities, tag items,  *)
(* the count item and the disabled marker are items of one table; each     *)
(* call of the AWS client (a conditional put, an update, a transaction, a  *)
(* query) is one step, and an operation that makes several is as many.     *)
(***************************************************************************)
EXTENDS Integers, FiniteSets

CONSTANTS
  Ids,          \* entity ids
  HistoryIds,   \* those of the history type
  DirectiveIds, \* those of history-delete directives
  TagOf,        \* the unique tag of an id, or NoTag
  ClientTags, ServerTags, NoTag,
  Counts,       \* the key of the count item: the client id itself
  Marker,       \* disabledChainID
  NoItem,       \* no item for a key
  BatchSize,    \* maxTransactDeleteItemSize
  PageSize,     \* maxSize of GetUpdatesForType
  Lifetime      \* HistoryExpirationIntervalSecs

Item == [mtime: Nat, deleted: BOOLEAN, expires: Nat]
Tags == ClientTags \cup ServerTags
Keys == Ids \cup Tags \cup {Counts, Marker}

ASSUME DynamoAssumption ==
  /\ IsFiniteSet(Ids)
  /\ HistoryIds \subseteq Ids
  /\ DirectiveIds \subseteq Ids \ HistoryIds
  /\ TagOf \in [Ids -> Tags \cup {NoTag}]
  /\ NoTag \notin Tags
  /\ ClientTags \cap ServerTags = {}
  /\ \A i \in HistoryIds : TagOf[i] = NoTag
  /\ Ids \cap (Tags \cup {Counts, Marker}) = {}
  /\ Tags \cap {Counts, Marker} = {}
  /\ Counts # Marker
  /\ NoItem \notin Item
  /\ BatchSize \in Nat \ {0}
  /\ PageSize \in Nat \ {0}
  /\ Lifetime \in Nat

VARIABLES
  items,     \* the items of entities, by id
  others,    \* the keys of the other items
  now        \* the clock

tableVars == <<items, others>>

TableTypeOK ==
  /\ items \in [Ids -> Item \cup {NoItem}]
  /\ others \subseteq Tags \cup {Counts, Marker}
  /\ now \in Nat

TableInit ==
  /\ items = [i \in Ids |-> NoItem]
  /\ others = {}
  /\ now = 1

Stored(i) == items[i] # NoItem
Disabled == Marker \in others

(* Inserting and updating --------------------------------------------------*)

\* Mutant: the tag item is put whether or not the entity has a tag.
AlwaysTagItem(i) == {TagOf[i]}

\* The item that is put along with an entity; history has none.
TagItem(i) == {TagOf[i]} \ {NoTag}

\* History and the directives that delete it expire.
Expires(i, stamp) == IF i \in HistoryIds \cup DirectiveIds THEN stamp + Lifetime ELSE 0

NewItem(i, stamp) == [mtime |-> stamp, deleted |-> FALSE, expires |-> Expires(i, stamp)]

\* Mutant: only the entity is put if it does not exist.
IdsTaken(R) == \E i \in R : Stored(i)

\* attribute_not_exists fails for one of the puts of the transaction.
AlreadyExists(R) == \E i \in R : Stored(i) \/ TagItem(i) \cap others # {}

\* InsertSyncEntity (one entity) and InsertSyncEntitiesWithServerTags.
PutNew(R, stamp) ==
  \/ /\ AlreadyExists(R)
     /\ UNCHANGED tableVars
  \/ /\ ~AlreadyExists(R)
     /\ items' = [i \in Ids |-> IF i \in R THEN NewItem(i, stamp) ELSE items[i]]
     /\ others' = others \cup UNION {TagItem(i) : i \in R}

\* Mutant: the entity is updated, the tag item stays.
TagItemStays(i, deleted) == {}

\* A deletion of a tagged entity deletes the tag item in the same transaction.
FreedTagItem(i, deleted) == IF deleted THEN TagItem(i) ELSE {}

UpdateConflicts(i, base) ==
  Stored(i) => i \notin HistoryIds /\ items[i].mtime # base

UpdateSyncEntity(i, base, stamp, deleted) ==
  \/ /\ UpdateConflicts(i, base)
     /\ UNCHANGED tableVars
  \/ /\ ~UpdateConflicts(i, base)
     /\ items' = [items EXCEPT ![i].mtime = stamp, ![i].deleted = deleted]
     /\ others' = others \ FreedTagItem(i, deleted)

UpdateClientItemCount ==
  /\ others' = others \cup {Counts}
  /\ UNCHANGED items

DisableSyncChain ==
  /\ others' = others \cup {Marker}
  /\ UNCHANGED items

(* Reading -----------------------------------------------------------------*)

Types == {"history", "directive", "ordinary"}
TypeOf(i) ==
  CASE i \in HistoryIds -> "history"
    [] i \in DirectiveIds -> "directive"
    [] OTHER -> "ordinary"

\* The index on (ClientID, DataType#Mtime), from the token on.
Newer(ty, tok) == {i \in Ids : Stored(i) /\ TypeOf(i) = ty /\ items[i].mtime > tok}

\* Mutant: the table is queried, which is not in the order of mtimes.
TablePages(ty, tok) == {P \in SUBSET Newer(ty, tok) : Cardinality(P) = PageSize}

\* What the query of the index may return: the first keys up to the limit.
Pages(ty, tok) ==
  {P \in SUBSET Newer(ty, tok) :
     /\ \/ Cardinality(P) = PageSize
        \/ P = Newer(ty, tok) /\ Cardinality(P) < PageSize
     /\ \A i \in P : \A j \in Newer(ty, tok) \ P : items[i].mtime <= items[j].mtime}

Expired(i) == items[i].expires > 0 /\ items[i].expires < now

\* The items read by their keys, later than the query, without the expired ones.
Fetched(P) == {i \in P : Stored(i) /\ ~Expired(i)}

\* Time to live: DynamoDB removes an expired item at some time.  A tag item has no
\* ExpirationTime, so that of an expired directive stays.
TimeToLive(i) ==
  /\ Stored(i)
  /\ Expired(i)
  /\ items' = [items EXCEPT ![i] = NoItem]
  /\ UNCHANGED others

(* Clearing ----------------------------------------------------------------*)

\* All keys of the chain, as the query of ClearServerData finds them.
AllKeys == {i \in Ids : Stored(i)} \cup others

\* The transactions take the keys ten at a time.
Batches(K) ==
  {B \in SUBSET K : Cardinality(B) = BatchSize \/ (B = K /\ Cardinality(K) < BatchSize)}

\* The count item has a Version and no Mtime: the condition cannot be built.
BatchPanics(B) == Counts \in B

\* Mutant: items are deleted whatever has become of them.
NeverFails(B, seen) == B \subseteq {Marker}

\* A transaction without an operation is invalid; one of its conditions fails when
\* an entity has another Mtime than the query saw, or is gone.
BatchFails(B, seen) ==
  \/ B \subseteq {Marker}
  \/ \E i \in B \cap Ids : Stored(i) => items[i].mtime # seen[i].mtime

DeleteBatch(B) ==
  /\ items' = [i \in Ids |-> IF i \in B THEN NoItem ELSE items[i]]
  /\ others' = others \ (B \ {Marker})
=============================================================================
