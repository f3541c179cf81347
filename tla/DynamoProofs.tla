----------------------------- MODULE DynamoProofs -----------------------------
(***************************************************************************)
(* The DynamoDB store, for any number of entities, tags and writers:       *)
(* types, tag items, what clearing a chain deletes, and which entities the *)
(* progress marker of a device passes by.  The clock is not set back.      *)
(***************************************************************************)
EXTENDS DynamoChain, TLAPS

(* Types -------------------------------------------------------------------*)

\* Putting new entities keeps the types of the table.
LEMMA PutNewTypes ==
  ASSUME TableTypeOK, NEW R \in SUBSET Ids, NEW stamp \in Nat, PutNew(R, stamp)
  PROVE  /\ items' \in [Ids -> Item \cup {NoItem}]
         /\ others' \subseteq Tags \cup {Counts, Marker}
<1>1. CASE UNCHANGED tableVars
  BY <1>1 DEF tableVars, TableTypeOK
<1>2. CASE /\ items' = [i \in Ids |-> IF i \in R THEN NewItem(i, stamp) ELSE items[i]]
           /\ others' = others \cup UNION {TagItem(i) : i \in R}
  <2>1. \A i \in Ids : NewItem(i, stamp) \in Item
    BY DynamoAssumption DEF NewItem, Item, Expires
  <2>2. \A i \in Ids : TagItem(i) \subseteq Tags
    BY DynamoAssumption DEF TagItem
  <2>3. UNION {TagItem(i) : i \in R} \subseteq Tags
    BY <2>2
  <2> QED
    BY <1>2, <2>1, <2>3 DEF TableTypeOK
<1> QED
  BY <1>1, <1>2 DEF PutNew

\* So does updating one.
LEMMA UpdateTypes ==
  ASSUME TableTypeOK, NEW i \in Ids, NEW base, NEW stamp \in Nat, NEW deleted \in BOOLEAN,
         UpdateSyncEntity(i, base, stamp, deleted)
  PROVE  /\ items' \in [Ids -> Item \cup {NoItem}]
         /\ others' \subseteq Tags \cup {Counts, Marker}
<1>1. CASE UNCHANGED tableVars
  BY <1>1 DEF tableVars, TableTypeOK
<1>2. CASE /\ ~UpdateConflicts(i, base)
           /\ items' = [items EXCEPT ![i].mtime = stamp, ![i].deleted = deleted]
           /\ others' = others \ FreedTagItem(i, deleted)
  <2>1. items[i] \in Item
    BY <1>2 DEF UpdateConflicts, Stored, TableTypeOK
  <2>2. [items[i] EXCEPT !.mtime = stamp, !.deleted = deleted] \in Item
    BY <2>1 DEF Item
  <2>3. items' = [items EXCEPT ![i] = [items[i] EXCEPT !.mtime = stamp, !.deleted = deleted]]
    BY <1>2, <2>1 DEF TableTypeOK, Item
  <2> QED
    BY <1>2, <2>2, <2>3 DEF TableTypeOK
<1> QED
  BY <1>1, <1>2 DEF UpdateSyncEntity

\* A chain starts with the types right.
LEMMA TypeInit == Init => TypeOK
<1> SUFFICES ASSUME Init PROVE TypeOK
  OBVIOUS
<1>1. TableTypeOK
  BY DEF Init, TableInit, TableTypeOK
<1>2. commits \in 0 .. MaxCommits
  BY ChainAssumption DEF Init
<1> QED
  BY <1>1, <1>2 DEF Init, TypeOK, Clear, Keys

\* A request that is received is of the right type.
LEMMA ReceiveTypes ==
  ASSUME TypeOK, NEW w \in Writers, NEW r \in Request, Receive(w, r)
  PROVE  TypeOK'
<1>1. commits' \in 0 .. MaxCommits
  BY ChainAssumption DEF Receive, TypeOK
<1>2. used' \subseteq Ids
  BY DEF Receive, TypeOK, Request
<1> QED
  BY <1>1, <1>2 DEF Receive, TypeOK, TableTypeOK, tableVars, readVars, clearVars

\* The requests that the model's environment makes.
LEMMA Requests ==
  ASSUME TypeOK, NEW w \in Writers,
         CommitNew(w) \/ CommitChange(w) \/ CommitHistory(w) \/ NewClient(w)
  PROVE  \E r \in Request :
           /\ Receive(w, r)
           /\ r.stamp = now
           /\ \/ /\ r.at \in {"insert", "tag"}
                 /\ r.base = 0
                 /\ r.ids \cap used = {}
                 /\ \A i, j \in r.ids : TagOf[i] = TagOf[j] => i = j
              \/ /\ r.at = "has"
                 /\ r.base = 0
                 /\ r.ids \subseteq HistoryIds
              \/ /\ r.at = "update"
                 /\ \E i \in Ids : /\ r.ids = {i}
                                   /\ Stored(i)
                                   /\ ~items[i].deleted
                                   /\ r.base = items[i].mtime
                                   /\ r.base < now
<1>0. now \in Nat /\ HistoryIds \subseteq Ids
  BY DynamoAssumption DEF TypeOK, TableTypeOK
<1>1. CASE CommitNew(w)
  <2>1. PICK i \in Ids \ (HistoryIds \cup used) :
          Receive(w, [at |-> "insert", ids |-> {i}, base |-> 0, stamp |-> now,
                      deleted |-> FALSE])
    BY <1>1 DEF CommitNew
  <2>2. [at |-> "insert", ids |-> {i}, base |-> 0, stamp |-> now, deleted |-> FALSE] \in Request
    BY <1>0 DEF Request
  <2> QED
    BY <2>1, <2>2
<1>2. CASE CommitChange(w)
  <2>1. PICK i \in Ids \ HistoryIds, deleted \in BOOLEAN :
          /\ Stored(i) /\ ~items[i].deleted /\ items[i].mtime < now
          /\ Receive(w, [at |-> "update", ids |-> {i}, base |-> items[i].mtime, stamp |-> now,
                         deleted |-> deleted])
    BY <1>2 DEF CommitChange
  <2>2. items[i].mtime \in Nat
    BY <2>1 DEF TypeOK, TableTypeOK, Stored, Item
  <2>3. [at |-> "update", ids |-> {i}, base |-> items[i].mtime, stamp |-> now,
         deleted |-> deleted] \in Request
    BY <1>0, <2>2 DEF Request
  <2> QED
    BY <2>1, <2>3
<1>3. CASE CommitHistory(w)
  <2>1. PICK i \in HistoryIds :
          Receive(w, [at |-> "has", ids |-> {i}, base |-> 0, stamp |-> now, deleted |-> FALSE])
    BY <1>3 DEF CommitHistory
  <2>2. [at |-> "has", ids |-> {i}, base |-> 0, stamp |-> now, deleted |-> FALSE] \in Request
    BY <1>0 DEF Request
  <2> QED
    BY <2>1, <2>2
<1>4. CASE NewClient(w)
  <2>1. PICK R \in SUBSET {i \in Ids \ used : TagOf[i] \in ServerTags} :
          /\ \A i, j \in R : TagOf[i] = TagOf[j] => i = j
          /\ Receive(w, [at |-> "tag", ids |-> R, base |-> 0, stamp |-> now,
                         deleted |-> FALSE])
    BY <1>4 DEF NewClient
  <2>2. [at |-> "tag", ids |-> R, base |-> 0, stamp |-> now, deleted |-> FALSE] \in Request
    BY <1>0 DEF Request
  <2> QED
    BY <2>1, <2>2
<1> QED
  BY <1>1, <1>2, <1>3, <1>4

\* One call of a request under way: what becomes of the request, and of the table.
LEMMA WriteEffect ==
  ASSUME TypeOK, NEW w \in Writers, Write(w)
  PROVE  LET r == request[w] IN
         /\ r \in Request
         /\ \E s \in Request \cup {Idle} :
              /\ request' = [request EXCEPT ![w] = s]
              /\ s # Idle => /\ s.ids = r.ids /\ s.base = r.base /\ s.stamp = r.stamp
                             /\ s.deleted = r.deleted
              /\ \/ /\ r.at = "has" /\ s # Idle /\ s.at \in {"update", "insert"}
                    /\ UNCHANGED tableVars
                 \/ /\ r.at = "tag" /\ (s # Idle => s.at = "insert")
                    /\ UNCHANGED tableVars
                 \/ /\ r.at = "insert" /\ (s # Idle => s.at = "count")
                    /\ PutNew(r.ids, r.stamp)
                 \/ /\ r.at = "update" /\ s # Idle /\ s.at = "count"
                    /\ \E i \in r.ids : UpdateSyncEntity(i, r.base, r.stamp, r.deleted)
                 \/ /\ r.at = "count" /\ s = Idle
                    /\ UpdateClientItemCount \/ UNCHANGED tableVars
<1> DEFINE r == request[w]
<1>1. r # Idle
  BY DEF Write, CheckItem, HasServerTag, Insert, Update, Count, At
<1>2. r \in Request
  BY <1>1 DEF TypeOK
<1>3. ASSUME NEW c \in {"insert", "update", "count"}, Goto(w, c)
      PROVE  \E s \in Request : /\ request' = [request EXCEPT ![w] = s]
                                /\ s # Idle /\ s.at = c
                                /\ s.ids = r.ids /\ s.base = r.base /\ s.stamp = r.stamp
                                /\ s.deleted = r.deleted
  <2> DEFINE s == [r EXCEPT !.at = c]
  <2>1. s \in Request /\ s.at = c /\ s.ids = r.ids /\ s.base = r.base /\ s.stamp = r.stamp
        /\ s.deleted = r.deleted
    BY <1>2, <1>3 DEF Request
  <2>2. s # Idle
    BY <2>1, ChainAssumption
  <2>3. request' = [request EXCEPT ![w] = s]
    BY <1>3 DEF Goto
  <2> QED
    BY <2>1, <2>2, <2>3
<1>4. CASE CheckItem(w)
  <2>1. PICK c \in {"update", "insert"} : Goto(w, c)
    BY <1>4 DEF CheckItem
  <2>2. r.at = "has" /\ UNCHANGED tableVars
    BY <1>4 DEF CheckItem, At
  <2> QED
    BY <1>2, <1>3, <2>1, <2>2
<1>5. CASE HasServerTag(w)
  <2>1. r.at = "tag" /\ UNCHANGED tableVars
    BY <1>5 DEF HasServerTag, At
  <2>2. Done(w) \/ Goto(w, "insert")
    BY <1>5 DEF HasServerTag
  <2>3. CASE Done(w)
    BY <1>2, <2>1, <2>3 DEF Done
  <2>4. CASE Goto(w, "insert")
    BY <1>2, <1>3, <2>1, <2>4
  <2> QED
    BY <2>2, <2>3, <2>4
<1>6. CASE Insert(w)
  <2>1. r.at = "insert" /\ PutNew(r.ids, r.stamp)
    BY <1>6 DEF Insert, At
  <2>2. Done(w) \/ Goto(w, "count")
    BY <1>6 DEF Insert
  <2>3. CASE Done(w)
    BY <1>2, <2>1, <2>3 DEF Done
  <2>4. CASE Goto(w, "count")
    BY <1>2, <1>3, <2>1, <2>4
  <2> QED
    BY <2>2, <2>3, <2>4
<1>7. CASE Update(w)
  <2>1. /\ r.at = "update" /\ Goto(w, "count")
        /\ \E i \in r.ids : UpdateSyncEntity(i, r.base, r.stamp, r.deleted)
    BY <1>7 DEF Update, At
  <2> QED
    BY <1>2, <1>3, <2>1
<1>8. CASE Count(w)
  <2>1. /\ r.at = "count" /\ Done(w)
        /\ UpdateClientItemCount \/ UNCHANGED tableVars
    BY <1>8 DEF Count, At
  <2> QED
    BY <1>2, <2>1 DEF Done
<1> QED
  BY <1>4, <1>5, <1>6, <1>7, <1>8 DEF Write

\* Every step keeps the types.
LEMMA TypeStep ==
  ASSUME TypeOK, [Next]_vars
  PROVE  TypeOK'
<1>0. TableTypeOK /\ commits \in 0 .. MaxCommits
  BY DEF TypeOK
<1>1. ASSUME NEW w \in Writers,
             CommitNew(w) \/ CommitChange(w) \/ CommitHistory(w) \/ NewClient(w)
      PROVE  TypeOK'
  BY <1>1, Requests, ReceiveTypes
<1>2. ASSUME NEW w \in Writers, Write(w) PROVE TypeOK'
  <2>1. UNCHANGED <<now, used, commits, readVars, clearVars, orphans>>
    BY <1>2 DEF Write
  <2>2. request' \in [Writers -> Request \cup {Idle}]
    BY <1>2, WriteEffect DEF TypeOK
  <2>3. items' \in [Ids -> Item \cup {NoItem}] /\ others' \subseteq Tags \cup {Counts, Marker}
    <3> DEFINE r == request[w]
    <3>1. r \in Request
      BY <1>2, WriteEffect
    <3>2. r.ids \in SUBSET Ids /\ r.stamp \in Nat /\ r.deleted \in BOOLEAN
      BY <3>1 DEF Request
    <3>3. \/ UNCHANGED tableVars
          \/ PutNew(r.ids, r.stamp)
          \/ \E i \in r.ids : UpdateSyncEntity(i, r.base, r.stamp, r.deleted)
          \/ UpdateClientItemCount
      BY <1>2, WriteEffect
    <3>4. CASE UNCHANGED tableVars
      BY <1>0, <3>4 DEF tableVars, TableTypeOK
    <3>5. CASE PutNew(r.ids, r.stamp)
      BY <1>0, <3>2, <3>5, PutNewTypes
    <3>6. CASE \E i \in r.ids : UpdateSyncEntity(i, r.base, r.stamp, r.deleted)
      BY <1>0, <3>2, <3>6, UpdateTypes
    <3>7. CASE UpdateClientItemCount
      BY <1>0, <3>7 DEF UpdateClientItemCount, TableTypeOK
    <3> QED
      BY <3>3, <3>4, <3>5, <3>6, <3>7
  <2> QED
    BY <2>1, <2>2, <2>3 DEF TypeOK, TableTypeOK, readVars, clearVars
<1>3. ASSUME NEW ty \in Types, Query(ty) PROVE TypeOK'
  <2>1. page' \in Page
    BY <1>0, <1>3 DEF Query, Pages, Newer, Page, TableTypeOK
  <2> QED
    BY <1>3, <2>1 DEF Query, TypeOK, TableTypeOK, tableVars, chainVars, clearVars
<1>4. CASE Fetch
  <2>1. page \in Page
    BY <1>4 DEF Fetch, TypeOK
  <2> DEFINE F == Fetched(page.keys)
  <2>2. F \subseteq Ids /\ \A i \in F : items[i].mtime \in Nat
    BY <2>1, <1>0 DEF Fetched, Page, Stored, TableTypeOK, Item
  <2>3. received' \in [Ids -> Nat]
    BY <1>4, <2>2 DEF Fetch, TypeOK
  <2>4. token' \in [Types -> Nat]
    <3>1. CASE token' = token
      BY <3>1 DEF TypeOK
    <3>2. ASSUME NEW m \in LastMtime(F), token' = [token EXCEPT ![page.type] = m]
          PROVE  token' \in [Types -> Nat]
      <4>1. m \in Nat
        BY <2>2, <3>2 DEF LastMtime
      <4> QED
        BY <2>1, <3>2, <4>1 DEF TypeOK, Page
    <3> QED
      BY <1>4, <3>1, <3>2 DEF Fetch
  <2> QED
    BY <1>4, <2>3, <2>4 DEF Fetch, TypeOK, TableTypeOK, tableVars, chainVars, clearVars
<1>5. CASE Disable
  BY <1>0, <1>5 DEF Disable, DisableSyncChain, TypeOK, TableTypeOK, Clear, chainVars, readVars
<1>6. CASE Scan
  <2>1. left' \subseteq Keys
    BY <1>0, <1>6 DEF Scan, AllKeys, Keys, TableTypeOK
  <2> QED
    BY <1>0, <1>6, <2>1 DEF Scan, TypeOK, TableTypeOK, Clear, tableVars, chainVars, readVars
<1>7. CASE Delete
  <2>1. UNCHANGED <<now, chainVars, readVars, seen, orphans>> /\ clear' \in Clear /\ left' \subseteq Keys
    BY <1>7 DEF Delete, Clear, TypeOK
  <2>2. \/ UNCHANGED tableVars
        \/ \E B \in SUBSET left : DeleteBatch(B)
    BY <1>7 DEF Delete, Batches
  <2>3. TableTypeOK'
    BY <1>0, <2>1, <2>2 DEF tableVars, TableTypeOK, DeleteBatch
  <2> QED
    BY <2>1, <2>3 DEF TypeOK, chainVars, readVars
<1>8. CASE Cleared
  BY <1>0, <1>8 DEF Cleared, TypeOK, TableTypeOK, Clear, tableVars, chainVars, readVars
<1>9. ASSUME NEW i \in Ids, RemoveExpired(i) PROVE TypeOK'
  <2>1. orphans' \subseteq Tags
    BY <1>9, DynamoAssumption DEF RemoveExpired, HoldsTag, TypeOK
  <2> QED
    BY <1>0, <1>9, <2>1 DEF RemoveExpired, TimeToLive, TypeOK, TableTypeOK, chainVars, readVars,
                            clearVars
<1>10. CASE Tick
  BY <1>0, <1>10 DEF Tick, TypeOK, TableTypeOK, tableVars, chainVars, readVars, clearVars
<1>11. CASE UNCHANGED vars
  BY <1>0, <1>11 DEF vars, TypeOK, TableTypeOK, tableVars, chainVars, readVars, clearVars
<1> QED
  BY <1>1, <1>2, <1>3, <1>4, <1>5, <1>6, <1>7, <1>8, <1>9, <1>10, <1>11, ChainAssumption
     DEF Next

\* sync_entity.go over DynamoDB: every variable of the chain keeps its type, whatever
\* requests, pages, clears and expiry interleave.
THEOREM DynamoTypeCorrect == Spec => []TypeOK
  BY TypeInit, TypeStep, PTL DEF Spec

(* Versions ----------------------------------------------------------------*)

\* What a request under way may do to the item of i.
Writes(r, i) ==
  /\ r.at \in {"insert", "update"}
  /\ i \in r.ids
  /\ items'[i] \in Item
  /\ items'[i].mtime = r.stamp
  /\ r.at = "insert" => /\ ~Stored(i)
                        /\ ~items'[i].deleted
                        /\ items'[i].expires = Expires(i, r.stamp)
  /\ r.at = "update" => /\ Stored(i)
                        /\ i \notin HistoryIds => items[i].mtime = r.base
                        /\ items'[i].deleted = r.deleted
                        /\ items'[i].expires = items[i].expires

\* It does nothing else to the items.
LEMMA WriteItems ==
  ASSUME TypeOK, NEW w \in Writers, Write(w), NEW i \in Ids
  PROVE  items'[i] = items[i] \/ Writes(request[w], i)
<1> DEFINE r == request[w]
<1>0. TableTypeOK
  BY DEF TypeOK
<1>1. r \in Request
  BY WriteEffect
<1>2. r.ids \in SUBSET Ids /\ r.stamp \in Nat /\ r.deleted \in BOOLEAN
  BY <1>1 DEF Request
<1>3. \/ UNCHANGED items
      \/ r.at = "insert" /\ PutNew(r.ids, r.stamp)
      \/ r.at = "update" /\ \E j \in r.ids : UpdateSyncEntity(j, r.base, r.stamp, r.deleted)
  BY WriteEffect DEF UpdateClientItemCount, tableVars
<1>4. CASE r.at = "insert" /\ PutNew(r.ids, r.stamp)
  <2>1. CASE UNCHANGED tableVars
    BY <2>1 DEF tableVars
  <2>2. CASE /\ ~AlreadyExists(r.ids)
             /\ items' = [j \in Ids |-> IF j \in r.ids THEN NewItem(j, r.stamp) ELSE items[j]]
    <3>1. NewItem(i, r.stamp) \in Item
      BY <1>2, DynamoAssumption DEF NewItem, Item, Expires
    <3>2. i \in r.ids => ~Stored(i)
      BY <2>2 DEF AlreadyExists
    <3>3. /\ NewItem(i, r.stamp).mtime = r.stamp
          /\ ~NewItem(i, r.stamp).deleted
          /\ NewItem(i, r.stamp).expires = Expires(i, r.stamp)
      BY DEF NewItem
    <3> QED
      BY <1>4, <2>2, <3>1, <3>2, <3>3 DEF Writes
  <2> QED
    BY <1>4, <2>1, <2>2 DEF PutNew
<1>5. CASE r.at = "update" /\ \E j \in r.ids : UpdateSyncEntity(j, r.base, r.stamp, r.deleted)
  <2>1. PICK j \in r.ids : UpdateSyncEntity(j, r.base, r.stamp, r.deleted)
    BY <1>5
  <2>2. CASE UNCHANGED tableVars
    BY <2>2 DEF tableVars
  <2>3. CASE /\ ~UpdateConflicts(j, r.base)
             /\ items' = [items EXCEPT ![j].mtime = r.stamp, ![j].deleted = r.deleted]
    <3>1. j \in Ids /\ items[j] \in Item /\ Stored(j)
          /\ (j \notin HistoryIds => items[j].mtime = r.base)
      BY <1>0, <1>2, <2>3 DEF UpdateConflicts, Stored, TableTypeOK
    <3> DEFINE new == [items[j] EXCEPT !.mtime = r.stamp, !.deleted = r.deleted]
    <3>2. items' = [items EXCEPT ![j] = new]
      BY <1>0, <2>3, <3>1 DEF TableTypeOK, Item
    <3>3. /\ new \in Item /\ new.mtime = r.stamp /\ new.deleted = r.deleted
          /\ new.expires = items[j].expires
      BY <1>2, <3>1 DEF Item
    <3> HIDE DEF new
    <3> QED
      BY <1>0, <1>5, <3>1, <3>2, <3>3 DEF Writes, TableTypeOK
  <2> QED
    BY <2>1, <2>2, <2>3 DEF UpdateSyncEntity
<1> QED
  BY <1>3, <1>4, <1>5

\* Nothing is younger than the clock.
TimesOK ==
  /\ \A i \in Ids : Stored(i) => items[i].mtime <= now
  /\ \A w \in Writers : request[w] # Idle => request[w].stamp <= now

Inserts(r) == r # Idle /\ r.at \in {"insert", "tag"}

\* An id is drawn once, unless it is a history id: what is still to be inserted is not
\* known to anyone else.
FreshOK ==
  /\ \A i \in Ids : Stored(i) \/ seen[i] # NoItem => i \in used
  /\ \A w \in Writers : request[w] # Idle => request[w].ids \subseteq used
  /\ \A w \in Writers :
       Inserts(request[w]) =>
         \A i \in request[w].ids \ HistoryIds :
           /\ ~Stored(i) /\ seen[i] = NoItem
           /\ \A v \in Writers \ {w} : request[v] # Idle => i \notin request[v].ids

\* A change has a later stamp than the version it is based on, which is not later
\* than what is stored.
BasesOK ==
  \A w \in Writers :
    /\ request[w] # Idle /\ request[w].at = "has" => request[w].ids \subseteq HistoryIds
    /\ request[w] # Idle /\ request[w].at = "update" =>
         \A i \in request[w].ids \ HistoryIds :
           /\ request[w].base < request[w].stamp
           /\ Stored(i) => request[w].base <= items[i].mtime

\* An entity with the Mtime the clear has seen is what it has seen, and while the
\* clear deletes, it has still to delete whatever is.
SeenOK ==
  /\ \A i \in Ids \ HistoryIds :
       Stored(i) /\ seen[i] # NoItem =>
         /\ seen[i].mtime <= items[i].mtime
         /\ seen[i].mtime = items[i].mtime => items[i] = seen[i]
  /\ clear = "delete" => \A i \in left \cap Ids : seen[i] # NoItem
  /\ clear = "delete" => \A i \in Ids \ HistoryIds : IsAsSeen(i) => i \in left
  /\ ClearedIsGone

VersionInv == TypeOK /\ TimesOK /\ FreshOK /\ BasesOK /\ SeenOK

\* It holds of the empty table.
LEMMA VersionInit == Init => VersionInv
<1> SUFFICES ASSUME Init PROVE VersionInv
  OBVIOUS
<1>1. TypeOK
  BY TypeInit
<1>2. now = 1 /\ (\A i \in Ids : ~Stored(i) /\ seen[i] = NoItem) /\ clear = "idle"
      /\ \A w \in Writers : request[w] = Idle
  BY DEF Init, TableInit, Stored
<1> QED
  BY <1>1, <1>2
     DEF VersionInv, TimesOK, FreshOK, BasesOK, SeenOK, ClearedIsGone, Inserts

\* A request is received for ids nobody has drawn, or for an entity as it is stored.
LEMMA ReceiveVersions ==
  ASSUME VersionInv, NEW w \in Writers,
         CommitNew(w) \/ CommitChange(w) \/ CommitHistory(w) \/ NewClient(w)
  PROVE  TimesOK' /\ FreshOK' /\ BasesOK' /\ SeenOK'
<1>0. TypeOK /\ TimesOK /\ FreshOK /\ BasesOK /\ SeenOK /\ now \in Nat
  BY DEF VersionInv, TypeOK, TableTypeOK
<1>1. PICK r \in Request :
        /\ Receive(w, r)
        /\ r.stamp = now
        /\ \/ r.at \in {"insert", "tag"} /\ r.ids \cap used = {}
           \/ r.at = "has" /\ r.ids \subseteq HistoryIds
           \/ /\ r.at = "update"
              /\ \E i \in Ids : /\ r.ids = {i} /\ Stored(i)
                                /\ r.base = items[i].mtime /\ r.base < now
  BY <1>0, Requests
<1>2. /\ UNCHANGED <<items, seen, clear, left, now>>
      /\ request' = [request EXCEPT ![w] = r]
      /\ used' = used \cup r.ids
      /\ r # Idle
  BY <1>1, ChainAssumption DEF Receive, tableVars, clearVars
<1>3. request'[w] = r /\ \A v \in Writers : v # w => request'[v] = request[v]
  BY <1>0, <1>2 DEF TypeOK
<1>4. \A i \in Ids : Stored(i)' <=> Stored(i)
  BY <1>2 DEF Stored
<1>5. TimesOK'
  BY <1>0, <1>1, <1>2, <1>3, <1>4 DEF TimesOK
<1>6. FreshOK'
  <2>1. \A i \in Ids : Stored(i)' \/ seen'[i] # NoItem => i \in used'
    BY <1>0, <1>2, <1>4 DEF FreshOK
  <2>2. \A v \in Writers : request'[v] # Idle => request'[v].ids \subseteq used'
    BY <1>0, <1>2, <1>3 DEF FreshOK
  <2>3. ASSUME NEW u \in Writers, Inserts(request'[u]), NEW i \in request'[u].ids \ HistoryIds
        PROVE  /\ ~Stored(i)' /\ seen'[i] = NoItem
               /\ \A v \in Writers \ {u} : request'[v] # Idle => i \notin request'[v].ids
    <3>0. r.ids \subseteq Ids
      BY DEF Request
    <3>1. CASE u = w
      <4>1. i \in r.ids /\ i \notin used
        BY <1>1, <1>3, <2>3, <3>1 DEF Inserts
      <4> QED
        BY <1>0, <1>2, <1>3, <1>4, <3>0, <3>1, <4>1 DEF FreshOK
    <3>2. CASE u # w
      <4>1. request'[u] = request[u] /\ Inserts(request[u]) /\ i \in used
        BY <1>0, <1>3, <2>3, <3>2 DEF FreshOK, Inserts
      <4>2. ~Stored(i) /\ seen[i] = NoItem
            /\ \A v \in Writers \ {u} : request[v] # Idle => i \notin request[v].ids
        BY <1>0, <2>3, <4>1 DEF FreshOK
      <4>3. i \notin r.ids
        BY <1>1, <2>3, <4>1, <4>2
      <4>4. i \in Ids
        BY <1>0, <4>1 DEF TypeOK
      <4> QED
        BY <1>2, <1>3, <1>4, <4>2, <4>3, <4>4
    <3> QED
      BY <3>1, <3>2
  <2> QED
    BY <2>1, <2>2, <2>3 DEF FreshOK
<1>7. BasesOK'
  <2>1. r.base \in Nat
    BY DEF Request
  <2>2. \A v \in Writers : request[v] # Idle => request[v].ids \subseteq Ids
    BY <1>0 DEF TypeOK, Request
  <2> QED
    BY <1>0, <1>1, <1>2, <1>3, <1>4, <2>1, <2>2 DEF BasesOK
<1>8. SeenOK'
  BY <1>0, <1>2, <1>4 DEF SeenOK, ClearedIsGone, IsAsSeen
<1> QED
  BY <1>5, <1>6, <1>7, <1>8

\* A write gives an entity a later version.
LEMMA WriteVersions ==
  ASSUME VersionInv, NEW w \in Writers, Write(w)
  PROVE  TimesOK' /\ FreshOK' /\ BasesOK' /\ SeenOK'
<1> DEFINE r == request[w]
<1>0. TypeOK /\ TimesOK /\ FreshOK /\ BasesOK /\ SeenOK /\ now \in Nat /\ TableTypeOK
  BY DEF VersionInv, TypeOK, TableTypeOK
<1>1. UNCHANGED <<now, used, seen, clear, left>>
  BY DEF Write, clearVars
<1>2. r \in Request /\ r # Idle
  BY <1>0, WriteEffect, ChainAssumption
<1>3. r.ids \subseteq Ids /\ r.base \in Nat /\ r.stamp \in Nat
  BY <1>2 DEF Request
<1>4. PICK s \in Request \cup {Idle} :
        /\ request' = [request EXCEPT ![w] = s]
        /\ s # Idle => /\ s.ids = r.ids /\ s.base = r.base /\ s.stamp = r.stamp
                       /\ \/ r.at = "has" /\ s.at \in {"update", "insert"}
                          \/ r.at = "tag" /\ s.at = "insert" /\ UNCHANGED tableVars
                          \/ s.at = "count"
  BY <1>0, WriteEffect
<1>5. request'[w] = s /\ \A v \in Writers : v # w => request'[v] = request[v]
  BY <1>0, <1>4 DEF TypeOK
<1>6. \A i \in Ids : items'[i] = items[i] \/ Writes(r, i)
  BY <1>0, WriteItems
<1>7. \A i \in Ids : items[i] \in Item \cup {NoItem} /\ items'[i] \in Item \cup {NoItem}
  BY <1>0, <1>6 DEF TableTypeOK, Writes
<1>8. \A i \in Ids : Writes(r, i) => Stored(i)' /\ i \in r.ids /\ items'[i].mtime = r.stamp
  BY DynamoAssumption DEF Writes, Stored
\* Of an entity that is not history, a write is an insert or gives a later version.
<1>9. ASSUME NEW i \in Ids \ HistoryIds, Writes(r, i)
      PROVE  \/ r.at = "insert" /\ Inserts(r)
             \/ /\ r.at = "update" /\ Stored(i) /\ items[i].mtime = r.base
                /\ r.base < r.stamp
  BY <1>0, <1>2, <1>9 DEF Writes, Inserts, BasesOK
<1>10. \A i \in Ids : Stored(i) => Stored(i)' /\ items[i].mtime \in Nat
  BY <1>6, <1>7, <1>8 DEF Stored, Item
<1>11. TimesOK'
  BY <1>0, <1>1, <1>2, <1>4, <1>5, <1>6, <1>8 DEF TimesOK, Stored
<1>12. FreshOK'
  <2>1. \A i \in Ids : Stored(i)' \/ seen'[i] # NoItem => i \in used'
    BY <1>0, <1>1, <1>2, <1>6, <1>8 DEF FreshOK, Stored
  <2>2. \A v \in Writers : request'[v] # Idle => request'[v].ids \subseteq used'
    BY <1>0, <1>1, <1>2, <1>4, <1>5 DEF FreshOK
  <2>3. ASSUME NEW u \in Writers, Inserts(request'[u]), NEW i \in request'[u].ids \ HistoryIds
        PROVE  /\ ~Stored(i)' /\ seen'[i] = NoItem
               /\ \A v \in Writers \ {u} : request'[v] # Idle => i \notin request'[v].ids
    <3>1. CASE u = w
      <4>1. s # Idle /\ s.at \in {"insert", "tag"} /\ i \in r.ids
        BY <1>4, <1>5, <2>3, <3>1 DEF Inserts
      <4>2. r.at = "tag" /\ UNCHANGED tableVars
        BY <1>0, <1>2, <1>4, <2>3, <4>1 DEF BasesOK
      <4>3. Inserts(r)
        BY <1>2, <4>2 DEF Inserts
      <4> QED
        BY <1>0, <1>1, <1>5, <2>3, <3>1, <4>1, <4>2, <4>3 DEF FreshOK, Stored, tableVars
    <3>2. CASE u # w
      <4>1. request'[u] = request[u] /\ Inserts(request[u])
        BY <1>5, <2>3, <3>2
      <4>2. /\ ~Stored(i) /\ seen[i] = NoItem
            /\ \A v \in Writers \ {u} : request[v] # Idle => i \notin request[v].ids
        BY <1>0, <2>3, <4>1 DEF FreshOK
      <4>3. i \notin r.ids
        BY <1>2, <3>2, <4>2
      <4>4. i \in Ids
        BY <1>0, <2>3, <4>1 DEF TypeOK, Request, Inserts
      <4> QED
        BY <1>1, <1>2, <1>4, <1>5, <1>6, <1>8, <4>2, <4>3, <4>4 DEF Stored
    <3> QED
      BY <3>1, <3>2
  <2> QED
    BY <2>1, <2>2, <2>3 DEF FreshOK
<1>13. BasesOK'
  <2>1. ASSUME NEW u \in Writers, request'[u] # Idle, request'[u].at = "has"
        PROVE  request'[u].ids \subseteq HistoryIds
    BY <1>0, <1>4, <1>5, <2>1 DEF BasesOK
  <2>2. ASSUME NEW u \in Writers, request'[u] # Idle, request'[u].at = "update",
               NEW i \in request'[u].ids \ HistoryIds
        PROVE  /\ request'[u].base < request'[u].stamp
               /\ Stored(i)' => request'[u].base <= items'[i].mtime
    <3>1. CASE u = w
      <4>1. r.at = "has" /\ i \in r.ids
        BY <1>4, <1>5, <2>2, <3>1
      <4> QED
        BY <1>0, <1>2, <2>2, <4>1 DEF BasesOK
    <3>2. CASE u # w
      <4>1. request'[u] = request[u] /\ request[u] # Idle /\ request[u] \in Request
        BY <1>0, <1>5, <2>2, <3>2 DEF TypeOK
      <4>2. i \in Ids /\ request[u].base \in Nat /\ request[u].base < request[u].stamp
            /\ (Stored(i) => request[u].base <= items[i].mtime)
        BY <1>0, <2>2, <4>1 DEF BasesOK, Request
      <4>3. CASE items'[i] = items[i]
        BY <4>1, <4>2, <4>3 DEF Stored
      <4>4. CASE Writes(r, i)
        <5>1. ~Inserts(r)
          BY <1>0, <1>8, <2>2, <3>2, <4>1, <4>2, <4>4 DEF FreshOK
        <5>2. Stored(i) /\ items[i].mtime = r.base /\ r.base < r.stamp
          BY <1>9, <2>2, <4>2, <4>4, <5>1
        <5> QED
          BY <1>3, <1>8, <4>1, <4>2, <4>4, <5>2
      <4> QED
        BY <1>6, <4>2, <4>3, <4>4
    <3> QED
      BY <3>1, <3>2
  <2> QED
    BY <2>1, <2>2 DEF BasesOK
<1>14. ASSUME NEW i \in Ids \ HistoryIds, seen[i] # NoItem, Writes(r, i)
       PROVE  seen[i].mtime < items'[i].mtime
  <2>1. ~Inserts(r)
    BY <1>0, <1>8, <1>14 DEF FreshOK
  <2>2. Stored(i) /\ items[i].mtime = r.base /\ r.base < r.stamp
    BY <1>9, <1>14, <2>1
  <2>3. seen[i].mtime <= items[i].mtime /\ seen[i].mtime \in Nat
    BY <1>0, <1>14, <2>2 DEF SeenOK, TypeOK, Item
  <2> QED
    BY <1>3, <1>8, <1>14, <2>2, <2>3
<1>15. \A i \in Ids \ HistoryIds : seen[i] # NoItem => seen[i].mtime \in Nat
  BY <1>0 DEF TypeOK, Item
<1>16. \A i \in Ids \ HistoryIds : IsAsSeen(i)' => IsAsSeen(i)
  BY <1>1, <1>6, <1>14, <1>15 DEF IsAsSeen, Stored
<1>17. SeenOK'
  <2>1. \A i \in Ids \ HistoryIds :
          Stored(i)' /\ seen[i] # NoItem =>
            /\ seen[i].mtime <= items'[i].mtime
            /\ seen[i].mtime = items'[i].mtime => items'[i] = seen[i]
    <3>1. ASSUME NEW i \in Ids \ HistoryIds, Stored(i)', seen[i] # NoItem
          PROVE  /\ seen[i].mtime <= items'[i].mtime
                 /\ seen[i].mtime = items'[i].mtime => items'[i] = seen[i]
      <4>1. CASE items'[i] = items[i]
        BY <1>0, <3>1, <4>1 DEF SeenOK, Stored
      <4>2. CASE Writes(r, i)
        <5>1. items'[i].mtime \in Nat /\ seen[i].mtime < items'[i].mtime
          BY <1>3, <1>8, <1>14, <3>1, <4>2
        <5> QED
          BY <1>15, <3>1, <5>1
      <4> QED
        BY <1>6, <3>1, <4>1, <4>2
    <3> QED
      BY <3>1
  <2> QED
    BY <1>0, <1>1, <1>16, <2>1 DEF SeenOK, ClearedIsGone
<1> QED
  BY <1>11, <1>12, <1>13, <1>17

\* Versions are kept apart by a step that changes no request and, of the table, only
\* removes items.
LEMMA RemovalVersions ==
  ASSUME VersionInv, UNCHANGED <<request, used, seen>>, now' \in Nat, now <= now',
         \A i \in Ids : Stored(i)' => Stored(i) /\ items'[i] = items[i]
  PROVE  /\ TimesOK' /\ FreshOK' /\ BasesOK'
         /\ clear' = clear /\ left' = left => SeenOK'
<1>0. TypeOK /\ TimesOK /\ FreshOK /\ BasesOK /\ SeenOK /\ now \in Nat
  BY DEF VersionInv, TypeOK, TableTypeOK
<1>1. /\ \A i \in Ids : Stored(i) => items[i].mtime \in Nat
      /\ \A w \in Writers : request[w] # Idle => /\ request[w].stamp \in Nat
                                                 /\ request[w].ids \subseteq Ids
  BY <1>0 DEF TypeOK, TableTypeOK, Stored, Item, Request
<1>2. TimesOK'
  BY <1>0, <1>1 DEF TimesOK
<1>3. FreshOK'
  BY <1>0, <1>1 DEF FreshOK, Inserts
<1>4. BasesOK'
  BY <1>0, <1>1 DEF BasesOK
<1>5. \A i \in Ids : IsAsSeen(i)' => IsAsSeen(i)
  BY DEF IsAsSeen
<1>6. clear' = clear /\ left' = left => SeenOK'
  BY <1>0, <1>5 DEF SeenOK, ClearedIsGone
<1> QED
  BY <1>2, <1>3, <1>4, <1>6

\* Every step keeps versions apart.
LEMMA VersionStep ==
  ASSUME VersionInv, [Next]_vars
  PROVE  VersionInv'
<1>0. TypeOK /\ TimesOK /\ FreshOK /\ BasesOK /\ SeenOK /\ now \in Nat /\ TableTypeOK
  BY DEF VersionInv, TypeOK, TableTypeOK
<1>t. TypeOK'
  BY <1>0, TypeStep
<1>s. SUFFICES TimesOK' /\ FreshOK' /\ BasesOK' /\ SeenOK'
  BY <1>t DEF VersionInv
<1>1. ASSUME NEW w \in Writers,
             CommitNew(w) \/ CommitChange(w) \/ CommitHistory(w) \/ NewClient(w)
      PROVE  TimesOK' /\ FreshOK' /\ BasesOK' /\ SeenOK'
  BY <1>1, ReceiveVersions
<1>2. ASSUME NEW w \in Writers, Write(w) PROVE TimesOK' /\ FreshOK' /\ BasesOK' /\ SeenOK'
  BY <1>2, WriteVersions
<1>3. ASSUME UNCHANGED <<items, now, request, used, seen>>
      PROVE  /\ TimesOK' /\ FreshOK' /\ BasesOK'
             /\ clear' = clear /\ left' = left => SeenOK'
  BY <1>0, <1>3, RemovalVersions DEF Stored
<1>4. ASSUME NEW ty \in Types, Query(ty) PROVE TimesOK' /\ FreshOK' /\ BasesOK' /\ SeenOK'
  BY <1>3, <1>4 DEF Query, tableVars, chainVars, clearVars
<1>5. CASE Fetch
  BY <1>3, <1>5 DEF Fetch, tableVars, chainVars, clearVars
<1>6. CASE Disable
  <2>1. UNCHANGED <<items, now, request, used, seen>> /\ clear' = "query"
    BY <1>6 DEF Disable, DisableSyncChain, chainVars
  <2> QED
    BY <1>0, <1>3, <2>1 DEF SeenOK, ClearedIsGone, IsAsSeen, Stored
<1>7. CASE Scan
  <2>1. UNCHANGED <<items, now, request, used>> /\ clear' = "delete" /\ seen' = items
        /\ left' = AllKeys
    BY <1>7 DEF Scan, tableVars, chainVars
  <2>2. \A i \in Ids : Stored(i)' <=> Stored(i)
    BY <2>1 DEF Stored
  <2>3. TimesOK' /\ BasesOK'
    BY <1>0, <2>1, <2>2 DEF TimesOK, BasesOK, TypeOK, Request
  <2>4. FreshOK'
    <3>1. \A w \in Writers : request[w] # Idle => request[w].ids \subseteq Ids
      BY <1>0 DEF TypeOK, Request
    <3>2. \A i \in Ids : seen'[i] # NoItem <=> Stored(i)
      BY <2>1 DEF Stored
    <3> QED
      BY <1>0, <2>1, <2>2, <3>1, <3>2 DEF FreshOK, Inserts
  <2>5. \A i \in Ids : i \in left' <=> Stored(i)
    BY <1>0, <2>1, DynamoAssumption DEF AllKeys, TableTypeOK
  <2>6. \A i \in Ids : Stored(i) => items[i].mtime \in Nat
    BY <1>0 DEF TableTypeOK, Stored, Item
  <2>7. SeenOK'
    BY <2>1, <2>2, <2>5, <2>6 DEF SeenOK, ClearedIsGone, IsAsSeen, Stored
  <2> QED
    BY <2>3, <2>4, <2>7
<1>8. CASE Delete
  <2>1. UNCHANGED <<now, request, used, seen>> /\ clear = "delete" /\ clear' # "succeeded"
    BY <1>8 DEF Delete, chainVars
  <2>2. \/ UNCHANGED <<items, left>>
        \/ \E B \in SUBSET left : DeleteBatch(B) /\ left' = left \ B
    BY <1>8 DEF Delete, Batches, tableVars
  <2>3. CASE UNCHANGED <<items, left>>
    BY <1>0, <1>3, <2>1, <2>3 DEF SeenOK, ClearedIsGone, IsAsSeen, Stored
  <2>4. CASE \E B \in SUBSET left : DeleteBatch(B) /\ left' = left \ B
    <3>1. PICK B \in SUBSET left : DeleteBatch(B) /\ left' = left \ B
      BY <2>4
    <3>2. \A i \in Ids : items'[i] = IF i \in B THEN NoItem ELSE items[i]
      BY <3>1 DEF DeleteBatch
    <3>3. \A i \in Ids : Stored(i)' => items'[i] = items[i] /\ Stored(i) /\ i \notin B
      BY <3>2 DEF Stored
    <3>4. TimesOK' /\ FreshOK' /\ BasesOK'
      BY <1>0, <2>1, <3>3, RemovalVersions
    <3>5. \A i \in Ids : IsAsSeen(i)' => IsAsSeen(i) /\ i \notin B
      BY <2>1, <3>3 DEF IsAsSeen
    <3>6. SeenOK'
      BY <1>0, <2>1, <3>1, <3>3, <3>5 DEF SeenOK, ClearedIsGone
    <3> QED
      BY <3>4, <3>6
  <2> QED
    BY <2>2, <2>3, <2>4
<1>9. CASE Cleared
  <2>1. UNCHANGED <<items, now, request, used, seen, left>> /\ clear = "delete"
        /\ clear' = "succeeded" /\ left = {}
    BY <1>9 DEF Cleared, NothingLeft, tableVars, chainVars
  <2>2. \A i \in Ids : IsAsSeen(i)' <=> IsAsSeen(i)
    BY <2>1 DEF IsAsSeen, Stored
  <2> QED
    BY <1>0, <1>3, <2>1, <2>2 DEF SeenOK, ClearedIsGone, Stored
<1>10. ASSUME NEW i \in Ids, RemoveExpired(i)
       PROVE  TimesOK' /\ FreshOK' /\ BasesOK' /\ SeenOK'
  <2>1. UNCHANGED <<now, request, used, seen, left, clear>>
    BY <1>10 DEF RemoveExpired, chainVars, clearVars
  <2>2. \A j \in Ids : Stored(j)' => items'[j] = items[j] /\ Stored(j)
    BY <1>0, <1>10 DEF RemoveExpired, TimeToLive, Stored, TableTypeOK
  <2> QED
    BY <1>0, <2>1, <2>2, RemovalVersions
<1>11. CASE Tick
  <2>1. UNCHANGED <<items, request, used, clearVars>> /\ now' = now + 1
    BY <1>11 DEF Tick, tableVars, chainVars
  <2> QED
    BY <1>0, <2>1, RemovalVersions DEF Stored, clearVars
<1>12. CASE UNCHANGED vars
  BY <1>3, <1>12 DEF vars, tableVars, chainVars, clearVars
<1> QED
  BY <1>1, <1>2, <1>4, <1>5, <1>6, <1>7, <1>8, <1>9, <1>10, <1>11, <1>12, ChainAssumption
     DEF Next

(* What a clear deletes ----------------------------------------------------*)

\* A step deletes only what is expired or what the clear has seen.
LEMMA DeleteStep ==
  ASSUME VersionInv, Next, NEW i \in Ids, Stored(i), items'[i] = NoItem
  PROVE  Expired(i) \/ (clear = "delete" /\ IsAsSeen(i))
<1>0. TypeOK /\ SeenOK /\ TableTypeOK
  BY DEF VersionInv, TypeOK
<1>1. items'[i] # items[i]
  BY DEF Stored
<1>2. ASSUME NEW w \in Writers,
             CommitNew(w) \/ CommitChange(w) \/ CommitHistory(w) \/ NewClient(w)
      PROVE  FALSE
  BY <1>0, <1>1, <1>2, Requests DEF Receive, tableVars
<1>3. ASSUME NEW w \in Writers, Write(w) PROVE FALSE
  BY <1>0, <1>1, <1>3, WriteItems, DynamoAssumption DEF Writes
<1>4. CASE Delete
  <2>1. PICK B \in Batches(left) : ~BatchFails(B, seen) /\ DeleteBatch(B)
    BY <1>1, <1>4 DEF Delete, tableVars
  <2>2. i \in B
    BY <1>1, <2>1 DEF DeleteBatch
  <2>3. items[i].mtime = seen[i].mtime
    BY <2>1, <2>2 DEF BatchFails
  <2>4. clear = "delete" /\ i \in left
    BY <1>4, <2>1, <2>2 DEF Delete, Batches
  <2> QED
    BY <1>0, <2>3, <2>4 DEF SeenOK, IsAsSeen
<1>5. ASSUME NEW j \in Ids, RemoveExpired(j) PROVE Expired(i)
  BY <1>0, <1>1, <1>5 DEF RemoveExpired, TimeToLive, TableTypeOK
<1>6. ~UNCHANGED items
  BY <1>1
<1> QED
  BY <1>2, <1>3, <1>4, <1>5, <1>6
     DEF Next, Query, Fetch, Disable, DisableSyncChain, Scan, Cleared, Tick, tableVars

\* sync_entity.go:416, "Fail delete if race condition detected": an entity goes only in
\* the version the clear's query returned, or when it has expired.
THEOREM ClearDeletesWhatItSaw == Spec => NoBlindDelete
<1>1. VersionInv /\ [Next]_vars =>
        [\A i \in Ids : Stored(i) /\ items'[i] = NoItem =>
           Expired(i) \/ (clear = "delete" /\ IsAsSeen(i))]_vars
  BY DeleteStep
<1> QED
  BY <1>1, VersionInit, VersionStep, PTL DEF Spec, NoBlindDelete

\* sync_entity.go:376-469: when the clear has succeeded, every entity that is left was
\* written after its query.
THEOREM SuccessIsComplete == Spec => []ClearedIsGone
<1>1. VersionInv => ClearedIsGone
  BY DEF VersionInv, SeenOK
<1> QED
  BY <1>1, VersionInit, VersionStep, PTL DEF Spec

(* Tag items ---------------------------------------------------------------*)

\* The tag items are those of the entities that hold their tag, one each, and of the
\* directives that have been removed.
TagsOK ==
  /\ \A t \in Tags :
       t \in others <=> t \in orphans \/ \E i \in Ids : HoldsTag(i) /\ TagOf[i] = t
  /\ \A i \in Ids : HoldsTag(i) => TagOf[i] \notin orphans
  /\ \A i, j \in Ids : HoldsTag(i) /\ HoldsTag(j) /\ TagOf[i] = TagOf[j] => i = j

\* History has no tags.
LEMMA TagFacts ==
  ASSUME NEW i \in Ids
  PROVE  /\ TagOf[i] = NoTag => TagItem(i) = {}
         /\ TagOf[i] # NoTag => TagOf[i] \in Tags /\ TagItem(i) = {TagOf[i]} /\ i \notin HistoryIds
  BY DynamoAssumption DEF TagItem

\* Putting new entities takes tags nobody holds.
LEMMA PutNewTags ==
  ASSUME TableTypeOK, TagsOK, NEW R \in SUBSET Ids, NEW stamp \in Nat, PutNew(R, stamp),
         UNCHANGED orphans,
         \A i, j \in R : TagOf[i] = TagOf[j] /\ TagOf[i] # NoTag => i = j
  PROVE  TagsOK'
<1>1. CASE UNCHANGED tableVars
  BY <1>1 DEF tableVars, TagsOK, HoldsTag, Stored
<1>2. CASE /\ ~AlreadyExists(R)
           /\ items' = [i \in Ids |-> IF i \in R THEN NewItem(i, stamp) ELSE items[i]]
           /\ others' = others \cup UNION {TagItem(i) : i \in R}
  <2>1. \A i \in R : ~Stored(i) /\ (TagOf[i] # NoTag => TagOf[i] \notin others)
    BY <1>2, TagFacts DEF AlreadyExists
  <2>2. \A i \in Ids : NewItem(i, stamp) # NoItem /\ ~NewItem(i, stamp).deleted
    <3>1. \A i \in Ids : NewItem(i, stamp) \in Item
      BY DynamoAssumption DEF NewItem, Item, Expires
    <3> QED
      BY <3>1, DynamoAssumption DEF NewItem
  <2>3. \A i \in Ids : HoldsTag(i)' <=> HoldsTag(i) \/ (i \in R /\ TagOf[i] # NoTag)
    BY <1>2, <2>1, <2>2 DEF HoldsTag, Stored
  <2>4. \A t \in Tags : t \in others' <=> t \in others \/ \E i \in R : TagOf[i] = t
    BY <1>2, TagFacts, DynamoAssumption DEF TagItem
  <2>5. /\ \A i \in Ids : HoldsTag(i) => TagOf[i] \in others
        /\ \A i \in R : TagOf[i] # NoTag => TagOf[i] \notin orphans
    BY <2>1, TagFacts DEF TagsOK, HoldsTag
  <2>6. ASSUME NEW t \in Tags
        PROVE  t \in others' <=> t \in orphans \/ \E i \in Ids : HoldsTag(i)' /\ TagOf[i] = t
    BY <2>3, <2>4, DynamoAssumption DEF TagsOK
  <2>8. \A i \in Ids : HoldsTag(i)' => TagOf[i] \notin orphans
    BY <2>3, <2>5 DEF TagsOK
  <2>7. ASSUME NEW i \in Ids, NEW j \in Ids, HoldsTag(i)', HoldsTag(j)', TagOf[i] = TagOf[j]
        PROVE  i = j
    BY <2>1, <2>3, <2>5, <2>7 DEF TagsOK
  <2> QED
    BY <2>6, <2>7, <2>8 DEF TagsOK
<1> QED
  BY <1>1, <1>2 DEF PutNew

\* Updating an entity that is not deleted frees its tag if it deletes it, and no other.
LEMMA UpdateTags ==
  ASSUME TableTypeOK, TagsOK, NEW i \in Ids, NEW base, NEW stamp \in Nat,
         NEW deleted \in BOOLEAN, UpdateSyncEntity(i, base, stamp, deleted),
         UNCHANGED orphans,
         i \notin HistoryIds /\ Stored(i) /\ items[i].mtime = base => ~items[i].deleted
  PROVE  TagsOK'
<1>1. CASE UNCHANGED tableVars
  BY <1>1 DEF tableVars, TagsOK, HoldsTag, Stored
<1>2. CASE /\ ~UpdateConflicts(i, base)
           /\ items' = [items EXCEPT ![i].mtime = stamp, ![i].deleted = deleted]
           /\ others' = others \ FreedTagItem(i, deleted)
  <2>1. items[i] \in Item /\ Stored(i) /\ (i \notin HistoryIds => items[i].mtime = base)
    BY <1>2 DEF UpdateConflicts, Stored, TableTypeOK
  <2> DEFINE new == [items[i] EXCEPT !.mtime = stamp, !.deleted = deleted]
  <2>2. items' = [items EXCEPT ![i] = new]
    BY <1>2, <2>1 DEF TableTypeOK, Item
  <2>3. new \in Item /\ new.deleted = deleted
    BY <2>1 DEF Item
  <2> HIDE DEF new
  <2>4. new # NoItem
    BY <2>3, DynamoAssumption
  <2>5. \A j \in Ids : items'[j] = IF j = i THEN new ELSE items[j]
    BY <2>2 DEF TableTypeOK
  <2>6. CASE TagOf[i] = NoTag
    <3>1. others' = others
      BY <1>2, <2>6, TagFacts DEF FreedTagItem
    <3>2. \A j \in Ids : HoldsTag(j)' <=> HoldsTag(j)
      BY <2>5, <2>6 DEF HoldsTag, Stored
    <3> QED
      BY <3>1, <3>2 DEF TagsOK
  <2>7. CASE TagOf[i] # NoTag
    <3>1. HoldsTag(i) /\ TagOf[i] \in Tags
      BY <2>1, <2>7, TagFacts DEF HoldsTag
    <3>2. \A j \in Ids : HoldsTag(j)' <=> HoldsTag(j) /\ ~(j = i /\ deleted)
      BY <2>3, <2>4, <2>5, <3>1 DEF HoldsTag, Stored
    <3>3. \A t : t \in others' <=> t \in others /\ ~(deleted /\ t = TagOf[i])
      BY <1>2, <2>7, TagFacts DEF FreedTagItem
    <3>4. ASSUME NEW t \in Tags
          PROVE  t \in others' <=>
                   t \in orphans \/ \E j \in Ids : HoldsTag(j)' /\ TagOf[j] = t
      BY <3>1, <3>2, <3>3 DEF TagsOK
    <3> QED
      BY <3>2, <3>4 DEF TagsOK
  <2> QED
    BY <2>6, <2>7
<1> QED
  BY <1>1, <1>2 DEF UpdateSyncEntity

\* What the store relies on in a request: inserts share no tag, and a device edits
\* nothing it knows to be deleted.
RequestsOK ==
  \A w \in Writers :
    request[w] # Idle =>
      /\ request[w].at \in {"tag", "insert"} =>
           \A i, j \in request[w].ids : TagOf[i] = TagOf[j] /\ TagOf[i] # NoTag => i = j
      /\ request[w].at = "update" =>
           \A i \in request[w].ids :
             i \notin HistoryIds /\ Stored(i) /\ items[i].mtime = request[w].base =>
               ~items[i].deleted

\* What is cleared is disabled.
OthersOK ==
  /\ clear # "idle" => Disabled
  /\ Disabled \/ TagsOK

TagInv == VersionInv /\ RequestsOK /\ OthersOK

\* It holds of the empty table.
LEMMA TagInit == Init => TagInv
<1> SUFFICES ASSUME Init PROVE TagInv
  OBVIOUS
<1>1. VersionInv
  BY VersionInit
<1>2. others = {} /\ orphans = {} /\ (\A i \in Ids : ~Stored(i)) /\ clear = "idle"
      /\ \A w \in Writers : request[w] = Idle
  BY DEF Init, TableInit, Stored
<1> QED
  BY <1>1, <1>2 DEF TagInv, RequestsOK, OthersOK, TagsOK, HoldsTag

\* Every step keeps it.
LEMMA TagStep ==
  ASSUME TagInv, [Next]_vars
  PROVE  TagInv'
<1>0. /\ VersionInv /\ TypeOK /\ BasesOK /\ FreshOK /\ TableTypeOK
      /\ RequestsOK /\ OthersOK
  BY DEF TagInv, VersionInv, TypeOK
<1>v. VersionInv'
  BY <1>0, VersionStep
<1>s. SUFFICES RequestsOK' /\ OthersOK'
  BY <1>v DEF TagInv
<1>1. ASSUME NEW w \in Writers,
             CommitNew(w) \/ CommitChange(w) \/ CommitHistory(w) \/ NewClient(w)
      PROVE  RequestsOK' /\ OthersOK'
  <2>1. PICK r \in Request :
          /\ Receive(w, r)
          /\ \/ /\ r.at \in {"insert", "tag"}
                /\ \A i, j \in r.ids : TagOf[i] = TagOf[j] => i = j
             \/ r.at = "has" /\ r.ids \subseteq HistoryIds
             \/ /\ r.at = "update"
                /\ \E i \in Ids : r.ids = {i} /\ ~items[i].deleted
    BY <1>0, <1>1, Requests
  <2>2. UNCHANGED <<items, others, orphans, clear>> /\ request' = [request EXCEPT ![w] = r]
    BY <2>1 DEF Receive, tableVars, clearVars
  <2>3. request'[w] = r /\ \A v \in Writers : v # w => request'[v] = request[v]
    BY <1>0, <2>2 DEF TypeOK
  <2>4. RequestsOK'
    BY <1>0, <2>1, <2>2, <2>3 DEF RequestsOK, Stored
  <2> QED
    BY <1>0, <2>2, <2>4 DEF OthersOK, TagsOK, HoldsTag, Stored, Disabled
<1>2. ASSUME NEW w \in Writers, Write(w) PROVE RequestsOK' /\ OthersOK'
  <2> DEFINE r == request[w]
  <2>0. UNCHANGED <<clear, orphans>>
    BY <1>2 DEF Write, clearVars
  <2>1. r \in Request /\ r # Idle
    BY <1>0, <1>2, WriteEffect, ChainAssumption
  <2>2. r.ids \in SUBSET Ids /\ r.stamp \in Nat /\ r.deleted \in BOOLEAN
    BY <2>1 DEF Request
  <2>3. PICK s \in Request \cup {Idle} :
          /\ request' = [request EXCEPT ![w] = s]
          /\ s # Idle => s.ids = r.ids
          /\ s # Idle => \/ r.at = "has" /\ s.at \in {"update", "insert"}
                         \/ r.at = "tag" /\ s.at = "insert"
                         \/ s.at = "count"
    BY <1>0, <1>2, WriteEffect
  <2>4. request'[w] = s /\ \A v \in Writers : v # w => request'[v] = request[v]
    BY <1>0, <2>3 DEF TypeOK
  <2>5. \A i \in Ids : items'[i] = items[i] \/ Writes(r, i)
    BY <1>0, <1>2, WriteItems
  <2>6. RequestsOK'
    <3> SUFFICES ASSUME NEW u \in Writers, request'[u] # Idle
                 PROVE  /\ request'[u].at \in {"tag", "insert"} =>
                             \A i, j \in request'[u].ids :
                               TagOf[i] = TagOf[j] /\ TagOf[i] # NoTag => i = j
                        /\ request'[u].at = "update" =>
                             \A i \in request'[u].ids :
                               i \notin HistoryIds /\ Stored(i)' /\
                               items'[i].mtime = request'[u].base => ~items'[i].deleted
      BY DEF RequestsOK
    <3>1. CASE u = w
      <4>1. s # Idle /\ s.ids = r.ids /\ request'[u] = s
        BY <2>3, <2>4, <3>1
      <4>2. CASE r.at = "has" /\ s.at \in {"update", "insert"}
        <5>1. r.ids \subseteq HistoryIds
          BY <1>0, <2>1, <4>2 DEF BasesOK
        <5> QED
          BY <4>1, <4>2, <5>1, DynamoAssumption
      <4>3. CASE r.at = "tag" /\ s.at = "insert"
        BY <1>0, <2>1, <4>1, <4>3 DEF RequestsOK
      <4>4. CASE s.at = "count"
        BY <4>1, <4>4
      <4> QED
        BY <2>3, <4>1, <4>2, <4>3, <4>4
    <3>2. CASE u # w
      <4>1. request'[u] = request[u] /\ request[u] \in Request
        BY <1>0, <2>4, <3>2 DEF TypeOK
      <4>2. ASSUME NEW i \in request[u].ids \ HistoryIds, items'[i] # items[i],
                   request[u].at = "update"
            PROVE  items'[i].mtime # request[u].base
        <5>1. i \in Ids /\ request[u].base \in Nat /\ request[u] # Idle
          BY <4>1, <4>2, ChainAssumption DEF Request
        <5>2. Writes(r, i)
          BY <2>5, <4>2, <5>1
        <5>3. ~Inserts(r)
          BY <1>0, <3>2, <4>2, <5>1, <5>2 DEF FreshOK, Writes
        <5>4. /\ Stored(i) /\ items[i].mtime = r.base /\ items'[i].mtime = r.stamp
              /\ r.base < r.stamp
          BY <1>0, <2>1, <4>2, <5>2, <5>3 DEF Writes, Inserts, BasesOK
        <5>5. request[u].base <= items[i].mtime
          BY <1>0, <4>2, <5>1, <5>4 DEF BasesOK
        <5>6. r.base \in Nat /\ r.stamp \in Nat
          BY <2>1 DEF Request
        <5> QED
          BY <5>1, <5>4, <5>5, <5>6
      <4>3. request[u].at = "update" =>
              \A i \in request[u].ids \ HistoryIds :
                Stored(i)' /\ items'[i].mtime = request[u].base =>
                  Stored(i) /\ items'[i] = items[i]
        BY <4>2 DEF Stored
      <4> QED
        BY <1>0, <4>1, <4>3, <2>4, <3>2 DEF RequestsOK
    <3> QED
      BY <3>1, <3>2
  <2>8. (Disabled \/ TagsOK)' /\ (Disabled => Disabled')
    <3>0. \/ UNCHANGED tableVars
          \/ r.at = "insert" /\ PutNew(r.ids, r.stamp)
          \/ r.at = "update" /\ \E i \in r.ids : UpdateSyncEntity(i, r.base, r.stamp, r.deleted)
          \/ UpdateClientItemCount
      BY <1>0, <1>2, WriteEffect
    <3>1. CASE UNCHANGED tableVars
      BY <1>0, <2>0, <3>1 DEF tableVars, OthersOK, TagsOK, HoldsTag, Stored, Disabled
    <3>2. CASE r.at = "insert" /\ PutNew(r.ids, r.stamp)
      <4>1. TagsOK => TagsOK'
        BY <1>0, <2>0, <2>1, <2>2, <3>2, PutNewTags DEF RequestsOK
      <4>2. Disabled => Disabled'
        BY <3>2 DEF PutNew, tableVars, Disabled
      <4> QED
        BY <1>0, <4>1, <4>2 DEF OthersOK
    <3>3. ASSUME r.at = "update", NEW i \in r.ids,
                 UpdateSyncEntity(i, r.base, r.stamp, r.deleted)
          PROVE  (Disabled \/ TagsOK)' /\ (Disabled => Disabled')
      <4>1. TagsOK => TagsOK'
        BY <1>0, <2>0, <2>1, <2>2, <3>3, UpdateTags DEF RequestsOK
      <4>2. Disabled => Disabled'
        <5>1. FreedTagItem(i, r.deleted) \subseteq Tags
          BY <2>2, TagFacts DEF FreedTagItem
        <5> QED
          BY <3>3, <5>1, DynamoAssumption DEF UpdateSyncEntity, tableVars, Disabled
      <4> QED
        BY <1>0, <4>1, <4>2 DEF OthersOK
    <3>4. CASE UpdateClientItemCount
      <4>1. \A t \in Tags \cup {Marker} : t \in others' <=> t \in others
        BY <3>4, DynamoAssumption DEF UpdateClientItemCount
      <4> QED
        BY <1>0, <2>0, <3>4, <4>1 DEF UpdateClientItemCount, OthersOK, TagsOK, HoldsTag, Stored, Disabled
    <3> QED
      BY <3>0, <3>1, <3>2, <3>3, <3>4
  <2> QED
    BY <1>0, <2>0, <2>6, <2>8 DEF OthersOK
<1>3. ASSUME UNCHANGED <<tableVars, request, clear, orphans>> PROVE RequestsOK' /\ OthersOK'
  BY <1>0, <1>3 DEF tableVars, RequestsOK, OthersOK, TagsOK, HoldsTag, Stored, Disabled
<1>4. ASSUME NEW ty \in Types, Query(ty) PROVE RequestsOK' /\ OthersOK'
  BY <1>3, <1>4 DEF Query, chainVars, clearVars
<1>5. CASE Fetch
  BY <1>3, <1>5 DEF Fetch, chainVars, clearVars
<1>6. CASE Disable
  BY <1>0, <1>6 DEF Disable, DisableSyncChain, chainVars, RequestsOK, OthersOK, Stored, Disabled
<1>7. CASE Scan
  BY <1>0, <1>7 DEF Scan, tableVars, chainVars, RequestsOK, OthersOK, Stored, Disabled
<1>8. CASE Delete
  <2>1. UNCHANGED request /\ clear = "delete"
    BY <1>8 DEF Delete, chainVars
  <2>2. Disabled
    BY <1>0, <2>1 DEF OthersOK
  <2>3. \/ UNCHANGED tableVars
        \/ \E B \in SUBSET left : DeleteBatch(B)
    BY <1>8 DEF Delete, Batches
  <2>4. Disabled' /\ \A i \in Ids : Stored(i)' => items'[i] = items[i] /\ Stored(i)
    BY <2>2, <2>3 DEF tableVars, DeleteBatch, Disabled, Stored
  <2>5. RequestsOK'
    <3>1. \A w \in Writers : request[w] # Idle => request[w].ids \subseteq Ids
      BY <1>0 DEF TypeOK, Request
    <3> QED
      BY <1>0, <2>1, <2>4, <3>1 DEF RequestsOK
  <2> QED
    BY <1>0, <2>4, <2>5 DEF OthersOK
<1>9. CASE Cleared
  BY <1>0, <1>9 DEF Cleared, tableVars, chainVars, RequestsOK, OthersOK, Stored, Disabled
<1>10. ASSUME NEW i \in Ids, RemoveExpired(i) PROVE RequestsOK' /\ OthersOK'
  <2>1. UNCHANGED <<request, others, clear>>
    BY <1>10 DEF RemoveExpired, TimeToLive, chainVars, clearVars
  <2>2. \A j \in Ids : items'[j] = IF j = i THEN NoItem ELSE items[j]
    BY <1>0, <1>10 DEF RemoveExpired, TimeToLive, TableTypeOK
  <2>3. \A j \in Ids : Stored(j)' => items'[j] = items[j] /\ Stored(j)
    BY <2>2 DEF Stored
  <2>4. \A j \in Ids : HoldsTag(j)' <=> HoldsTag(j) /\ j # i
    BY <2>2 DEF HoldsTag, Stored
  <2>5. RequestsOK'
    <3>1. \A w \in Writers : request[w] # Idle => request[w].ids \subseteq Ids
      BY <1>0 DEF TypeOK, Request
    <3> QED
      BY <1>0, <2>1, <2>3, <3>1 DEF RequestsOK
  <2>6. TagsOK => TagsOK'
    <3>1. CASE HoldsTag(i)
      <4>1. orphans' = orphans \cup {TagOf[i]}
        BY <1>10, <3>1 DEF RemoveExpired
      <4> QED
        BY <2>1, <2>4, <3>1, <4>1 DEF TagsOK
    <3>2. CASE ~HoldsTag(i)
      <4>1. orphans' = orphans
        BY <1>10, <3>2 DEF RemoveExpired
      <4> QED
        BY <2>1, <2>4, <3>2, <4>1 DEF TagsOK
    <3> QED
      BY <3>1, <3>2
  <2> QED
    BY <1>0, <2>1, <2>5, <2>6 DEF OthersOK, Disabled
<1>11. CASE Tick
  BY <1>3, <1>11 DEF Tick, chainVars, clearVars
<1>12. CASE UNCHANGED vars
  BY <1>3, <1>12 DEF vars, chainVars, clearVars
<1> QED
  BY <1>1, <1>2, <1>4, <1>5, <1>6, <1>7, <1>8, <1>9, <1>10, <1>11, <1>12, ChainAssumption
     DEF Next

\* sync_entity.go:162-344 and 539-590: until the chain is disabled, the tag items are
\* those of the entities that are not deleted and of directives time to live has
\* removed, and no tag is held twice.
THEOREM TagItemsAreExact == Spec => []TagItemsExact
<1>1. TagInv => TagItemsExact
  <2> SUFFICES ASSUME TagInv, ~Disabled PROVE
        /\ others \cap Tags = {TagOf[i] : i \in {j \in Ids : HoldsTag(j)}} \cup orphans
        /\ \A i \in Ids : HoldsTag(i) => TagOf[i] \notin orphans
        /\ \A i, j \in Ids : HoldsTag(i) /\ HoldsTag(j) /\ TagOf[i] = TagOf[j] => i = j
    BY DEF TagItemsExact
  <2>1. TagsOK /\ orphans \subseteq Tags
    BY DEF TagInv, OthersOK, VersionInv, TypeOK
  <2>2. \A i \in Ids : HoldsTag(i) => TagOf[i] \in Tags
    BY TagFacts DEF HoldsTag
  <2> QED
    BY <2>1, <2>2 DEF TagsOK
<1> QED
  BY <1>1, TagInit, TagStep, PTL DEF Spec

(* What a marker passes by -------------------------------------------------*)

\* Of what the query left out of its page, nothing was earlier than the page.
PageOK ==
  page # Idle =>
    \A j \in page.keys, i \in Ids \ page.keys :
      page.before[i] # NoItem /\ TypeOf(i) = page.type
        /\ page.before[i].mtime > token[page.type] =>
          page.before[j].mtime <= page.before[i].mtime

ReadInv == TypeOK /\ PageOK

\* A query sorts by mtime before it cuts the page.
LEMMA QueryReads ==
  ASSUME TypeOK, NEW ty \in Types, Query(ty)
  PROVE  PageOK'
<1>1. PICK P \in Pages(ty, token[ty]) :
        /\ page' = [keys |-> P, type |-> ty, before |-> items]
        /\ UNCHANGED token
  BY DEF Query
<1>2. page'.keys = P /\ page'.type = ty /\ page'.before = items
  BY <1>1
<1>3. \A j \in P : \A i \in Newer(ty, token[ty]) \ P : items[j].mtime <= items[i].mtime
  BY DEF Pages
<1> QED
  BY <1>1, <1>2, <1>3 DEF PageOK, Newer, Stored

\* Every step keeps the page.
LEMMA ReadStep ==
  ASSUME ReadInv, [Next]_vars
  PROVE  ReadInv'
<1>0. TypeOK /\ PageOK
  BY DEF ReadInv
<1>1. TypeOK'
  BY <1>0, TypeStep
<1>2. ASSUME UNCHANGED readVars PROVE PageOK'
  BY <1>0, <1>2 DEF PageOK, readVars
<1>3. ASSUME NEW ty \in Types, Query(ty) PROVE PageOK'
  BY <1>0, <1>3, QueryReads
<1>4. ASSUME Fetch PROVE PageOK'
  BY <1>4 DEF Fetch, PageOK
<1>5. UNCHANGED readVars \/ Fetch \/ \E ty \in Types : Query(ty)
  BY ChainAssumption
     DEF Next, CommitNew, CommitChange, CommitHistory, NewClient, Receive, Write, Disable, Scan,
         Delete, Cleared, RemoveExpired, Tick, vars
<1> QED
  BY <1>1, <1>2, <1>3, <1>4, <1>5 DEF ReadInv

\* A page that is fetched passes by no entity but those it loses.
LEMMA FetchPasses ==
  ASSUME ReadInv, Fetch, NEW i \in Ids, ~Skipped(i), Skipped(i)'
  PROVE  PageLoses(i)
<1> DEFINE F == Fetched(page.keys)
<1>0. TypeOK /\ PageOK /\ page # Idle /\ page \in Page
  BY DEF ReadInv, TypeOK, Fetch
<1>1. /\ UNCHANGED <<items, now>>
      /\ received' = [j \in Ids |-> IF j \in F THEN items[j].mtime ELSE received[j]]
      /\ F = {} => UNCHANGED token
      /\ F # {} => \E m \in LastMtime(F) : token' = [token EXCEPT ![page.type] = m]
  BY DEF Fetch, tableVars
<1>2. /\ Stored(i) /\ ~Expired(i) /\ items[i].mtime <= token'[TypeOf(i)]
      /\ received'[i] # items[i].mtime
  BY <1>1 DEF Skipped, Stored, Expired
<1>3. i \notin F
  BY <1>1, <1>2
<1>4. i \notin page.keys
  BY <1>2, <1>3 DEF Fetched
<1>5. ~(items[i].mtime <= token[TypeOf(i)])
  BY <1>1, <1>2, <1>3 DEF Skipped
<1>6. PICK m \in LastMtime(F) : token' = [token EXCEPT ![page.type] = m]
  BY <1>1, <1>2, <1>5
<1>7. PICK j \in F : items[j].mtime = m
  BY <1>6 DEF LastMtime
<1>8. TypeOf(i) = page.type /\ token'[page.type] = m
  BY <1>0, <1>2, <1>5, <1>6 DEF TypeOK, Page
<1>9. j \in page.keys /\ j \in Ids /\ Stored(j)
  BY <1>0, <1>7 DEF Fetched, Page
<1>10. /\ items[i].mtime \in Nat /\ items[j].mtime \in Nat /\ token[page.type] \in Nat
  BY <1>0, <1>2, <1>9 DEF TypeOK, TableTypeOK, Stored, Item, Page
<1>11. items[i].mtime <= items[j].mtime /\ items[i].mtime > token[page.type]
  BY <1>2, <1>5, <1>7, <1>8, <1>10
<1>12. CASE items[i] = page.before[i] /\ items[j] = page.before[j]
  <2>1. items[j].mtime <= items[i].mtime
    BY <1>0, <1>2, <1>4, <1>8, <1>9, <1>11, <1>12 DEF PageOK, Stored
  <2>2. items[j].mtime = items[i].mtime
    BY <1>10, <1>11, <2>1
  <2> QED
    BY <1>0, <1>7, <2>2 DEF PageLoses
<1>13. CASE items[i] # page.before[i] \/ items[j] # page.before[j]
  BY <1>0, <1>7, <1>10, <1>11, <1>13 DEF PageLoses
<1> QED
  BY <1>12, <1>13

\* No other step passes by an entity that it does not write.
LEMMA OthersPass ==
  ASSUME TypeOK, [Next]_vars, ~Fetch, NEW i \in Ids, ~Skipped(i), Skipped(i)'
  PROVE  items'[i] # items[i]
<1>1. UNCHANGED <<token, received>> /\ now' \in {now, now + 1}
  BY DEF Next, CommitNew, CommitChange, CommitHistory, NewClient, Receive, Write, Query, Disable,
         Scan, Delete, Cleared, RemoveExpired, Tick, vars, readVars
<1>2. now \in Nat /\ (Stored(i) => items[i].expires \in Nat)
  BY DEF TypeOK, TableTypeOK, Stored, Item
<1> QED
  BY <1>1, <1>2 DEF Skipped, Stored, Expired

\* sync_entity.go:634-726: whatever runs between a device's queries, and between a
\* query and the reading of its page, the marker passes by no entity that was not
\* written in between, unless the page ends within its millisecond or an entity
\* of the page was written after the query.
THEOREM OnlyThesePassUnread == Spec => OnlyTheseAreSkipped
<1>1. Init => ReadInv
  BY TypeInit DEF Init, ReadInv, PageOK
<1>2. ReadInv /\ [Next]_vars =>
        [\A i \in Ids :
           ~Skipped(i) /\ Skipped(i)' => items'[i] # items[i] \/ PageLoses(i)]_vars
  BY FetchPasses, OthersPass DEF ReadInv
<1> QED
  BY <1>1, <1>2, ReadStep, PTL DEF Spec, OnlyTheseAreSkipped
=============================================================================
