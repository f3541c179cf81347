----------------------------- MODULE ChainProofs -----------------------------
(***************************************************************************)
(* The chain as its devices see it.  unique_tags can be trusted as an      *)
(* index, and the root folders are all there or none: TagsInv is inductive *)
(* beside VersionsInv.  What carries it is that a device does not commit   *)
(* on an entity it knows is deleted, and that a version identifies         *)
(* content: an update that passes the comparison of versions replaces a    *)
(* live row, so no tag row is freed twice and none is missing for an       *)
(* entity brought back to life.                                            *)
(* Then the server implements SyncChain: whatever its handlers do between  *)
(* the calls, and however they interleave, fail, are abandoned or crash,   *)
(* what the rows and the disabled marker do is a behaviour of the abstract *)
(* chain.  VersionsInv shows that a replaced row is live and older,        *)
(* TagsInv that a created one has a tag of its own, and ChainInv the rest. *)
(***************************************************************************)
EXTENDS SequentialProofs

(* Steps that leave the tags alone ------------------------------------------*)

\* Goroutine t takes on no entry to create and no folders to insert.
PlansNothing(t) ==
  /\ cm'[t].todo \subseteq cm[t].todo
  /\ pc'[t] = "create" => pc[t] = "create" /\ cm'[t].cur = cm[t].cur
  /\ pc'[t] = "insertFolders" => pc[t] = "insertFolders" /\ gu'[t].folders = gu[t].folders

SameTags == rows' = rows /\ tagRows' = tagRows

\* All goroutines but t plan nothing because they wait.
LEMMA WaitersPlanNothing ==
  ASSUME NEW t \in Threads, OthersWait(t)
  PROVE  \A u \in Threads \ {t} : PlansNothing(u)
BY DEF OthersWait, PlansNothing

\* A goroutine that draws and stamps nothing plans nothing.
LEMMA NothingNewPlansNothing ==
  ASSUME NothingNew
  PROVE  \A t \in Threads : PlansNothing(t)
BY DEF NothingNew, AddsNothing, PlansNothing, Unwritten

\* The two properties read rows and tags only.
LEMMA SameTagsKeeps ==
  ASSUME TagsInv, SameTags
  PROVE  TagsUnique' /\ FoldersAllOrNone'
BY DEF SameTags, TagsInv, TagsUnique, FoldersAllOrNone, HoldsTag, Live, Stored,
       ClientTagRow, Versioned

\* Plans that only get fewer stay good.
LEMMA PlansKept ==
  ASSUME TagsInv, \A t \in Threads : PlansNothing(t)
  PROVE  NewAreLive' /\ FoldersAreComplete'
<1>1. NewAreLive'
  BY DEF TagsInv, NewAreLive, PlansNothing, Versioned
<1>2. FoldersAreComplete'
  BY DEF TagsInv, FoldersAreComplete, PlansNothing
<1> QED
  BY <1>1, <1>2

\* A step that leaves live rows, tags and plans alone keeps TagsInv.
LEMMA AsideKeepsTags ==
  ASSUME TagsInv, SameTags, \A t \in Threads : PlansNothing(t)
  PROVE  TagsInv'
BY SameTagsKeeps, PlansKept DEF TagsInv

\* Every step of VersionsProofs that adds nothing leaves the tags alone, but Wipe.
LEMMA QuietStepsKeepTags ==
  ASSUME TypeOK, TagsInv,
         \/ \E t \in Threads : CommitAside(t) \/ (OtherAside(t) /\ ~Wipe(t)) \/ GiveUp(t)
         \/ \E ty \in Types : Expire(ty)
         \/ Tick \/ SetBack \/ Crash \/ AwaitRequests \/ UNCHANGED vars
  PROVE  TagsInv'
<1>1. NothingNew
  BY CommitAsideAddsNothing, OtherAsideAddsNothing, EnvironmentAddsNothing
<1>2. ASSUME NEW t \in Threads, CommitAside(t)
      PROVE  SameTags
  BY <1>2 DEF SameTags, CommitAside, ReadCounts, PeekInterim, RejectOverQuota, CountEntry,
              EntryStoreError, DrainInterim, SaveMtime, FlushCounts, UpdateClientItemCount,
              CountsStoreError, FailOnStoreError, Fail, Local, storeVars
<1>3. ASSUME NEW t \in Threads, OtherAside(t), ~Wipe(t)
      PROVE  SameTags
  BY <1>3 DEF SameTags, OtherAside, SendGetUpdates, CountDevices, CheckFolders, StartMarker,
              CacheToken, GetUpdatesStoreError, SendClear, ClearStep, Disable,
              DisableSyncChain, Scan, EvictAndReply, ClearStoreError, FailOnStoreError,
              Fail, LocalGU, storeVars
<1>4. ASSUME \/ \E t \in Threads : GiveUp(t)
             \/ \E ty \in Types : Expire(ty)
             \/ Tick \/ SetBack \/ Crash \/ AwaitRequests \/ UNCHANGED vars
      PROVE  SameTags
  BY <1>4 DEF SameTags, GiveUp, Expire, Tick, SetBack, Crash, AwaitRequests, vars, storeVars
<1>5. SameTags
  BY <1>2, <1>3, <1>4
<1> QED
  BY <1>1, <1>5, NothingNewPlansNothing, AsideKeepsTags

(* Steps that plan or write ------------------------------------------------ *)

\* A message creates only entities its device knows nothing of, hence deletes none
\* of them, and no root folder.
LEMMA SendCommitKeepsTags ==
  ASSUME TypeOK, TagsInv, NEW t \in Threads, SendCommit(t)
  PROVE  TagsInv'
<1> DEFINE d == Dev(t)
<1> DEFINE Msg(S, dead) ==
             {[id |-> i, base |-> known[d][i].version, deleted |-> i \in dead] : i \in S}
<1>1. PICK S \in SUBSET {i \in Ids : CanCreate(d, i) \/ CanUpdate(d, i)} :
        \E dead \in SUBSET {i \in S : CanDelete(d, i)} :
          /\ Admit(t, "count")
          /\ cm' = [cm EXCEPT ![t].todo = Msg(S, dead)]
          /\ UNCHANGED <<storeVars, gu>>
  BY DEF SendCommit
<1>2. PICK dead \in SUBSET {i \in S : CanDelete(d, i)} :
        /\ Admit(t, "count")
        /\ cm' = [cm EXCEPT ![t].todo = Msg(S, dead)]
        /\ UNCHANGED <<storeVars, gu>>
  BY <1>1
<1>3. SameTags
  BY <1>2 DEF SameTags, storeVars
<1>4. pc'[t] = "count" /\ OthersWait(t)
  BY <1>2, CommitLocals DEF Admit, Goto, OthersWait, TypeOK, StateTypeOK
<1>5. \A e \in cm'[t].todo : /\ e.id \in S
                             /\ e.base = known[d][e.id].version
                             /\ e.deleted = (e.id \in dead)
  BY <1>2, CommitLocals
<1>6. \A u \in Threads \ {t} : PlansNothing(u)
  BY <1>4, WaitersPlanNothing
<1>7. \A i \in S : known[d][i].version = 0 => i \notin dead /\ TagOf[i] \notin ServerTags
  BY DEF CanCreate, CanDelete, CanUpdate
<1>8. NewAreLive'
  <2>1. \A e \in cm'[t].todo : e.base = 0 => ~e.deleted /\ TagOf[e.id] \notin ServerTags
    BY <1>5, <1>7
  <2> QED
    BY <1>4, <1>6, <2>1 DEF TagsInv, NewAreLive, PlansNothing, Versioned
<1>9. FoldersAreComplete'
  BY <1>4, <1>6 DEF TagsInv, FoldersAreComplete, PlansNothing
<1> QED
  BY <1>3, <1>8, <1>9, SameTagsKeeps DEF TagsInv

\* The entry that is started is one of the message.
LEMMA StartEntryKeepsTags ==
  ASSUME TypeOK, TagsInv, NEW t \in Threads, StartEntry(t)
  PROVE  TagsInv'
<1>1. PICK e \in cm[t].todo :
        /\ cm' = [cm EXCEPT ![t].todo = @ \ {e}, ![t].cur = {e}, ![t].stamp = clock]
        /\ Goto(t, CASE ~Versioned(e.id) -> "hasItem"
                     [] Versioned(e.id) /\ e.base # 0 -> "update"
                     [] OTHER -> "create")
  BY DEF StartEntry
<1>2. SameTags /\ gu' = gu
  BY DEF StartEntry, SameTags, storeVars
<1>3. /\ cm'[t].todo = cm[t].todo \ {e}
      /\ cm'[t].cur = {e}
      /\ \A u \in Threads \ {t} : cm'[u] = cm[u]
  BY <1>1, CommitLocals
<1>4. /\ \A u \in Threads \ {t} : pc'[u] = pc[u]
      /\ pc'[t] \in {"hasItem", "update", "create"}
      /\ pc'[t] = "create" /\ Versioned(e.id) => e.base = 0
  <2> DEFINE next == CASE ~Versioned(e.id) -> "hasItem"
                       [] Versioned(e.id) /\ e.base # 0 -> "update"
                       [] OTHER -> "create"
  <2>1. next \in {"hasItem", "update", "create"}
        /\ (next = "create" /\ Versioned(e.id) => e.base = 0)
    <3>1. CASE ~Versioned(e.id)
      BY <3>1
    <3>2. CASE Versioned(e.id) /\ e.base # 0
      BY <3>2
    <3>3. CASE Versioned(e.id) /\ e.base = 0
      BY <3>3
    <3> QED
      BY <3>1, <3>2, <3>3
  <2>2. pc' = [pc EXCEPT ![t] = next]
    BY <1>1 DEF Goto
  <2> HIDE DEF next
  <2>3. pc'[t] = next /\ \A u \in Threads \ {t} : pc'[u] = pc[u]
    BY <2>2 DEF TypeOK, StateTypeOK
  <2> QED
    BY <2>1, <2>3
<1>5. NewAreLive'
  <2>1. \A f \in cm'[t].todo : f \in cm[t].todo
    BY <1>3
  <2>2. pc'[t] = "create" => \A f \in cm'[t].cur :
          Versioned(f.id) => f \in cm[t].todo /\ f.base = 0
    BY <1>3, <1>4
  <2> QED
    BY <1>3, <1>4, <2>1, <2>2 DEF TagsInv, NewAreLive, Versioned
<1>6. FoldersAreComplete'
  BY <1>2, <1>4 DEF TagsInv, FoldersAreComplete
<1> QED
  BY <1>2, <1>5, <1>6, SameTagsKeeps DEF TagsInv

\* Only history items come to be created by a look-up, and they take no tag.
LEMMA CheckItemKeepsTags ==
  ASSUME TypeOK, VersionsInv, TagsInv, NEW t \in Threads, CheckItem(t)
  PROVE  TagsInv'
<1>1. SameTags /\ cm' = cm /\ gu' = gu /\ pc[t] = "hasItem"
  BY DEF CheckItem, Local, SameTags, storeVars, At
<1>2. /\ \A u \in Threads \ {t} : pc'[u] = pc[u]
      /\ pc'[t] \in {"update", "create"}
  BY DEF CheckItem, Goto, TypeOK, StateTypeOK
<1>3. \A e \in cm[t].cur : ~Versioned(e.id)
  BY <1>1 DEF VersionsInv, LookedUp
<1>4. NewAreLive'
  BY <1>1, <1>2, <1>3 DEF TagsInv, NewAreLive, Versioned
<1>5. FoldersAreComplete'
  BY <1>1, <1>2 DEF TagsInv, FoldersAreComplete
<1> QED
  BY <1>1, <1>4, <1>5, SameTagsKeeps DEF TagsInv

\* An acknowledged entry is off the plan.
LEMMA EntrySucceedsPlansNothing ==
  ASSUME TypeOK, NEW t \in Threads, NEW e \in cm[t].cur, gu' = gu,
         NEW point \in {"entries", "countUp", "countDown"}, EntrySucceeds(t, e, point)
  PROVE  \A u \in Threads : PlansNothing(u)
<1>1. cm'[t].todo = cm[t].todo /\ \A u \in Threads \ {t} : cm'[u] = cm[u]
  BY CommitLocals DEF EntrySucceeds
<1>2. pc'[t] = point /\ \A u \in Threads \ {t} : pc'[u] = pc[u]
  BY DEF EntrySucceeds, Goto, TypeOK, StateTypeOK
<1> QED
  BY <1>1, <1>2 DEF PlansNothing

\* An insert that conflicts writes nothing.
LEMMA PretendStoredKeepsTags ==
  ASSUME TypeOK, TagsInv, NEW t \in Threads, PretendStored(t)
  PROVE  TagsInv'
<1>1. SameTags /\ gu' = gu
  BY DEF PretendStored, Local, SameTags, storeVars
<1>2. \A u \in Threads : PlansNothing(u)
  BY <1>1, EntrySucceedsPlansNothing DEF PretendStored
<1> QED
  BY <1>1, <1>2, AsideKeepsTags

(* What a write does to the index ------------------------------------------ *)

\* A root folder has no row in unique_tags for a client tag, and no history type.
LEMMA TagKinds ==
  ASSUME NEW i \in Ids
  PROVE  /\ TagOf[i] \in ServerTags => ClientTagRow(i) = {} /\ Versioned(i)
         /\ ~Versioned(i) => ClientTagRow(i) = {} /\ ~HoldsTag(i)
         /\ ClientTagRow(i) \in {{}, {TagOf[i]}}
BY TagAssumption DEF ClientTagRow, Versioned, HoldsTag

\* The index is exact again if the holders of tags and the tag rows are the same.
LEMMA SameHolders ==
  ASSUME TagsUnique, tagRows' = tagRows, \A j \in Ids : HoldsTag(j)' = HoldsTag(j)
  PROVE  TagsUnique'
<1>1. {j \in Ids : HoldsTag(j)'} = {j \in Ids : HoldsTag(j)}
  OBVIOUS
<1> QED
  BY <1>1 DEF TagsUnique

\* One more holder, of a tag nobody had.
LEMMA HolderAdded ==
  ASSUME TagsUnique, NEW i \in Ids, TagOf[i] \notin tagRows,
         tagRows' = tagRows \cup {TagOf[i]},
         HoldsTag(i)', \A j \in Ids \ {i} : HoldsTag(j)' = HoldsTag(j)
  PROVE  TagsUnique'
<1>1. \A j \in Ids : HoldsTag(j) => TagOf[j] \in tagRows
  BY DEF TagsUnique
<1>2. ~HoldsTag(i)
  BY <1>1
<1>3. {j \in Ids : HoldsTag(j)'} = {j \in Ids : HoldsTag(j)} \cup {i}
  OBVIOUS
<1>4. tagRows' = {TagOf[j] : j \in {k \in Ids : HoldsTag(k)'}}
  BY <1>3 DEF TagsUnique
<1>5. \A j, k \in Ids : HoldsTag(j)' /\ HoldsTag(k)' /\ TagOf[j] = TagOf[k] => j = k
  BY <1>1 DEF TagsUnique
<1> QED
  BY <1>4, <1>5 DEF TagsUnique

\* One holder less; nobody else had its tag.
LEMMA HolderRemoved ==
  ASSUME TagsUnique, NEW i \in Ids, HoldsTag(i),
         tagRows' = tagRows \ {TagOf[i]},
         ~HoldsTag(i)', \A j \in Ids \ {i} : HoldsTag(j)' = HoldsTag(j)
  PROVE  TagsUnique'
<1>1. \A j \in Ids \ {i} : HoldsTag(j) => TagOf[j] # TagOf[i]
  BY DEF TagsUnique
<1>2. {j \in Ids : HoldsTag(j)'} = {j \in Ids : HoldsTag(j)} \ {i}
  OBVIOUS
<1>3. tagRows' = {TagOf[j] : j \in {k \in Ids : HoldsTag(k)'}}
  BY <1>1, <1>2 DEF TagsUnique
<1>4. \A j, k \in Ids : HoldsTag(j)' /\ HoldsTag(k)' /\ TagOf[j] = TagOf[k] => j = k
  BY DEF TagsUnique
<1> QED
  BY <1>3, <1>4 DEF TagsUnique

\* Whether the folders are complete depends on which root folders are stored.
LEMMA SameFolders ==
  ASSUME FoldersAllOrNone, \A i \in RootIds : Stored(i)' = Stored(i)
  PROVE  FoldersAllOrNone'
<1>1. \A i \in Ids : TagOf[i] \in ServerTags => Stored(i)' = Stored(i)
  BY DEF RootIds
<1> QED
  BY <1>1 DEF FoldersAllOrNone

(* Steps that write -------------------------------------------------------- *)

\* A row that is inserted takes a tag nobody holds; a conflict changes nothing.
LEMMA InsertEntryKeepsTags ==
  ASSUME TypeOK, TagsInv, NEW t \in Threads, InsertEntry(t)
  PROVE  TagsInv'
<1>1. PICK e \in cm[t].cur : /\ InsertSyncEntity(e.id, RowFor(t, e))
                             /\ EntrySucceeds(t, e, "countUp")
  BY DEF InsertEntry
<1>2. gu' = gu /\ pc[t] = "create"
  BY DEF InsertEntry, At
<1>3. \A u \in Threads : PlansNothing(u)
  BY <1>1, <1>2, EntrySucceedsPlansNothing
<1>4. CASE UNCHANGED storeVars
  BY <1>3, <1>4, AsideKeepsTags DEF SameTags, storeVars
<1>5. CASE /\ ~InsertConflicts(e.id)
           /\ rows' = [rows EXCEPT ![e.id] = RowFor(t, e)]
           /\ tagRows' = tagRows \cup ClientTagRow(e.id)
  <2> DEFINE i == e.id
  <2>1. i \in Ids
    BY CommitLocals DEF Entry
  <2>2. /\ ~Stored(i) /\ ClientTagRow(i) \cap tagRows = {}
        /\ rows'[i] = RowFor(t, e)
        /\ \A j \in Ids \ {i} : rows'[j] = rows[j]
    BY <1>5, <2>1 DEF InsertConflicts, TypeOK, StoreTypeOK
  <2>3. \A j \in Ids \ {i} : Stored(j)' = Stored(j) /\ HoldsTag(j)' = HoldsTag(j)
    BY <2>2 DEF HoldsTag, Live, Stored, ClientTagRow, Versioned
  <2>4. Versioned(i) => ~e.deleted /\ TagOf[i] \notin ServerTags
    BY <1>2 DEF TagsInv, NewAreLive
  <2>5. TagOf[i] \notin ServerTags
    BY <2>1, <2>4, TagKinds
  <2>6. FoldersAllOrNone'
    BY <2>3, <2>5, SameFolders DEF TagsInv, RootIds
  <2>7. TagsUnique'
    <3>1. CASE ClientTagRow(i) = {}
      <4>1. HoldsTag(i)' = HoldsTag(i)
        BY <3>1, <2>5 DEF HoldsTag, ClientTagRow, Versioned
      <4>2. tagRows' = tagRows
        BY <1>5, <3>1
      <4> QED
        BY <2>3, <4>1, <4>2, SameHolders DEF TagsInv
    <3>2. CASE ClientTagRow(i) = {TagOf[i]}
      <4>1. Versioned(i)
        BY <2>1, <3>2, TagKinds
      <4>2. rows'[i] # NoRow
        <5>1. RowFor(t, e) \in Row
          BY <2>1, DevType, CommitLocals DEF RowFor, Row, Entry
        <5> QED
          BY <2>2, <5>1, NoRowAssumption
      <4>3. Live(i)'
        BY <2>2, <2>4, <4>1, <4>2 DEF Live, Stored, RowFor
      <4>4. HoldsTag(i)'
        BY <3>2, <4>3 DEF HoldsTag, ClientTagRow, Versioned
      <4>5. TagOf[i] \notin tagRows
        BY <2>2, <3>2
      <4>6. tagRows' = tagRows \cup {TagOf[i]}
        BY <1>5, <3>2
      <4> HIDE DEF i
      <4> QED
        BY <2>1, <2>3, <4>4, <4>5, <4>6, HolderAdded DEF TagsInv
    <3> QED
      BY <2>1, <3>1, <3>2, TagKinds
  <2> QED
    BY <1>3, <2>6, <2>7, PlansKept DEF TagsInv
<1> QED
  BY <1>1, <1>4, <1>5 DEF InsertSyncEntity

\* An update that passes the comparison of versions finds a live row: its device
\* knew the entity as live in that version, and a version has one content.
LEMMA UpdatedIsLive ==
  ASSUME TypeOK, VersionsInv, ~EditTombstones, NEW t \in Threads, pc[t] = "update",
         NEW e \in cm[t].cur, ~UpdateConflicts(e.id, e.base), Versioned(e.id)
  PROVE  Live(e.id)
<1>1. e.id \in Ids
  BY CommitLocals DEF Entry
<1>2. /\ Stored(e.id)
      /\ rows[e.id].version = e.base
      /\ known[Dev(t)][e.id].version = e.base
  BY UpdatedIsKnown
<1>3. ~known[Dev(t)][e.id].deleted
  BY <1>2 DEF VersionsInv, BasesKnown, Based
<1>4. known[Dev(t)][e.id].deleted = rows[e.id].deleted
  BY <1>1, <1>2, DevType DEF VersionsInv, KnownVersionsAgree
<1> QED
  BY <1>2, <1>3, <1>4 DEF Live

\* An update keeps its row stored; a deletion gives up the tag the row had.
LEMMA UpdateEntryKeepsTags ==
  ASSUME TypeOK, VersionsInv, ~EditTombstones, TagsInv, NEW t \in Threads, UpdateEntry(t)
  PROVE  TagsInv'
<1>1. gu' = gu /\ pc[t] = "update"
  BY DEF UpdateEntry, At
<1>2. CASE EntryFails(t) /\ UNCHANGED storeVars
  <2>1. cm'[t].todo = cm[t].todo /\ pc'[t] = "entries"
    BY <1>2, CommitLocals DEF EntryFails, Goto, TypeOK, StateTypeOK
  <2>2. OthersWait(t)
    BY <1>1, <1>2, CommitLocals DEF EntryFails, Goto, OthersWait, TypeOK, StateTypeOK
  <2>3. \A u \in Threads : PlansNothing(u)
    BY <2>1, <2>2, WaitersPlanNothing DEF PlansNothing
  <2> QED
    BY <1>2, <2>3, AsideKeepsTags DEF SameTags, storeVars
<1>3. ASSUME NEW e \in cm[t].cur, NEW point \in {"entries", "countDown"},
             ~UpdateConflicts(e.id, e.base),
             rows' = [rows EXCEPT ![e.id] = RowFor(t, e)],
             tagRows' = tagRows \ FreedTagRow(e.id, e.deleted),
             EntrySucceeds(t, e, point)
      PROVE  TagsInv'
  <2> DEFINE i == e.id
  <2>1. i \in Ids /\ e.deleted \in BOOLEAN
    BY CommitLocals DEF Entry
  <2>2. /\ rows'[i] = RowFor(t, e)
        /\ \A j \in Ids \ {i} : rows'[j] = rows[j]
    BY <1>3, <2>1 DEF TypeOK, StoreTypeOK
  <2>3. Stored(i) /\ Stored(i)'
    <3>1. RowFor(t, e) \in Row
      BY <2>1, DevType, CommitLocals DEF RowFor, Row
    <3> QED
      BY <1>3, <2>2, <3>1, NoRowAssumption DEF UpdateConflicts, Stored
  <2>4. \A j \in Ids \ {i} : Stored(j)' = Stored(j) /\ HoldsTag(j)' = HoldsTag(j)
    BY <2>2 DEF HoldsTag, Live, Stored, ClientTagRow, Versioned
  <2>5. FoldersAllOrNone'
    <3>1. \A j \in Ids : Stored(j)' = Stored(j)
      BY <2>3, <2>4 DEF Stored
    <3> QED
      BY <3>1, SameFolders DEF TagsInv, RootIds
  <2>6. Live(i)' <=> ~e.deleted
    BY <2>2, <2>3 DEF Live, RowFor
  <2>7. TagsUnique'
    <3>1. CASE ClientTagRow(i) = {}
      <4>1. HoldsTag(i)' = HoldsTag(i)
        BY <2>3, <3>1 DEF HoldsTag, ClientTagRow, Versioned
      <4>2. tagRows' = tagRows
        BY <1>3, <3>1 DEF FreedTagRow
      <4> QED
        BY <2>4, <4>1, <4>2, SameHolders DEF TagsInv
    <3>2. CASE ClientTagRow(i) = {TagOf[i]}
      <4>1. Versioned(i) /\ TagOf[i] \notin ServerTags
        BY <2>1, <3>2, TagKinds
      <4>2. Live(i)
        BY <1>1, <1>3, <4>1, UpdatedIsLive
      <4>3. HoldsTag(i)
        BY <3>2, <4>2 DEF HoldsTag
      <4>4. HoldsTag(i)' <=> ~e.deleted
        BY <2>6, <3>2, <4>1 DEF HoldsTag, ClientTagRow, Versioned
      <4>5. CASE e.deleted
        BY <1>3, <2>1, <2>4, <3>2, <4>3, <4>4, <4>5, HolderRemoved DEF TagsInv, FreedTagRow
      <4>6. CASE ~e.deleted
        <5>1. tagRows' = tagRows
          BY <1>3, <4>6 DEF FreedTagRow
        <5>2. HoldsTag(i)' = HoldsTag(i)
          BY <4>3, <4>4, <4>6 DEF HoldsTag
        <5> QED
          BY <2>4, <5>1, <5>2, SameHolders DEF TagsInv
      <4> QED
        BY <4>5, <4>6
    <3> QED
      BY <2>1, <3>1, <3>2, TagKinds
  <2>8. \A u \in Threads : PlansNothing(u)
    BY <1>1, <1>3, EntrySucceedsPlansNothing
  <2> QED
    BY <2>5, <2>7, <2>8, PlansKept DEF TagsInv
<1>4. PICK e \in cm[t].cur :
        \/ EntryFails(t) /\ UNCHANGED storeVars
        \/ /\ ~UpdateConflicts(e.id, e.base)
           /\ UpdateSyncEntity(e.id, RowFor(t, e))
           /\ EntrySucceeds(t, e, "entries") \/ EntrySucceeds(t, e, "countDown")
  BY DEF UpdateEntry
<1>5. RowFor(t, e).deleted = e.deleted
  BY DEF RowFor
<1> QED
  BY <1>2, <1>3, <1>4, <1>5 DEF UpdateSyncEntity

\* The folders a request draws have every server tag once.
LEMMA MakeFoldersKeepsTags ==
  ASSUME TypeOK, TagsInv, NEW t \in Threads, MakeFolders(t)
  PROVE  TagsInv'
<1>1. PICK R \in FolderIds : gu' = [gu EXCEPT ![t].folders = R, ![t].stamp = clock]
  BY DEF MakeFolders
<1>2. SameTags /\ cm' = cm
  BY DEF MakeFolders, SameTags, storeVars
<1>3. pc'[t] = "insertFolders" /\ \A u \in Threads \ {t} : pc'[u] = pc[u]
  BY DEF MakeFolders, Goto, TypeOK, StateTypeOK
<1>4. gu'[t].folders = R /\ \A u \in Threads \ {t} : gu'[u] = gu[u]
  BY <1>1, GetUpdatesLocals DEF GetUpdatesWork
<1>5. NewAreLive'
  BY <1>2, <1>3 DEF TagsInv, NewAreLive, Versioned
<1>6. FoldersAreComplete'
  <2>1. ServerTags = {TagOf[i] : i \in R} /\ \A i, j \in R : TagOf[i] = TagOf[j] => i = j
    BY DEF FolderIds
  <2> QED
    BY <1>3, <1>4, <2>1 DEF TagsInv, FoldersAreComplete
<1> QED
  BY <1>2, <1>5, <1>6, SameTagsKeeps DEF TagsInv

\* Folders are inserted when no server tag is taken: then none was there, and all are.
LEMMA InsertFoldersKeepsTags ==
  ASSUME TypeOK, TagsInv, NEW t \in Threads, InsertFolders(t)
  PROVE  TagsInv'
<1>1. CASE Fail(t)
  BY <1>1, FailAddsNothing, NothingNewPlansNothing, AsideKeepsTags DEF Fail, SameTags, storeVars
<1>2. CASE /\ ~ServerTagsConflict(gu[t].folders)
           /\ InsertSyncEntitiesWithServerTags(gu[t].folders, FolderRow(t))
           /\ Goto(t, "markers")
           /\ cm' = cm /\ gu' = gu
  <2> DEFINE R == gu[t].folders
  <2>1. /\ R \subseteq Ids
        /\ ServerTags = {TagOf[i] : i \in R}
        /\ \A i, j \in R : TagOf[i] = TagOf[j] => i = j
    BY GetUpdatesLocals DEF InsertFolders, At, TagsInv, FoldersAreComplete, RootIds
  <2>2. \A i \in R : TagOf[i] \notin tagRows /\ ~Stored(i)
    BY <1>2 DEF ServerTagsConflict
  <2>3. /\ \A i \in R : rows'[i] = FolderRow(t)
        /\ \A i \in Ids \ R : rows'[i] = rows[i]
        /\ tagRows' = tagRows \cup ServerTags
    BY <1>2, <2>1 DEF InsertSyncEntitiesWithServerTags
  <2>4. FolderRow(t) # NoRow
    <3>1. FolderRow(t) \in Row
      BY GetUpdatesLocals DEF FolderRow, Row
    <3> QED
      BY <3>1, NoRowAssumption
  <2>5. \A i \in R : Stored(i)' /\ HoldsTag(i)' /\ ~HoldsTag(i)
    BY <2>1, <2>2, <2>3, <2>4 DEF HoldsTag, Live, Stored
  <2>6. \A i \in Ids \ R : Stored(i)' = Stored(i) /\ HoldsTag(i)' = HoldsTag(i)
    BY <2>3 DEF HoldsTag, Live, Stored, ClientTagRow, Versioned
  <2> HIDE DEF R
  <2>7. \A i \in Ids : HoldsTag(i) => TagOf[i] \in tagRows /\ TagOf[i] \notin ServerTags
    <3>1. \A i \in Ids : HoldsTag(i) => TagOf[i] \in tagRows
      BY DEF TagsInv, TagsUnique
    <3>2. \A tag \in ServerTags : tag \notin tagRows
      BY <2>1, <2>2
    <3> QED
      BY <3>1, <3>2
  <2>8. \A i \in Ids \ R : Stored(i) => TagOf[i] \notin ServerTags
    BY <2>7 DEF HoldsTag
  <2>9. TagsUnique'
    <3>1. {i \in Ids : HoldsTag(i)'} = {i \in Ids : HoldsTag(i)} \cup R
      BY <2>1, <2>5, <2>6
    <3>2. tagRows' = {TagOf[i] : i \in {j \in Ids : HoldsTag(j)'}}
      BY <2>1, <2>3, <3>1 DEF TagsInv, TagsUnique
    <3>3. \A i, j \in Ids : HoldsTag(i)' /\ HoldsTag(j)' /\ TagOf[i] = TagOf[j] => i = j
      BY <2>1, <2>6, <2>7 DEF TagsInv, TagsUnique
    <3> QED
      BY <3>2, <3>3 DEF TagsUnique
  <2>10. FoldersAllOrNone'
    <3>1. ASSUME NEW tag \in ServerTags
          PROVE  \E i \in Ids : /\ Stored(i)' /\ TagOf[i] = tag
                                /\ \A j \in Ids : Stored(j)' /\ TagOf[j] = tag => j = i
      <4>1. PICK i \in R : TagOf[i] = tag
        BY <2>1
      <4>2. \A j \in Ids : Stored(j)' /\ TagOf[j] = tag => j = i
        BY <2>1, <2>6, <2>8, <4>1
      <4> QED
        BY <2>1, <2>5, <4>1, <4>2
    <3> QED
      BY <3>1 DEF FoldersAllOrNone
  <2>11. \A u \in Threads : PlansNothing(u)
    BY <1>2 DEF PlansNothing, Goto, TypeOK, StateTypeOK
  <2> QED
    BY <2>9, <2>10, <2>11, PlansKept DEF TagsInv
<1> QED
  BY <1>1, <1>2 DEF InsertFolders

\* Clearing empties the index with the table.
LEMMA WipeKeepsTags ==
  ASSUME TypeOK, TagsInv, NEW t \in Threads, Wipe(t)
  PROVE  TagsInv'
<1>1. \A i \in Ids : ~Stored(i)'
  BY DEF Wipe, ClearServerData, Stored
<1>2. TagsUnique'
  BY <1>1 DEF Wipe, ClearServerData, TagsUnique, HoldsTag, Live
<1>3. FoldersAllOrNone'
  BY <1>1 DEF FoldersAllOrNone
<1>4. \A u \in Threads : PlansNothing(u)
  BY DEF Wipe, Goto, PlansNothing, TypeOK, StateTypeOK
<1> QED
  BY <1>2, <1>3, <1>4, PlansKept DEF TagsInv

\* Answers and queries read only.
LEMMA ReadersKeepTags ==
  ASSUME TypeOK, TagsInv, NEW t \in Threads,
         ReplyCommit(t) \/ ReplyGetUpdates(t) \/ QueryType(t)
  PROVE  TagsInv'
<1>1. SameTags
  BY DEF ReplyCommit, ReplyGetUpdates, QueryType, Fail, LocalGU, SameTags, storeVars
<1>2. CASE Finish(t)
  BY <1>1, <1>2, FinishAddsNothing, AsideKeepsTags DEF AddsNothing, PlansNothing, Unwritten
<1>3. CASE QueryType(t) /\ ~Finish(t)
  <2>1. cm' = cm /\ (Goto(t, "markers") \/ Goto(t, "cacheSet"))
    BY <1>3 DEF QueryType, Fail, LocalGU
  <2> DEFINE Read(ty, P, next, more) ==
               gu' = [gu EXCEPT ![t].got = @ \cup {UpdateOf(i) : i \in P},
                                ![t].tok[ty] = next,
                                ![t].remaining = more]
  <2>2. \E ty \in gu[t].cur :
          LET size == MaxGUBatch - Cardinality(gu[t].got) IN
          \E P \in Pages(ty, gu[t].tok[ty], size) : \E next \in NextToken(t, ty, P) :
            Read(ty, P, next, gu[t].remaining \/ ChangesRemain(ty, gu[t].tok[ty], size))
    BY <1>3 DEF QueryType, Fail
  <2> HIDE DEF Read
  <2>3. PICK ty, P, next, more : Read(ty, P, next, more)
    BY <2>2
  <2>4. /\ \A u \in Threads \ {t} : pc'[u] = pc[u] /\ gu'[u] = gu[u]
        /\ pc'[t] \in {"markers", "cacheSet"}
    BY <2>1, <2>3, GetUpdatesLocals DEF Read, Goto, TypeOK, StateTypeOK
  <2>5. \A u \in Threads : PlansNothing(u)
    BY <2>1, <2>4 DEF PlansNothing
  <2> QED
    BY <1>1, <2>5, AsideKeepsTags
<1> QED
  BY <1>2, <1>3 DEF ReplyCommit, ReplyGetUpdates

(* The theorems ------------------------------------------------------------- *)

\* At the start there are no rows and no tags.
LEMMA InitTagsInv ==
  ASSUME Init
  PROVE  TagsInv
<1>1. \A i \in Ids : ~Stored(i)
  BY DEF Init, StoreInit, Stored
<1>2. TagsUnique
  BY <1>1 DEF Init, StoreInit, TagsUnique, HoldsTag, Live
<1>3. FoldersAllOrNone
  BY <1>1 DEF FoldersAllOrNone
<1>4. NewAreLive /\ FoldersAreComplete
  BY DEF Init, NoCommit, NewAreLive, FoldersAreComplete
<1> QED
  BY <1>2, <1>3, <1>4 DEF TagsInv

\* Every step of the server keeps TagsInv.
LEMMA NextTagsInv ==
  ASSUME TypeOK, VersionsInv, TagsInv, ~EditTombstones, [Next]_vars
  PROVE  TagsInv'
<1>1. CASE \/ Tick \/ SetBack \/ Crash \/ AwaitRequests \/ UNCHANGED vars
           \/ \E t \in Threads : GiveUp(t)
           \/ \E ty \in Types : Expire(ty)
  BY <1>1, QuietStepsKeepTags
<1>2. ASSUME NEW t \in Threads, Send(t)
      PROVE  TagsInv'
  <2>1. CASE SendCommit(t)
    BY <2>1, SendCommitKeepsTags
  <2>2. CASE Wipe(t)
    BY <2>2, WipeKeepsTags
  <2>3. CASE (SendGetUpdates(t) \/ SendClear(t)) /\ ~Wipe(t)
    BY <2>3, QuietStepsKeepTags DEF OtherAside
  <2> QED
    BY <1>2, <2>1, <2>2, <2>3 DEF Send
<1>3. ASSUME NEW t \in Threads, CommitStep(t)
      PROVE  TagsInv'
  <2>1. CASE CommitAside(t)
    BY <2>1, QuietStepsKeepTags
  <2>2. CASE StartEntry(t)
    BY <2>2, StartEntryKeepsTags
  <2>3. CASE CheckItem(t)
    BY <2>3, CheckItemKeepsTags
  <2>4. CASE PretendStored(t)
    BY <2>4, PretendStoredKeepsTags
  <2>5. CASE InsertEntry(t)
    BY <2>5, InsertEntryKeepsTags
  <2>6. CASE UpdateEntry(t)
    BY <2>6, UpdateEntryKeepsTags
  <2>7. CASE ReplyCommit(t)
    BY <2>7, ReadersKeepTags
  <2> QED
    BY <1>3, <2>1, <2>2, <2>3, <2>4, <2>5, <2>6, <2>7 DEF CommitStep, CommitAside
<1>4. ASSUME NEW t \in Threads, GetUpdatesStep(t)
      PROVE  TagsInv'
  <2>1. CASE MakeFolders(t)
    BY <2>1, MakeFoldersKeepsTags
  <2>2. CASE InsertFolders(t)
    BY <2>2, InsertFoldersKeepsTags
  <2>3. CASE QueryType(t) \/ ReplyGetUpdates(t)
    BY <2>3, ReadersKeepTags
  <2>4. CASE Wipe(t)
    BY <2>4, WipeKeepsTags
  <2>5. CASE OtherAside(t) /\ ~Wipe(t)
    BY <2>5, QuietStepsKeepTags
  <2> QED
    BY <1>4, <2>1, <2>2, <2>3, <2>4, <2>5 DEF GetUpdatesStep, OtherAside
<1>5. ASSUME NEW t \in Threads, ClearStep(t)
      PROVE  TagsInv'
  BY <1>5, WipeKeepsTags, QuietStepsKeepTags DEF OtherAside
<1> QED
  BY <1>1, <1>2, <1>3, <1>4, <1>5 DEF Next, Step

\* TagsInv, the inductive invariant of the tag table: commits create live entities
\* that are no root folders, requests insert every folder once, and the index is
\* exact.  Devices take a millisecond to answer and leave tombstones alone.
THEOREM TagsInvariant ==
  ASSUME RoundTrip >= 1, ~ClockGoesBack, ~EditTombstones
  PROVE  Spec => []TagsInv
<1>1. Init => TagsInv
  BY InitTagsInv
<1>2. TypeOK /\ VersionsInv /\ TagsInv /\ [Next]_vars => TagsInv'
  BY NextTagsInv
<1>3. Spec => []TypeOK
  BY TypeCorrect
<1>4. Spec => []VersionsInv
  BY VersionsInvariant
<1> QED
  BY <1>1, <1>2, <1>3, <1>4, PTL DEF Spec

\* unique_tags is an exact index of the live tagged entities and the root folders,
\* however commits, deletions, new clients, clears, failures and crashes interleave
\* (InsertSyncEntity and the delete of the tag row in UpdateSyncEntity).
THEOREM TagTableIsExact ==
  ASSUME RoundTrip >= 1, ~ClockGoesBack, ~EditTombstones
  PROVE  Spec => []TagsUnique
<1>1. TagsInv => TagsUnique
  BY DEF TagsInv
<1> QED
  BY <1>1, TagsInvariant, PTL

\* Any number of new clients leaves either no root folder or each of them once
\* (InsertServerDefinedUniqueEntities).
THEOREM FoldersAreAllOrNone ==
  ASSUME RoundTrip >= 1, ~ClockGoesBack, ~EditTombstones
  PROVE  Spec => []FoldersAllOrNone
<1>1. TagsInv => FoldersAllOrNone
  BY DEF TagsInv
<1> QED
  BY <1>1, TagsInvariant, PTL

(* History items under way --------------------------------------------------*)

\* Goroutine t takes on no entry, and works on the one it had, if any.
TakesNothing(t) ==
  /\ cm'[t].todo \subseteq cm[t].todo
  /\ pc'[t] \in Unwritten => pc[t] \in Unwritten /\ cm'[t].cur = cm[t].cur

\* Fewer entries are as good as those there were.
LEMMA TakingNothingKeeps ==
  ASSUME HistoryStaysLive, \A t \in Threads : TakesNothing(t)
  PROVE  HistoryStaysLive'
BY DEF HistoryStaysLive, TakesNothing, Versioned

\* Goroutines that wait take nothing.
LEMMA WaitersTakeNothing ==
  ASSUME NEW t \in Threads, OthersWait(t), TakesNothing(t)
  PROVE  \A u \in Threads : TakesNothing(u)
BY DEF OthersWait, TakesNothing

\* Nor do steps that add nothing.
LEMMA NothingNewTakesNothing ==
  ASSUME NothingNew
  PROVE  \A t \in Threads : TakesNothing(t)
BY DEF NothingNew, AddsNothing, TakesNothing

\* A device deletes no history item.
LEMMA SendCommitKeepsHistory ==
  ASSUME TypeOK, HistoryStaysLive, NEW t \in Threads, SendCommit(t)
  PROVE  HistoryStaysLive'
<1> DEFINE d == Dev(t)
           Msg(S, dead) ==
             {[id |-> i, base |-> known[d][i].version, deleted |-> i \in dead] : i \in S}
<1>1. PICK S \in SUBSET {i \in Ids : CanCreate(d, i) \/ CanUpdate(d, i)} :
        \E dead \in SUBSET {i \in S : CanDelete(d, i)} :
          /\ Admit(t, "count")
          /\ cm' = [cm EXCEPT ![t].todo = Msg(S, dead)]
          /\ gu' = gu
  BY DEF SendCommit
<1>2. PICK dead \in SUBSET {i \in S : CanDelete(d, i)} :
        /\ Admit(t, "count")
        /\ cm' = [cm EXCEPT ![t].todo = Msg(S, dead)]
        /\ gu' = gu
  BY <1>1
<1>3. pc'[t] = "count" /\ OthersWait(t)
  BY <1>2, CommitLocals DEF Admit, Goto, OthersWait, TypeOK, StateTypeOK
<1>4. \A e \in cm'[t].todo : e.deleted = (e.id \in dead)
  BY <1>2, CommitLocals
<1>5. \A i \in dead : Versioned(i)
  BY DEF CanDelete
<1> QED
  BY <1>3, <1>4, <1>5 DEF HistoryStaysLive, OthersWait, Versioned, Unwritten

\* The entry that is started is one of the message.
LEMMA StartEntryKeepsHistory ==
  ASSUME TypeOK, HistoryStaysLive, NEW t \in Threads, StartEntry(t)
  PROVE  HistoryStaysLive'
<1>1. PICK e \in cm[t].todo :
        cm' = [cm EXCEPT ![t].todo = @ \ {e}, ![t].cur = {e}, ![t].stamp = clock]
  BY DEF StartEntry
<1>2. /\ cm'[t].todo = cm[t].todo \ {e}
      /\ cm'[t].cur = {e}
      /\ \A u \in Threads \ {t} : cm'[u] = cm[u]
  BY <1>1, CommitLocals
<1>3. \A u \in Threads \ {t} : pc'[u] = pc[u]
  BY DEF StartEntry, Goto, TypeOK, StateTypeOK
<1> QED
  BY <1>2, <1>3 DEF HistoryStaysLive, Versioned

\* The other steps of a commit leave its entries, or have done with one.
LEMMA CommitStepKeepsHistory ==
  ASSUME TypeOK, HistoryStaysLive, NEW t \in Threads, CommitStep(t)
  PROVE  HistoryStaysLive'
<1>1. CASE CommitAside(t)
  BY <1>1, CommitAsideAddsNothing, NothingNewTakesNothing, TakingNothingKeeps
<1>2. CASE StartEntry(t)
  BY <1>2, StartEntryKeepsHistory
<1>3. CASE CheckItem(t)
  <2>1. \A u \in Threads : TakesNothing(u)
    BY <1>3 DEF CheckItem, Local, At, Goto, TakesNothing, Unwritten, TypeOK, StateTypeOK
  <2> QED
    BY <2>1, TakingNothingKeeps
<1>4. ASSUME NEW e \in cm[t].cur, NEW point \in {"entries", "countUp", "countDown"},
             EntrySucceeds(t, e, point)
      PROVE  HistoryStaysLive'
  <2>1. cm'[t].todo = cm[t].todo /\ \A u \in Threads \ {t} : cm'[u] = cm[u]
    BY <1>4, CommitLocals DEF EntrySucceeds
  <2>2. pc'[t] = point /\ \A u \in Threads \ {t} : pc'[u] = pc[u]
    BY <1>4 DEF EntrySucceeds, Goto, TypeOK, StateTypeOK
  <2>3. \A u \in Threads : TakesNothing(u)
    BY <2>1, <2>2 DEF TakesNothing, Unwritten
  <2> QED
    BY <2>3, TakingNothingKeeps
<1>5. CASE PretendStored(t) \/ InsertEntry(t)
  BY <1>4, <1>5 DEF PretendStored, InsertEntry
<1>6. CASE UpdateEntry(t)
  <2>1. CASE EntryFails(t) /\ UNCHANGED storeVars
    BY <1>6, <2>1, EntryFailsAddsNothing, NothingNewTakesNothing, TakingNothingKeeps
    DEF UpdateEntry, storeVars, clientVars
  <2>2. CASE \E e \in cm[t].cur :
               EntrySucceeds(t, e, "entries") \/ EntrySucceeds(t, e, "countDown")
    BY <1>4, <2>2
  <2> QED
    BY <1>6, <2>1, <2>2 DEF UpdateEntry
<1>7. CASE ReplyCommit(t)
  <2>1. \A u \in Threads : TakesNothing(u)
    BY <1>7, FinishAddsNothing DEF ReplyCommit, AddsNothing, TakesNothing
  <2> QED
    BY <2>1, TakingNothingKeeps
<1> QED
  BY <1>1, <1>2, <1>3, <1>5, <1>6, <1>7 DEF CommitStep, CommitAside

\* The update handler has no entries.
LEMMA GetUpdatesStepKeepsHistory ==
  ASSUME TypeOK, HistoryStaysLive, NEW t \in Threads, GetUpdatesStep(t)
  PROVE  HistoryStaysLive'
<1>1. CASE Finish(t)
  <2>1. \A u \in Threads : TakesNothing(u)
    BY <1>1, FinishAddsNothing DEF AddsNothing, TakesNothing
  <2> QED
    BY <2>1, TakingNothingKeeps
<1>2. ASSUME cm' = cm, NEW point, point \notin Unwritten, Goto(t, point)
      PROVE  HistoryStaysLive'
  <2>1. \A u \in Threads : TakesNothing(u)
    BY <1>2 DEF Goto, TakesNothing, TypeOK, StateTypeOK
  <2> QED
    BY <2>1, TakingNothingKeeps
<1> USE DEF LocalGU, Fail, Unwritten
<1>3. CASE CountDevices(t) \/ QueryType(t)
  BY <1>1, <1>2, <1>3 DEF CountDevices, QueryType
<1>4. CASE CheckFolders(t) \/ MakeFolders(t) \/ StartMarker(t) \/ CacheToken(t)
  BY <1>2, <1>4 DEF CheckFolders, MakeFolders, StartMarker, CacheToken
<1>5. CASE InsertFolders(t)
  BY <1>1, <1>2, <1>5 DEF InsertFolders
<1>6. CASE ReplyGetUpdates(t) \/ GetUpdatesStoreError(t)
  BY <1>1, <1>6 DEF ReplyGetUpdates, GetUpdatesStoreError, FailOnStoreError
<1> QED
  BY <1>3, <1>4, <1>5, <1>6 DEF GetUpdatesStep

\* No step of any goroutine brings a deleted history item under way.
LEMMA NextHistoryStaysLive ==
  ASSUME TypeOK, HistoryStaysLive, [Next]_vars
  PROVE  HistoryStaysLive'
<1>1. CASE NothingNew
  BY <1>1, NothingNewTakesNothing, TakingNothingKeeps
<1>2. CASE \E t \in Threads : SendCommit(t) \/ CommitStep(t) \/ GetUpdatesStep(t)
  BY <1>2, SendCommitKeepsHistory, CommitStepKeepsHistory, GetUpdatesStepKeepsHistory
<1>3. CASE \E t \in Threads : SendGetUpdates(t) \/ SendClear(t) \/ ClearStep(t)
  BY <1>1, <1>3, OtherAsideAddsNothing DEF OtherAside
<1> QED
  BY <1>1, <1>2, <1>3, EnvironmentAddsNothing DEF Next, Send, Step

(* Clearing ----------------------------------------------------------------- *)

\* The calls of a clear that come after DisableSyncChain.
Clearing == {"scan", "wipe"}

\* Commits do not clear.
LEMMA CommitIsNoClear ==
  ASSUME TypeOK, NEW t \in Threads, CommitStep(t)
  PROVE  pc'[t] \notin Clearing
<1> USE DEF At, Goto, Clearing, TypeOK, StateTypeOK
<1>1. CASE \/ ReadCounts(t) \/ CheckItem(t) \/ RejectOverQuota(t) \/ EntryStoreError(t)
  BY <1>1 DEF ReadCounts, CheckItem, RejectOverQuota, EntryStoreError, EntryFails, Local
<1>2. CASE \/ PeekInterim(t, "peekNormal", "normal", "peekHistory")
           \/ PeekInterim(t, "peekHistory", "history", "entries")
           \/ DrainInterim(t, "entries", "normal", "drainHistory")
           \/ DrainInterim(t, "drainHistory", "history", "setMtime")
  BY <1>2 DEF PeekInterim, DrainInterim, Local
<1>3. CASE CountEntry(t, "countUp", FALSE) \/ CountEntry(t, "countDown", TRUE)
  BY <1>3 DEF CountEntry
<1>4. CASE PretendStored(t) \/ InsertEntry(t)
  BY <1>4 DEF PretendStored, InsertEntry, EntrySucceeds
<1>5. CASE UpdateEntry(t)
  BY <1>5 DEF UpdateEntry, EntryFails, EntrySucceeds
<1>6. CASE SaveMtime(t) \/ FlushCounts(t)
  BY <1>6 DEF SaveMtime, FlushCounts
<1>7. CASE ReplyCommit(t)
  BY <1>7, EndsIdle DEF ReplyCommit
<1>8. CASE CountsStoreError(t)
  BY <1>8, EndsIdle DEF CountsStoreError, FailOnStoreError, Fail
<1>9. CASE StartEntry(t)
  <2>1. PICK e \in cm[t].todo :
          Goto(t, CASE ~Versioned(e.id) -> "hasItem"
                    [] Versioned(e.id) /\ e.base # 0 -> "update"
                    [] OTHER -> "create")
    BY <1>9 DEF StartEntry
  <2> DEFINE next == CASE ~Versioned(e.id) -> "hasItem"
                       [] Versioned(e.id) /\ e.base # 0 -> "update"
                       [] OTHER -> "create"
  <2>2. next \in {"hasItem", "update", "create"}
    OBVIOUS
  <2>3. pc' = [pc EXCEPT ![t] = next]
    BY <2>1
  <2> HIDE DEF next
  <2> QED
    BY <2>2, <2>3
<1> QED
  BY <1>1, <1>2, <1>3, <1>4, <1>5, <1>6, <1>7, <1>8, <1>9 DEF CommitStep

\* Nor do requests for updates.
LEMMA GetUpdatesIsNoClear ==
  ASSUME TypeOK, NEW t \in Threads, GetUpdatesStep(t)
  PROVE  pc'[t] \notin Clearing
<1> USE DEF Clearing
<1>1. ASSUME NEW point, point \notin Clearing, Goto(t, point)
      PROVE  pc'[t] \notin Clearing
  BY <1>1 DEF Goto, TypeOK, StateTypeOK
<1>2. ASSUME Fail(t)
      PROVE  pc'[t] \notin Clearing
  BY <1>2, EndsIdle DEF Fail
<1>3. CASE CountDevices(t) \/ QueryType(t)
  BY <1>1, <1>2, <1>3 DEF CountDevices, QueryType
<1>4. CASE CheckFolders(t) \/ MakeFolders(t) \/ StartMarker(t) \/ CacheToken(t)
  BY <1>1, <1>4 DEF CheckFolders, MakeFolders, StartMarker, CacheToken
<1>5. CASE InsertFolders(t)
  BY <1>1, <1>2, <1>5 DEF InsertFolders
<1>6. CASE ReplyGetUpdates(t)
  BY <1>6, EndsIdle DEF ReplyGetUpdates
<1>7. CASE GetUpdatesStoreError(t)
  BY <1>2, <1>7 DEF GetUpdatesStoreError, FailOnStoreError
<1> QED
  BY <1>3, <1>4, <1>5, <1>6, <1>7 DEF GetUpdatesStep

\* The marker row stays, and only Disable leads to the calls that need it.
LEMMA NextClearingIsDisabled ==
  ASSUME TypeOK, ClearingIsDisabled, [Next]_vars
  PROVE  ClearingIsDisabled'
<1> USE DEF Clearing
<1>1. CASE \/ Tick \/ SetBack \/ Crash \/ AwaitRequests \/ UNCHANGED vars
           \/ \E t \in Threads : GiveUp(t)
           \/ \E ty \in Types : Expire(ty)
  BY <1>1, EnvironmentWritesNothing DEF ClearingIsDisabled
<1>2. ASSUME NEW t \in Threads, Send(t)
      PROVE  ClearingIsDisabled'
  <2>1. disabled' = disabled
    BY <1>2 DEF Send, SendCommit, SendGetUpdates, SendClear, storeVars
  <2>2. PICK point \in {"count", "devices", "markers", "disable"} : Admit(t, point)
    BY <1>2 DEF Send, SendCommit, SendGetUpdates, SendClear
  <2> QED
    BY <2>1, <2>2 DEF Admit, Goto, ClearingIsDisabled, TypeOK, StateTypeOK
<1>3. ASSUME NEW t \in Threads, CommitStep(t) \/ GetUpdatesStep(t)
      PROVE  ClearingIsDisabled'
  <2>1. pc'[t] \notin Clearing /\ disabled' = disabled /\ Alone(t)
    BY <1>3, CommitIsAlone, GetUpdatesIsAlone, CommitIsNoClear, GetUpdatesIsNoClear
  <2> QED
    BY <2>1 DEF ClearingIsDisabled, Alone
<1>4. ASSUME NEW t \in Threads, ClearStep(t)
      PROVE  ClearingIsDisabled'
  <2>1. Alone(t)
    BY <1>4, ClearIsAlone
  <2>2. disabled => disabled'
    BY <1>4 DEF ClearStep, Disable, DisableSyncChain, Scan, Wipe, ClearServerData,
                EvictAndReply, ClearStoreError, FailOnStoreError, Fail, storeVars
  <2>3. pc'[t] \in Clearing => disabled'
    <3>1. CASE Disable(t)
      BY <3>1 DEF Disable, DisableSyncChain
    <3>2. CASE Scan(t)
      BY <2>2, <3>2 DEF Scan, At, ClearingIsDisabled
    <3>3. CASE Wipe(t)
      BY <3>3 DEF Wipe, Goto, TypeOK, StateTypeOK
    <3>4. CASE EvictAndReply(t) \/ ClearStoreError(t)
      BY <3>4, EndsIdle DEF EvictAndReply, ClearStoreError, FailOnStoreError, Fail
    <3> QED
      BY <1>4, <3>1, <3>2, <3>3, <3>4 DEF ClearStep
  <2> QED
    BY <2>1, <2>2, <2>3 DEF ClearingIsDisabled, Alone
<1> QED
  BY <1>1, <1>2, <1>3, <1>4 DEF Next, Step

\* ChainInv, the part of the invariant behind the refinement that handlers keep by
\* themselves: history items under way are live, and a clear works on a disabled chain.
THEOREM ChainInvariant == Spec => []ChainInv
<1>1. Init => ChainInv
  BY DEF Init, NoCommit, ChainInv, HistoryStaysLive, ClearingIsDisabled
<1>2. TypeOK /\ ChainInv /\ [Next]_vars => ChainInv'
  BY NextHistoryStaysLive, NextClearingIsDisabled DEF ChainInv
<1> QED
  BY <1>1, <1>2, TypeCorrect, PTL DEF Spec

(* Acknowledged commits ----------------------------------------------------- *)

\* Rows stay, and who has not heard of an entity without a row hears nothing of it.
NothingUnfounded ==
  \A i \in Ids : /\ Stored(i) => Stored(i)'
                 /\ Firm(i) /\ Blank(i) => Blank(i)' \/ Stored(i)'

\* Tags are taken by what is stored.
TagsFounded ==
  \A tag \in tagRows' : tag \in tagRows \/ \E i \in Ids : Stored(i)' /\ TagOf[i] = tag

\* Such a step keeps FirmAreStored.
LEMMA NothingUnfoundedKeeps ==
  ASSUME FirmAreStored, NothingUnfounded, TagsFounded, disabled' = disabled
  PROVE  FirmAreStored'
<1>1. TagsHaveRows'
  BY DEF FirmAreStored, TagsHaveRows, NothingUnfounded, TagsFounded
<1>2. \A i \in Ids : Firm(i)' <=> Firm(i)
  BY DEF Firm, TagIsOwn, HistoryRelated, ClientTagRow, Versioned
<1> QED
  BY <1>1, <1>2 DEF FirmAreStored, NothingUnfounded

\* A step that leaves the rows and tells nobody anything is such a step.
LEMMA NothingNewIsFounded ==
  ASSUME NothingNew, rows' = rows
  PROVE  NothingUnfounded
BY DEF NothingNew, NothingUnfounded, AddsNothing, Blank, Stored

\* An entity of the commit is acknowledged, or nothing is.
LEMMA CommitIsFounded ==
  ASSUME TypeOK, TagsHaveRows, ~disabled, NEW t \in Threads, CommitStep(t)
  PROVE  NothingUnfounded
<1>1. CASE CommitAside(t)
  <2>1. rows' = rows
    BY <1>1 DEF CommitAside, ReadCounts, PeekInterim, RejectOverQuota, CountEntry, EntryStoreError,
         DrainInterim, SaveMtime, FlushCounts, CountsStoreError, FailOnStoreError, Fail,
         UpdateClientItemCount, Local, storeVars
  <2> QED
    BY <1>1, <2>1, CommitAsideAddsNothing, NothingNewIsFounded
<1>2. CASE StartEntry(t) \/ CheckItem(t) \/ (UpdateEntry(t) /\ EntryFails(t) /\ UNCHANGED storeVars)
  <2>1. rows' = rows /\ known' = known /\ gu' = gu
    BY <1>2 DEF StartEntry, CheckItem, UpdateEntry, Local, storeVars, clientVars
  <2>2. \/ \E e : cm' = [cm EXCEPT ![t].todo = @ \ {e}, ![t].cur = {e}, ![t].stamp = clock]
        \/ cm' = cm
        \/ cm' = [cm EXCEPT ![t].cur = {}]
    BY <1>2 DEF StartEntry, CheckItem, EntryFails
  <2>3. \A u \in Threads : cm'[u].acks = cm[u].acks
    <3>1. CASE \E e : cm' = [cm EXCEPT ![t].todo = @ \ {e}, ![t].cur = {e}, ![t].stamp = clock]
      <4>1. PICK e : cm' = [cm EXCEPT ![t].todo = @ \ {e}, ![t].cur = {e}, ![t].stamp = clock]
        BY <3>1
      <4>2. cm'[t].acks = cm[t].acks /\ \A u \in Threads \ {t} : cm'[u] = cm[u]
        BY <4>1, CommitLocals DEF CommitWork
      <4> QED
        BY <4>2
    <3>2. CASE cm' = [cm EXCEPT ![t].cur = {}]
      BY <3>2, CommitLocals DEF CommitWork
    <3> QED
      BY <2>2, <3>1, <3>2
  <2> QED
    BY <2>1, <2>3 DEF NothingUnfounded, Blank, Stored
<1>3. ASSUME NEW e \in cm[t].cur, NEW point, EntrySucceeds(t, e, point),
             known' = known, gu' = gu, \A i \in Ids : Stored(i) => Stored(i)',
             Firm(e.id) => Stored(e.id)'
      PROVE  NothingUnfounded
  <2> DEFINE ack == [id |-> e.id, version |-> cm[t].stamp, deleted |-> e.deleted]
  <2>1. /\ cm'[t].acks = cm[t].acks \cup {ack}
        /\ \A u \in Threads \ {t} : cm'[u] = cm[u]
    BY <1>3, CommitLocals DEF EntrySucceeds, CommitWork
  <2>2. ASSUME NEW i \in Ids, Firm(i), Blank(i), ~Stored(i)'
        PROVE  Blank(i)'
    <3>1. i # e.id
      BY <1>3, <2>2
    <3>2. \A u \in Threads : \A a \in cm'[u].acks : a.id # i
      BY <2>1, <2>2, <3>1 DEF Blank
    <3> QED
      BY <1>3, <2>2, <3>2 DEF Blank
  <2> QED
    BY <1>3, <2>2 DEF NothingUnfounded
<1>4. CASE PretendStored(t)
  <2>1. PICK e \in cm[t].cur : Pretended(cm[t], e.id) /\ EntrySucceeds(t, e, "entries")
    BY <1>4 DEF PretendStored
  <2>2. rows' = rows /\ known' = known /\ gu' = gu
    BY <1>4 DEF PretendStored, Local, storeVars, clientVars
  <2>3. ~Firm(e.id)
    BY <2>1 DEF Pretended, Firm
  <2> QED
    BY <1>3, <2>1, <2>2, <2>3 DEF Stored
<1>5. CASE InsertEntry(t)
  <2>1. PICK e \in cm[t].cur : /\ InsertSyncEntity(e.id, RowFor(t, e))
                               /\ EntrySucceeds(t, e, "countUp")
    BY <1>5 DEF InsertEntry
  <2>2. known' = known /\ gu' = gu
    BY <1>5 DEF InsertEntry, clientVars
  <2>3. e.id \in Ids /\ RowFor(t, e) # NoRow
    BY CommitLocals, RowForType, NoRowAssumption DEF Entry
  <2>4. \/ rows' = rows /\ InsertConflicts(e.id)
        \/ rows' = [rows EXCEPT ![e.id] = RowFor(t, e)]
    BY <2>1 DEF InsertSyncEntity, storeVars
  <2>5. ASSUME Firm(e.id), InsertConflicts(e.id)
        PROVE  Stored(e.id)
    <3> SUFFICES ASSUME ClientTagRow(e.id) \cap tagRows # {}
                 PROVE  Stored(e.id)
      BY <2>5 DEF InsertConflicts
    <3>1. ClientTagRow(e.id) # {} /\ TagOf[e.id] \in tagRows
      BY DEF ClientTagRow
    <3>2. PICK j \in Ids : Stored(j) /\ TagOf[j] = TagOf[e.id]
      BY <3>1 DEF TagsHaveRows
    <3> QED
      BY <2>5, <3>1, <3>2 DEF Firm, TagIsOwn
  <2>6. \A i \in Ids : Stored(i) => Stored(i)'
    BY <2>3, <2>4 DEF Stored, TypeOK, StoreTypeOK
  <2>7. Firm(e.id) => Stored(e.id)'
    BY <2>3, <2>4, <2>5, <2>6 DEF Stored, TypeOK, StoreTypeOK
  <2> QED
    BY <1>3, <2>1, <2>2, <2>6, <2>7
<1>6. CASE UpdateEntry(t) /\ ~(EntryFails(t) /\ UNCHANGED storeVars)
  <2>1. PICK e \in cm[t].cur :
          /\ UpdateSyncEntity(e.id, RowFor(t, e))
          /\ EntrySucceeds(t, e,
               IF BecomesDeleted(e.id, e.deleted) THEN "countDown" ELSE "entries")
    BY <1>6 DEF UpdateEntry
  <2>2. known' = known /\ gu' = gu
    BY <1>6 DEF UpdateEntry, clientVars
  <2>3. e.id \in Ids /\ RowFor(t, e) # NoRow
    BY CommitLocals, RowForType, NoRowAssumption DEF Entry
  <2>4. /\ \A i \in Ids : Stored(i) => Stored(i)'
        /\ Stored(e.id)'
    BY <2>1, <2>3 DEF UpdateSyncEntity, Stored, TypeOK, StoreTypeOK
  <2> QED
    BY <1>3, <2>1, <2>2, <2>4
<1>7. CASE ReplyCommit(t)
  <2>1. rows' = rows /\ \A u \in Threads : AddsNothing(u)
    BY <1>7, FinishAddsNothing DEF ReplyCommit, storeVars
  <2>2. \A i \in Ids : Blank(i) => Learned(t, i) = known[Dev(t)][i]
    BY DEF Blank, Learned
  <2>3. \A d \in Devices, i \in Ids : Blank(i) => known'[d][i].version = 0
    BY <1>7, <2>2, DevType DEF ReplyCommit, Blank, TypeOK, StateTypeOK
  <2> QED
    BY <2>1, <2>3 DEF NothingUnfounded, AddsNothing, Blank, Stored
<1> QED
  BY <1>1, <1>2, <1>4, <1>5, <1>6, <1>7 DEF CommitStep, CommitAside

\* An update is of a row.
LEMMA GetUpdatesIsFounded ==
  ASSUME TypeOK, NEW t \in Threads, GetUpdatesStep(t)
  PROVE  NothingUnfounded
<1>1. CASE \/ CountDevices(t) \/ CheckFolders(t) \/ StartMarker(t) \/ CacheToken(t)
           \/ GetUpdatesStoreError(t) \/ Fail(t)
  <2>1. NothingNew
    BY <1>1, OtherAsideAddsNothing, FailAddsNothing DEF OtherAside
  <2>2. rows' = rows
    BY <1>1 DEF CountDevices, CheckFolders, StartMarker, CacheToken, LocalGU,
                GetUpdatesStoreError, FailOnStoreError, Fail, storeVars
  <2> QED
    BY <2>1, <2>2, NothingNewIsFounded
<1>2. CASE MakeFolders(t)
  <2>1. /\ rows' = rows /\ known' = known /\ cm' = cm
        /\ \A u \in Threads : gu'[u].got = gu[u].got
    BY <1>2, MakeFoldersStamps DEF OthersWait
  <2> QED
    BY <2>1 DEF NothingUnfounded, Blank, Stored
<1>3. CASE InsertFolders(t) /\ ~Fail(t)
  <2>1. /\ known' = known /\ cm' = cm /\ gu' = gu
        /\ rows' = [i \in Ids |-> IF i \in gu[t].folders THEN FolderRow(t) ELSE rows[i]]
        /\ \A i \in gu[t].folders : ~Stored(i)
    BY <1>3, InsertFoldersWrites
  <2> QED
    BY <2>1 DEF NothingUnfounded, Blank, Stored
<1>4. CASE QueryType(t) /\ ~Fail(t)
  <2>1. PICK ty \in gu[t].cur, P \in SUBSET Ids, next \in Nat : Answers(t, ty, P, next)
    BY <1>4, QueryTypeReads
  <2>2. /\ rows' = rows /\ known' = known /\ cm' = cm
        /\ \A u \in Threads \ {t} : gu'[u] = gu[u]
    BY <1>4, QueryTypeReads DEF Still, OthersWait
  <2>3. \A u \in gu'[t].got : u \in gu[t].got \/ Stored(u.id)
    BY <2>1 DEF Answers, Newer, UpdateOf
  <2> QED
    BY <2>2, <2>3 DEF NothingUnfounded, Blank, Stored
<1>5. CASE ReplyGetUpdates(t)
  <2>1. rows' = rows /\ \A u \in Threads : AddsNothing(u)
    BY <1>5, FinishAddsNothing DEF ReplyGetUpdates, storeVars
  <2>2. \A i \in Ids : Blank(i) => LearnedUpdate(t, i) = known[Dev(t)][i]
    BY DEF Blank, LearnedUpdate
  <2>3. \/ known' = known
        \/ known' = [known EXCEPT ![Dev(t)] = [i \in Ids |-> LearnedUpdate(t, i)]]
    BY <1>5 DEF ReplyGetUpdates, clientVars
  <2>4. \A d \in Devices, i \in Ids : Blank(i) => known'[d][i].version = 0
    <3>1. CASE known' = known
      BY <3>1 DEF Blank
    <3>2. CASE known' = [known EXCEPT ![Dev(t)] = [i \in Ids |-> LearnedUpdate(t, i)]]
      <4>1. /\ \A d \in Devices \ {Dev(t)} : known'[d] = known[d]
            /\ \A i \in Ids : known'[Dev(t)][i] = LearnedUpdate(t, i)
        BY <3>2, DevType DEF TypeOK, StateTypeOK
      <4> QED
        BY <2>2, <4>1, DevType DEF Blank
    <3> QED
      BY <2>3, <3>1, <3>2
  <2> QED
    BY <2>1, <2>4 DEF NothingUnfounded, AddsNothing, Blank, Stored
<1> QED
  BY <1>1, <1>2, <1>3, <1>4, <1>5 DEF GetUpdatesStep

\* A request takes the tags of the rows it inserts.
LEMMA TagsAreFounded ==
  ASSUME TypeOK, NEW t \in Threads, CommitStep(t) \/ GetUpdatesStep(t)
  PROVE  TagsFounded
<1>1. CASE CommitStep(t) /\ ~InsertEntry(t)
  <2>1. tagRows' \subseteq tagRows
    BY <1>1 DEF CommitStep, ReadCounts, PeekInterim, StartEntry, CheckItem, RejectOverQuota,
         PretendStored, UpdateEntry, CountEntry, EntryStoreError, DrainInterim, SaveMtime,
         FlushCounts, ReplyCommit, CountsStoreError, FailOnStoreError, Fail,
         UpdateClientItemCount, UpdateSyncEntity, Local, storeVars
  <2> QED
    BY <2>1 DEF TagsFounded
<1>2. CASE InsertEntry(t)
  <2>1. PICK e \in cm[t].cur : InsertSyncEntity(e.id, RowFor(t, e))
    BY <1>2 DEF InsertEntry
  <2>2. e.id \in Ids /\ RowFor(t, e) # NoRow
    BY CommitLocals, RowForType, NoRowAssumption DEF Entry
  <2>3. \/ tagRows' = tagRows
        \/ Stored(e.id)' /\ tagRows' \subseteq tagRows \cup {TagOf[e.id]}
    BY <2>1, <2>2 DEF InsertSyncEntity, ClientTagRow, Stored, storeVars, TypeOK, StoreTypeOK
  <2> QED
    BY <2>2, <2>3 DEF TagsFounded
<1>3. CASE GetUpdatesStep(t) /\ ~InsertFolders(t)
  <2>1. tagRows' = tagRows
    BY <1>3 DEF GetUpdatesStep, CountDevices, CheckFolders, MakeFolders, StartMarker, QueryType,
         CacheToken, ReplyGetUpdates, GetUpdatesStoreError, FailOnStoreError, Fail, LocalGU,
         storeVars
  <2> QED
    BY <2>1 DEF TagsFounded
<1>4. CASE InsertFolders(t)
  <2>1. \/ tagRows' = tagRows
        \/ InsertSyncEntitiesWithServerTags(gu[t].folders, FolderRow(t))
    BY <1>4 DEF InsertFolders, Fail, storeVars
  <2>2. CASE InsertSyncEntitiesWithServerTags(gu[t].folders, FolderRow(t))
    <3>1. gu[t].folders \subseteq Ids
      BY GetUpdatesLocals DEF GetUpdatesWork, RootIds
    <3>2. FolderRow(t) # NoRow
      <4>1. FolderRow(t) \in Row
        BY GetUpdatesLocals DEF FolderRow, Row
      <4> QED
        BY <4>1, NoRowAssumption
    <3>3. \A i \in gu[t].folders : Stored(i)'
      BY <2>2, <3>1, <3>2 DEF InsertSyncEntitiesWithServerTags, Stored
    <3> QED
      BY <2>2, <3>1, <3>3 DEF InsertSyncEntitiesWithServerTags, TagsFounded
  <2> QED
    BY <2>1, <2>2 DEF TagsFounded
<1> QED
  BY <1>1, <1>2, <1>3, <1>4

\* Every step of the server keeps FirmAreStored.
LEMMA NextFirmAreStored ==
  ASSUME TypeOK, FirmAreStored, ClearingIsDisabled, [Next]_vars
  PROVE  FirmAreStored'
<1>1. CASE Outside
  <2>1. disabled' = disabled /\ rows' = rows
    BY <1>1, EnvironmentWritesNothing DEF Outside
  <2>2. NothingNew
    BY <1>1, EnvironmentAddsNothing DEF Outside
  <2>3. TagsFounded
    BY <1>1 DEF Outside, Tick, SetBack, Crash, AwaitRequests, vars, GiveUp, Expire, storeVars, TagsFounded
  <2> QED
    BY <2>1, <2>2, <2>3, NothingNewIsFounded, NothingUnfoundedKeeps
<1>2. ASSUME NEW t \in Threads, Send(t)
      PROVE  FirmAreStored'
  <2>1. disabled' = disabled /\ rows' = rows /\ known' = known /\ TagsFounded
    BY <1>2 DEF Send, SendCommit, SendGetUpdates, SendClear, storeVars, clientVars, TagsFounded
  <2>2. CASE SendCommit(t)
    <3>1. gu' = gu /\ \E S : cm' = [cm EXCEPT ![t].todo = S]
      BY <2>2 DEF SendCommit
    <3>2. \A u \in Threads : cm'[u].acks = cm[u].acks
      BY <3>1, CommitLocals DEF CommitWork
    <3>3. NothingUnfounded
      BY <2>1, <3>1, <3>2 DEF NothingUnfounded, Blank, Stored
    <3> QED
      BY <2>1, <3>3, NothingUnfoundedKeeps
  <2>3. CASE SendGetUpdates(t) \/ SendClear(t)
    BY <2>1, <2>3, OtherAsideAddsNothing, NothingNewIsFounded, NothingUnfoundedKeeps DEF OtherAside
  <2> QED
    BY <1>2, <2>2, <2>3 DEF Send
<1>3. ASSUME NEW t \in Threads, CommitStep(t) \/ GetUpdatesStep(t)
      PROVE  FirmAreStored'
  <2>1. disabled' = disabled
    BY <1>3, CommitIsAlone, GetUpdatesIsAlone
  <2>2. CASE disabled
    BY <2>1, <2>2 DEF FirmAreStored, TagsHaveRows
  <2>3. CASE ~disabled
    <3>1. TagsHaveRows
      BY DEF FirmAreStored
    <3>2. NothingUnfounded /\ TagsFounded
      BY <1>3, <2>3, <3>1, CommitIsFounded, GetUpdatesIsFounded, TagsAreFounded
    <3> QED
      BY <2>1, <3>2, NothingUnfoundedKeeps
  <2> QED
    BY <2>2, <2>3
<1>4. ASSUME NEW t \in Threads, ClearStep(t)
      PROVE  FirmAreStored'
  <2>1. CASE ~disabled' /\ disabled' = disabled
    <3>1. rows' = rows /\ tagRows' = tagRows
      BY <1>4, <2>1 DEF ClearStep, Disable, DisableSyncChain, Scan, Wipe, EvictAndReply,
           ClearStoreError, FailOnStoreError, Fail, ClearingIsDisabled, At, storeVars
    <3>2. NothingNew
      BY <1>4, OtherAsideAddsNothing DEF OtherAside
    <3>3. TagsFounded
      BY <3>1 DEF TagsFounded
    <3> QED
      BY <2>1, <3>1, <3>2, <3>3, NothingNewIsFounded, NothingUnfoundedKeeps
  <2>2. disabled' = disabled \/ disabled'
    BY <1>4 DEF ClearStep, Disable, DisableSyncChain, Scan, Wipe, ClearServerData,
                EvictAndReply, ClearStoreError, FailOnStoreError, Fail, storeVars
  <2>3. CASE disabled'
    BY <2>3 DEF FirmAreStored, TagsHaveRows
  <2> QED
    BY <2>1, <2>2, <2>3
<1> QED
  BY <1>1, <1>2, <1>3, <1>4 DEF Next, Step, Outside

\* What a device was told is committed, or received, is in the store until the chain is
\* cleared, however requests overlap, fail and are abandoned, if it is no history
\* entity, whose quota lets handleCommitRequest pretend, and shares its client tag with
\* no other entity, whose conflict InsertSyncEntity reports as no error.
THEOREM FirmCommitsAreStored == Spec => []FirmAcksAreStored
<1>1. Init => FirmAreStored
  BY DEF Init, StoreInit, NoCommit, NoGetUpdates, Unknown, FirmAreStored, TagsHaveRows,
         Blank, Stored
<1>2. TypeOK /\ ChainInv /\ FirmAreStored /\ [Next]_vars => FirmAreStored'
  BY NextFirmAreStored DEF ChainInv
<1>3. TypeOK /\ FirmAreStored => FirmAcksAreStored
  BY DEF FirmAreStored, FirmAcksAreStored, Blank, TypeOK, StateTypeOK, Known
<1> QED
  BY <1>1, <1>2, <1>3, ChainInvariant, TypeCorrect, PTL DEF Spec

\* The same for all entities, if none is of a history type and no two share a client tag
\* (handleCommitRequest, InsertSyncEntity).
THEOREM CommitsAreStored ==
  ASSUME \A i \in Ids : Firm(i)
  PROVE  Spec => []AckedIsStored
<1>1. FirmAcksAreStored => AckedIsStored
  BY DEF FirmAcksAreStored, AckedIsStored
<1> QED
  BY <1>1, FirmCommitsAreStored, PTL

(* The steps of the server as steps of the chain ---------------------------- *)

\* The chain has the data of the server.
LEMMA SameData ==
  /\ Chain!Row = Row
  /\ \A i \in Ids : Chain!Versioned(i) <=> Versioned(i)
BY DEF Chain!Row, Row, Chain!Versioned, Versioned

\* A row the commit handler writes is a row a device writes.
LEMMA DeviceWrites ==
  ASSUME TypeOK, NEW t \in Threads, NEW e \in cm[t].cur,
         rows' = [rows EXCEPT ![e.id] = RowFor(t, e)], disabled' = disabled
  PROVE  /\ Chain!Write(e.id)
         /\ rows'[e.id].version = cm[t].stamp
         /\ rows'[e.id].deleted = e.deleted
<1>1. e.id \in Ids /\ e.deleted \in BOOLEAN
  BY CommitLocals DEF Entry
<1>2. RowFor(t, e) \in Row /\ RowFor(t, e).by \in Devices
  BY <1>1, DevType, CommitLocals DEF RowFor, Row
<1>3. rows'[e.id] = RowFor(t, e)
  BY <1>1 DEF TypeOK, StoreTypeOK
<1>4. rows' = [rows EXCEPT ![e.id] = rows'[e.id]]
  BY <1>3
<1> QED
  BY <1>2, <1>3, <1>4, SameData DEF Chain!Write, RowFor

\* InsertEntry creates an entity whose tag is free, or conflicts and stutters.
LEMMA InsertEntryCreates ==
  ASSUME TypeOK, TagsInv, HistoryStaysLive, NEW t \in Threads, InsertEntry(t)
  PROVE  [Chain!Next]_<<rows, disabled>>
<1>1. PICK e \in cm[t].cur : InsertSyncEntity(e.id, RowFor(t, e))
  BY DEF InsertEntry
<1>2. CASE UNCHANGED storeVars
  BY <1>2 DEF storeVars
<1>3. CASE ~InsertConflicts(e.id) /\ ~UNCHANGED storeVars
  <2>1. e.id \in Ids
    BY CommitLocals DEF Entry
  <2>2. pc[t] = "create"
    BY DEF InsertEntry, At
  <2>3. ~e.deleted /\ TagOf[e.id] \notin ServerTags
    BY <2>1, <2>2, TagKinds DEF TagsInv, NewAreLive, HistoryStaysLive, Unwritten
  <2>4. ~Stored(e.id) /\ ClientTagRow(e.id) \cap tagRows = {}
    BY <1>3 DEF InsertConflicts
  <2>5. Versioned(e.id) => Chain!TagFree(e.id)
    <3>1. SUFFICES ASSUME Versioned(e.id), TagOf[e.id] \in ClientTags,
                          NEW j \in Ids, Versioned(j), TagOf[j] = TagOf[e.id],
                          rows[j] # NoRow, ~rows[j].deleted
                   PROVE  FALSE
      BY SameData DEF Chain!TagFree, Chain!Present
    <3>2. HoldsTag(j)
      BY <3>1 DEF HoldsTag, Live, Stored, ClientTagRow
    <3>3. TagOf[j] \in tagRows
      BY <3>2 DEF TagsInv, TagsUnique
    <3>4. ClientTagRow(e.id) = {TagOf[e.id]}
      BY <3>1 DEF ClientTagRow
    <3> QED
      BY <2>4, <3>1, <3>3, <3>4
  <2>6. Chain!Write(e.id) /\ rows'[e.id].deleted = e.deleted
    BY <1>1, <1>3, DeviceWrites DEF InsertSyncEntity
  <2>7. Chain!Create(e.id)
    BY <2>1, <2>3, <2>4, <2>5, <2>6, SameData DEF Chain!Create, Chain!Present, Stored
  <2> QED
    BY <2>1, <2>7 DEF Chain!Next
<1> QED
  BY <1>1, <1>2, <1>3 DEF InsertSyncEntity

\* UpdateEntry replaces a live entity by a newer version, overwrites a history item,
\* or refuses and stutters.
LEMMA UpdateEntryReplaces ==
  ASSUME TypeOK, VersionsInv, HistoryStaysLive, ~EditTombstones,
         NEW t \in Threads, UpdateEntry(t)
  PROVE  [Chain!Next]_<<rows, disabled>>
<1>1. PICK e \in cm[t].cur :
        \/ UNCHANGED storeVars
        \/ ~UpdateConflicts(e.id, e.base) /\ UpdateSyncEntity(e.id, RowFor(t, e))
  BY DEF UpdateEntry
<1>2. CASE UNCHANGED storeVars
  BY <1>2 DEF storeVars
<1>3. CASE ~UpdateConflicts(e.id, e.base) /\ UpdateSyncEntity(e.id, RowFor(t, e))
  <2>1. e.id \in Ids /\ e.base \in Nat /\ cm[t].stamp \in Nat /\ pc[t] = "update"
    BY CommitLocals DEF Entry, UpdateEntry, At
  <2>2. Stored(e.id)
    BY <1>3 DEF UpdateConflicts
  <2>3. /\ Chain!Write(e.id)
        /\ rows'[e.id].version = cm[t].stamp
        /\ rows'[e.id].deleted = e.deleted
    BY <1>3, DeviceWrites DEF UpdateSyncEntity
  <2>4. CASE Versioned(e.id)
    <3>1. Live(e.id)
      BY <1>3, <2>1, <2>4, UpdatedIsLive
    <3>2. rows[e.id].version = e.base /\ e.base < cm[t].stamp
      BY <1>3, <2>1, <2>4, UpdatedIsKnown
    <3>3. rows'[e.id].version > rows[e.id].version
      BY <2>1, <2>3, <3>2
    <3>4. Chain!Replace(e.id)
      BY <2>1, <2>2, <2>3, <2>4, <3>1, <3>3, SameData
      DEF Chain!Replace, Chain!Present, Live, Stored
    <3> QED
      BY <2>1, <3>4 DEF Chain!Next
  <2>5. CASE ~Versioned(e.id)
    <3>1. ~e.deleted
      BY <2>1, <2>5 DEF HistoryStaysLive, Unwritten
    <3>2. Chain!Overwrite(e.id)
      BY <2>1, <2>2, <2>3, <2>5, <3>1, SameData DEF Chain!Overwrite, Chain!Present, Stored
    <3> QED
      BY <2>1, <3>2 DEF Chain!Next
  <2> QED
    BY <2>4, <2>5
<1> QED
  BY <1>1, <1>2, <1>3

\* InsertFolders plants the root folders of a chain that has none, or fails.
LEMMA InsertFoldersPlants ==
  ASSUME TypeOK, TagsInv, NEW t \in Threads, InsertFolders(t)
  PROVE  [Chain!Next]_<<rows, disabled>>
<1>1. CASE Fail(t)
  BY <1>1 DEF Fail, storeVars
<1>2. CASE /\ ~ServerTagsConflict(gu[t].folders)
           /\ InsertSyncEntitiesWithServerTags(gu[t].folders, FolderRow(t))
  <2> DEFINE R == gu[t].folders
  <2>1. /\ R \subseteq Ids
        /\ {TagOf[i] : i \in R} = ServerTags
        /\ \A i, j \in R : TagOf[i] = TagOf[j] => i = j
    BY GetUpdatesLocals DEF InsertFolders, At, TagsInv, FoldersAreComplete, RootIds
  <2>2. \A i \in R : TagOf[i] \notin tagRows
    BY <1>2 DEF ServerTagsConflict
  <2>3. \A i \in Ids : TagOf[i] \in ServerTags => ~Stored(i)
    <3>1. \A i \in Ids : TagOf[i] \in ServerTags /\ Stored(i) => TagOf[i] \in tagRows
      BY DEF TagsInv, TagsUnique, HoldsTag
    <3> QED
      BY <2>1, <2>2, <3>1
  <2>4. FolderRow(t) \in Row /\ FolderRow(t).by = Server
    BY GetUpdatesLocals DEF FolderRow, Row
  <2>5. rows' = [i \in Ids |-> IF i \in R THEN FolderRow(t) ELSE rows[i]]
    BY <1>2 DEF InsertSyncEntitiesWithServerTags
  <2>6. \A i \in R : rows'[i] = FolderRow(t)
    BY <2>1, <2>5
  <2>7. rows' = [i \in Ids |-> IF i \in R THEN rows'[i] ELSE rows[i]]
    BY <2>5, <2>6
  <2>8. disabled' = disabled
    BY <1>2 DEF InsertSyncEntitiesWithServerTags
  <2> HIDE DEF R
  <2>9. Chain!Plant(R)
    BY <2>1, <2>3, <2>4, <2>6, <2>7, <2>8, SameData DEF Chain!Plant, Chain!Present, Stored
  <2> QED
    BY <2>1, <2>9 DEF Chain!Next
<1> QED
  BY <1>1, <1>2 DEF InsertFolders

\* A clear disables the chain, then empties it.
LEMMA ClearStepDisablesOrWipes ==
  ASSUME ClearingIsDisabled, NEW t \in Threads, ClearStep(t)
  PROVE  [Chain!Next]_<<rows, disabled>>
<1>1. CASE Disable(t)
  BY <1>1 DEF Disable, DisableSyncChain, Chain!Next, Chain!Disable
<1>2. CASE Wipe(t)
  BY <1>2 DEF Wipe, ClearServerData, At, ClearingIsDisabled, Chain!Next, Chain!Wipe
<1>3. CASE Scan(t) \/ EvictAndReply(t) \/ ClearStoreError(t)
  BY <1>3 DEF Scan, EvictAndReply, ClearStoreError, FailOnStoreError, Fail, storeVars
<1> QED
  BY <1>1, <1>2, <1>3 DEF ClearStep

\* All other steps of the handlers are hidden.
LEMMA HiddenStep ==
  ASSUME NEW t \in Threads,
         \/ Send(t)
         \/ CommitStep(t) /\ ~InsertEntry(t) /\ ~UpdateEntry(t)
         \/ GetUpdatesStep(t) /\ ~InsertFolders(t)
  PROVE  rows' = rows /\ disabled' = disabled
<1> USE DEF storeVars, Fail
<1>1. CASE Send(t)
  BY <1>1 DEF Send, SendCommit, SendGetUpdates, SendClear
<1>2. CASE CommitStep(t) /\ ~InsertEntry(t) /\ ~UpdateEntry(t)
  BY <1>2 DEF CommitStep, ReadCounts, PeekInterim, StartEntry, CheckItem, RejectOverQuota,
              PretendStored, CountEntry, EntryStoreError, DrainInterim, SaveMtime,
              FlushCounts, UpdateClientItemCount, ReplyCommit, CountsStoreError,
              FailOnStoreError, Local
<1>3. CASE GetUpdatesStep(t) /\ ~InsertFolders(t)
  BY <1>3 DEF GetUpdatesStep, CountDevices, CheckFolders, MakeFolders, StartMarker,
              QueryType, CacheToken, ReplyGetUpdates, GetUpdatesStoreError,
              FailOnStoreError, LocalGU
<1> QED
  BY <1>1, <1>2, <1>3

\* Every step of the server is a step of the chain or is hidden from it.
LEMMA StepSimulation ==
  ASSUME TypeOK, VersionsInv, TagsInv, ChainInv, ~EditTombstones, [Next]_vars
  PROVE  [Chain!Next]_<<rows, disabled>>
<1>1. CASE \/ Tick \/ SetBack \/ Crash \/ AwaitRequests \/ UNCHANGED vars
           \/ \E t \in Threads : GiveUp(t)
           \/ \E ty \in Types : Expire(ty)
  BY <1>1, EnvironmentWritesNothing
<1>2. ASSUME NEW t \in Threads, Send(t) \/ CommitStep(t) \/ GetUpdatesStep(t)
      PROVE  [Chain!Next]_<<rows, disabled>>
  BY <1>2, HiddenStep, InsertEntryCreates, UpdateEntryReplaces, InsertFoldersPlants
  DEF ChainInv
<1>3. ASSUME NEW t \in Threads, ClearStep(t)
      PROVE  [Chain!Next]_<<rows, disabled>>
  BY <1>3, ClearStepDisablesOrWipes DEF ChainInv
<1> QED
  BY <1>1, <1>2, <1>3 DEF Next, Step

\* The server implements the abstract chain: for any number of devices, concurrent
\* requests, entities and tags, through failing calls, lost responses and crashes, the
\* rows written by handleCommitRequest, handleGetUpdatesRequest and
\* handleClearServerDataRequest change only as SyncChain allows.
THEOREM ServerImplementsChain ==
  ASSUME RoundTrip >= 1, ~ClockGoesBack, ~EditTombstones
  PROVE  Spec => ImplementsChain
<1>1. Init => Chain!Init
  BY DEF Init, StoreInit, Chain!Init
<1>2. TypeOK /\ VersionsInv /\ TagsInv /\ ChainInv /\ [Next]_vars =>
        [Chain!Next]_<<rows, disabled>>
  BY StepSimulation
<1>3. Spec => []TypeOK
  BY TypeCorrect
<1>4. Spec => []VersionsInv
  BY VersionsInvariant
<1>5. Spec => []TagsInv
  BY TagsInvariant
<1> QED
  BY <1>1, <1>2, <1>3, <1>4, <1>5, ChainInvariant, PTL DEF Spec, ImplementsChain, Chain!Spec
=============================================================================
