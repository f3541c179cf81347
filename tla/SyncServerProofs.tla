--------------------------- MODULE SyncServerProofs ---------------------------
(***************************************************************************)
(* Type correctness of the composed server, for every set of devices,      *)
(* entities, types and tags, every limit and every budget.                 *)
(***************************************************************************)
EXTENDS SyncServer, FiniteSetTheorems, TLAPS

(* What the parts of a state are ------------------------------------------ *)

\* The device of a goroutine is a device.
LEMMA DevType == \A t \in Threads : Dev(t) \in Devices
BY DEF Threads, Dev

\* The locals of a commit, and the entries it works on.
LEMMA CommitLocals ==
  ASSUME TypeOK, NEW t \in Threads
  PROVE  /\ cm \in [Threads -> CommitWork]
         /\ cm[t] \in CommitWork
         /\ cm[t].todo \subseteq Entry
         /\ cm[t].cur \subseteq Entry
         /\ cm[t].stamp \in Nat
         /\ cm[t].acks \subseteq Ack
         /\ cm[t].counts \in Counts
         /\ cm[t].fresh \in Counts
         /\ cm[t].mtimes \in [Types -> Nat \cup {Miss}]
BY DEF TypeOK, StateTypeOK, CommitWork

\* The locals of a request for updates.
LEMMA GetUpdatesLocals ==
  ASSUME TypeOK, NEW t \in Threads
  PROVE  /\ gu \in [Threads -> GetUpdatesWork]
         /\ gu[t] \in GetUpdatesWork
         /\ gu[t].todo \subseteq Types
         /\ gu[t].cur \subseteq Types
         /\ gu[t].tok \in [Types -> Nat]
         /\ gu[t].got \subseteq Update
         /\ gu[t].active \in Nat
         /\ gu[t].folders \subseteq RootIds
         /\ gu[t].stamp \in Nat
BY DEF TypeOK, StateTypeOK, GetUpdatesWork

\* A row that is there is a row.
LEMMA StoredRow == ASSUME TypeOK, NEW i \in Ids, Stored(i) PROVE rows[i] \in Row
BY DEF TypeOK, StoreTypeOK, Stored

\* Empty locals.
LEMMA EmptyLocals ==
  NoCommit \in CommitWork /\ NoGetUpdates \in GetUpdatesWork /\ NoCounts \in Counts
<1>1. NoCounts \in Counts
  BY DEF NoCounts, Counts, Counters
<1> QED
  BY <1>1 DEF NoCommit, CommitWork, NoGetUpdates, GetUpdatesWork, Origins, Miss

(* The parts of an action ------------------------------------------------- *)

\* The next call of a goroutine is one of the program's.
LEMMA GotoType ==
  ASSUME TypeOK, NEW t \in Threads, NEW point \in Points, Goto(t, point)
  PROVE  pc' \in [Threads -> Points]
BY DEF TypeOK, StateTypeOK, Goto

LEMMA SpendType ==
  ASSUME TypeOK, NEW kind \in Kinds, Spend(kind)
  PROVE  left' \in [Kinds -> Nat]
BY DEF TypeOK, StateTypeOK, Spend

\* A goroutine that ends.
LEMMA FinishType ==
  ASSUME TypeOK, NEW t \in Threads, Finish(t)
  PROVE  /\ pc' \in [Threads -> Points]
         /\ awaited' \in [Threads -> BOOLEAN]
         /\ cm' \in [Threads -> CommitWork]
         /\ gu' \in [Threads -> GetUpdatesWork]
         /\ evict' \in [Threads -> SUBSET Types]
<1>1. pc' \in [Threads -> Points]
  BY GotoType DEF Finish, Points
<1>2. awaited' \in [Threads -> BOOLEAN]
  BY DEF TypeOK, StateTypeOK, Finish
<1>3. cm' \in [Threads -> CommitWork] /\ gu' \in [Threads -> GetUpdatesWork]
  BY EmptyLocals DEF TypeOK, StateTypeOK, Finish
<1>4. evict' \in [Threads -> SUBSET Types]
  BY DEF TypeOK, StateTypeOK, Finish
<1> QED
  BY <1>1, <1>2, <1>3, <1>4

\* A request that fails.
LEMMA FailType ==
  ASSUME TypeOK, NEW t \in Threads, Fail(t), left' \in [Kinds -> Nat]
  PROVE  TypeOK'
<1>1. Finish(t)
  BY DEF Fail
<1>2. StateTypeOK'
  BY <1>1, FinishType DEF TypeOK, StateTypeOK, Fail, clientVars
<1> QED
  BY <1>2 DEF TypeOK, StoreTypeOK, CacheTypeOK, Fail, storeVars, cacheVars

LEMMA StoreErrorType ==
  ASSUME TypeOK, NEW t \in Threads, FailOnStoreError(t)
  PROVE  TypeOK'
BY FailType, SpendType DEF FailOnStoreError, Kinds

\* A request that is let in.
LEMMA AdmitType ==
  ASSUME TypeOK, NEW t \in Threads, NEW point \in Points, Admit(t, point)
  PROVE  pc' \in [Threads -> Points] /\ awaited' \in [Threads -> BOOLEAN]
<1>1. pc' \in [Threads -> Points]
  BY GotoType DEF Admit
<1>2. awaited' \in [Threads -> BOOLEAN]
  BY DEF TypeOK, StateTypeOK, Admit
<1> QED
  BY <1>1, <1>2

\* Steps that change only pc and the locals of a commit.
LEMMA LocalType ==
  ASSUME TypeOK, NEW t \in Threads, Local(t),
         pc' \in [Threads -> Points], cm' \in [Threads -> CommitWork]
  PROVE  TypeOK'
<1>1. StateTypeOK'
  BY DEF TypeOK, StateTypeOK, Local, clientVars
<1> QED
  BY <1>1 DEF TypeOK, StoreTypeOK, CacheTypeOK, Local, storeVars, cacheVars

\* Steps that change only pc and the locals of a request for updates.
LEMMA LocalGUType ==
  ASSUME TypeOK, NEW t \in Threads, LocalGU(t),
         pc' \in [Threads -> Points], gu' \in [Threads -> GetUpdatesWork]
  PROVE  TypeOK'
<1>1. StateTypeOK'
  BY DEF TypeOK, StateTypeOK, LocalGU, clientVars
<1> QED
  BY <1>1 DEF TypeOK, StoreTypeOK, CacheTypeOK, LocalGU, storeVars, cacheVars

(* The store -------------------------------------------------------------- *)

LEMMA InsertType ==
  ASSUME StoreTypeOK, NEW i \in Ids, NEW row \in Row, InsertSyncEntity(i, row)
  PROVE  StoreTypeOK'
<1>1. rows' \in [Ids -> Row \cup {NoRow}]
  BY DEF StoreTypeOK, InsertSyncEntity, storeVars
<1>2. tagRows' \subseteq ClientTags \cup ServerTags
  BY DEF StoreTypeOK, InsertSyncEntity, storeVars, ClientTagRow
<1> QED
  BY <1>1, <1>2 DEF StoreTypeOK, InsertSyncEntity, storeVars

LEMMA UpdateType ==
  ASSUME StoreTypeOK, NEW i \in Ids, NEW row \in Row, UpdateSyncEntity(i, row)
  PROVE  StoreTypeOK'
<1>1. rows' \in [Ids -> Row \cup {NoRow}]
  BY DEF StoreTypeOK, UpdateSyncEntity
<1>2. tagRows' \subseteq ClientTags \cup ServerTags
  BY DEF StoreTypeOK, UpdateSyncEntity
<1> QED
  BY <1>1, <1>2 DEF StoreTypeOK, UpdateSyncEntity

(* Entries ---------------------------------------------------------------- *)

LEMMA RowForType ==
  ASSUME TypeOK, NEW t \in Threads, NEW e \in cm[t].cur
  PROVE  e.id \in Ids /\ RowFor(t, e) \in Row
BY DevType, CommitLocals DEF RowFor, Row, Entry

LEMMA EntryFailsType ==
  ASSUME TypeOK, NEW t \in Threads, EntryFails(t)
  PROVE  pc' \in [Threads -> Points] /\ cm' \in [Threads -> CommitWork]
<1>1. pc' \in [Threads -> Points]
  BY GotoType DEF EntryFails, Points, CommitPoints
<1>2. cm' \in [Threads -> CommitWork]
  BY CommitLocals DEF EntryFails, CommitWork
<1> QED
  BY <1>1, <1>2

LEMMA EntrySucceedsType ==
  ASSUME TypeOK, NEW t \in Threads, NEW e \in cm[t].cur, NEW point \in Points,
         EntrySucceeds(t, e, point)
  PROVE  pc' \in [Threads -> Points] /\ cm' \in [Threads -> CommitWork]
<1> DEFINE a == [id |-> e.id, version |-> cm[t].stamp, deleted |-> e.deleted]
<1>1. pc' \in [Threads -> Points]
  BY GotoType DEF EntrySucceeds
<1>2. a \in Ack /\ TypeOf[e.id] \in Types
  BY CommitLocals, TypeAssumption DEF Entry, Ack
<1>3. cm' = [cm EXCEPT ![t].acks = @ \cup {a}, ![t].mtimes[TypeOf[e.id]] = cm[t].stamp]
  BY DEF EntrySucceeds
<1> HIDE DEF a
<1>4. cm' \in [Threads -> CommitWork]
  BY <1>2, <1>3, CommitLocals, ZenonT(30) DEF CommitWork
<1> QED
  BY <1>1, <1>4

(* The commit handler ----------------------------------------------------- *)

LEMMA SendCommitType ==
  ASSUME TypeOK, NEW t \in Threads, SendCommit(t)
  PROVE  TypeOK'
<1> DEFINE Msg(S, dead) ==
      {[id |-> i, base |-> known[Dev(t)][i].version, deleted |-> i \in dead] : i \in S}
<1>1. \E S \in SUBSET Ids, dead \in SUBSET Ids :
        /\ cm' = [cm EXCEPT ![t].todo = Msg(S, dead)]
        /\ used' = used \cup {i \in S : Versioned(i)}
  BY DEF SendCommit
<1>2. /\ Spend("commit")
      /\ Admit(t, "count")
      /\ UNCHANGED <<storeVars, cacheVars, clientVars, clock, gu, evict>>
  BY DEF SendCommit
<1>3. ASSUME NEW S \in SUBSET Ids, NEW dead \in SUBSET Ids
      PROVE  Msg(S, dead) \in SUBSET Entry
  <2>1. \A i \in S : known[Dev(t)][i].version \in Nat
    BY DevType DEF TypeOK, StateTypeOK, Known
  <2>2. \A i \in S :
          [id |-> i, base |-> known[Dev(t)][i].version, deleted |-> i \in dead] \in Entry
    BY <2>1 DEF Entry
  <2> QED
    BY <2>2
<1> HIDE DEF Msg
<1>4. cm' \in [Threads -> CommitWork]
  <2>1. PICK m \in SUBSET Entry : cm' = [cm EXCEPT ![t].todo = m]
    BY <1>1, <1>3
  <2> QED
    BY <2>1, CommitLocals DEF CommitWork
<1>5. used' \subseteq Ids
  BY <1>1 DEF TypeOK, StateTypeOK
<1>6. pc' \in [Threads -> Points] /\ awaited' \in [Threads -> BOOLEAN]
  BY <1>2, AdmitType DEF Points, CommitPoints
<1>7. left' \in [Kinds -> Nat]
  BY <1>2, SpendType DEF Kinds
<1>8. StateTypeOK'
  BY <1>2, <1>4, <1>5, <1>6, <1>7 DEF TypeOK, StateTypeOK, clientVars
<1> QED
  BY <1>2, <1>8 DEF TypeOK, StoreTypeOK, CacheTypeOK, storeVars, cacheVars

LEMMA ReadCountsType ==
  ASSUME TypeOK, NEW t \in Threads, ReadCounts(t)
  PROVE  TypeOK'
<1>1. pc' \in [Threads -> Points]
  BY GotoType DEF ReadCounts, Points, CommitPoints
<1>2. cm' \in [Threads -> CommitWork]
  BY CommitLocals DEF ReadCounts, CommitWork, TypeOK, StoreTypeOK
<1> QED
  BY <1>1, <1>2, LocalType DEF ReadCounts

LEMMA PeekInterimType ==
  ASSUME TypeOK, NEW t \in Threads, NEW point, NEW c \in Counters, NEW next \in Points,
         PeekInterim(t, point, c, next)
  PROVE  TypeOK'
<1>1. pc' \in [Threads -> Points]
  BY GotoType DEF PeekInterim
<1>2. interim[c] \in Int
  BY DEF TypeOK, CacheTypeOK, Counts
<1>3. cm' \in [Threads -> CommitWork]
  BY <1>2, CommitLocals DEF PeekInterim, CommitWork, Counts
<1> QED
  BY <1>1, <1>3, LocalType DEF PeekInterim

LEMMA StartEntryType ==
  ASSUME TypeOK, NEW t \in Threads, StartEntry(t)
  PROVE  TypeOK'
<1>1. PICK e \in cm[t].todo :
        /\ cm' = [cm EXCEPT ![t].todo = @ \ {e}, ![t].cur = {e}, ![t].stamp = clock]
        /\ Goto(t, CASE ~Versioned(e.id) -> "hasItem"
                     [] Versioned(e.id) /\ e.base # 0 -> "update"
                     [] OTHER -> "create")
  BY DEF StartEntry
<1>2. pc' \in [Threads -> Points]
  <2>1. CASE Goto(t, "hasItem")
    BY <2>1, GotoType DEF Points, CommitPoints
  <2>2. CASE Goto(t, "update")
    BY <2>2, GotoType DEF Points, CommitPoints
  <2>3. CASE Goto(t, "create")
    BY <2>3, GotoType DEF Points, CommitPoints
  <2> QED
    BY <1>1, <2>1, <2>2, <2>3
<1>3. {e} \subseteq Entry /\ cm[t].todo \ {e} \subseteq Entry /\ clock \in Nat
  BY <1>1, CommitLocals DEF TypeOK, StateTypeOK
<1>4. cm' \in [Threads -> CommitWork]
  <2>1. cm' = [cm EXCEPT ![t].todo = @ \ {e}, ![t].cur = {e}, ![t].stamp = clock]
    BY <1>1
  <2>2. cm \in [Threads -> CommitWork] /\ cm[t] \in CommitWork
    BY CommitLocals
  <2> QED
    BY <2>1, <2>2, <1>3 DEF CommitWork
<1>5. clock' \in Nat
  BY BoundAssumption DEF StartEntry, Stamped, TypeOK, StateTypeOK
<1>6. StateTypeOK'
  BY <1>2, <1>4, <1>5 DEF TypeOK, StateTypeOK, StartEntry, clientVars
<1> QED
  BY <1>6 DEF TypeOK, StoreTypeOK, CacheTypeOK, StartEntry, storeVars, cacheVars

LEMMA CheckItemType ==
  ASSUME TypeOK, NEW t \in Threads, CheckItem(t)
  PROVE  TypeOK'
<1>1. pc' \in [Threads -> Points]
  <2>1. CASE Goto(t, "update")
    BY <2>1, GotoType DEF Points, CommitPoints
  <2>2. CASE Goto(t, "create")
    BY <2>2, GotoType DEF Points, CommitPoints
  <2> QED
    BY <2>1, <2>2 DEF CheckItem
<1>2. cm' \in [Threads -> CommitWork]
  BY CommitLocals DEF CheckItem
<1> QED
  BY <1>1, <1>2, LocalType DEF CheckItem

LEMMA RejectOverQuotaType ==
  ASSUME TypeOK, NEW t \in Threads, RejectOverQuota(t)
  PROVE  TypeOK'
BY EntryFailsType, LocalType DEF RejectOverQuota

LEMMA PretendStoredType ==
  ASSUME TypeOK, NEW t \in Threads, PretendStored(t)
  PROVE  TypeOK'
BY EntrySucceedsType, LocalType DEF PretendStored, Points, CommitPoints

LEMMA InsertEntryType ==
  ASSUME TypeOK, NEW t \in Threads, InsertEntry(t)
  PROVE  TypeOK'
<1>1. PICK e \in cm[t].cur : InsertSyncEntity(e.id, RowFor(t, e)) /\ EntrySucceeds(t, e, "countUp")
  BY DEF InsertEntry
<1>2. StoreTypeOK'
  BY <1>1, RowForType, InsertType DEF TypeOK
<1>3. pc' \in [Threads -> Points] /\ cm' \in [Threads -> CommitWork]
  BY <1>1, EntrySucceedsType DEF Points, CommitPoints
<1>4. StateTypeOK'
  BY <1>3 DEF TypeOK, StateTypeOK, InsertEntry, clientVars
<1> QED
  BY <1>2, <1>4 DEF TypeOK, CacheTypeOK, InsertEntry, cacheVars

LEMMA UpdateEntryType ==
  ASSUME TypeOK, NEW t \in Threads, UpdateEntry(t)
  PROVE  TypeOK'
<1>1. PICK e \in cm[t].cur :
        \/ EntryFails(t) /\ UNCHANGED storeVars
        \/ /\ UpdateSyncEntity(e.id, RowFor(t, e))
           /\ EntrySucceeds(t, e, IF BecomesDeleted(e.id, e.deleted) THEN "countDown" ELSE "entries")
  BY DEF UpdateEntry
<1>2. StoreTypeOK'
  <2>1. CASE UNCHANGED storeVars
    BY <2>1 DEF TypeOK, StoreTypeOK, storeVars
  <2>2. CASE UpdateSyncEntity(e.id, RowFor(t, e))
    BY <2>2, RowForType, UpdateType DEF TypeOK
  <2> QED
    BY <1>1, <2>1, <2>2
<1>3. pc' \in [Threads -> Points] /\ cm' \in [Threads -> CommitWork]
  <2>1. CASE EntryFails(t)
    BY <2>1, EntryFailsType
  <2>2. CASE EntrySucceeds(t, e, "countDown")
    BY <2>2, EntrySucceedsType DEF Points, CommitPoints
  <2>3. CASE EntrySucceeds(t, e, "entries")
    BY <2>3, EntrySucceedsType DEF Points, CommitPoints
  <2> QED
    BY <1>1, <2>1, <2>2, <2>3
<1>4. StateTypeOK'
  BY <1>3 DEF TypeOK, StateTypeOK, UpdateEntry, clientVars
<1> QED
  BY <1>2, <1>4 DEF TypeOK, CacheTypeOK, UpdateEntry, cacheVars

LEMMA CountEntryType ==
  ASSUME TypeOK, NEW t \in Threads, NEW point, NEW subtract \in BOOLEAN,
         CountEntry(t, point, subtract)
  PROVE  TypeOK'
<1>1. PICK e \in cm[t].cur :
        /\ IncrementInterimCount(CounterOf(e.id), subtract)
        /\ cm' = [cm EXCEPT ![t].fresh[CounterOf(e.id)] = InterimAfter(CounterOf(e.id), subtract)]
  BY DEF CountEntry
<1>2. CounterOf(e.id) \in Counters
  BY DEF CounterOf, Counters
<1>3. InterimAfter(CounterOf(e.id), subtract) \in Int
  BY <1>2 DEF InterimAfter, TypeOK, CacheTypeOK, Counts
<1>4. CacheTypeOK'
  BY <1>1, <1>2, <1>3 DEF IncrementInterimCount, TypeOK, CacheTypeOK, Counts
<1>5. cm' \in [Threads -> CommitWork]
  BY <1>1, <1>2, <1>3, CommitLocals DEF CommitWork, Counts
<1>6. pc' \in [Threads -> Points]
  BY GotoType DEF CountEntry, Points, CommitPoints
<1>7. StateTypeOK'
  BY <1>5, <1>6 DEF TypeOK, StateTypeOK, CountEntry, clientVars
<1> QED
  BY <1>4, <1>7 DEF TypeOK, StoreTypeOK, CountEntry, storeVars

LEMMA EntryStoreErrorType ==
  ASSUME TypeOK, NEW t \in Threads, EntryStoreError(t)
  PROVE  TypeOK'
<1>1. pc' \in [Threads -> Points] /\ cm' \in [Threads -> CommitWork]
  BY EntryFailsType DEF EntryStoreError
<1>2. left' \in [Kinds -> Nat]
  BY SpendType DEF EntryStoreError, Kinds
<1>3. StateTypeOK'
  BY <1>1, <1>2 DEF TypeOK, StateTypeOK, EntryStoreError, clientVars
<1> QED
  BY <1>3 DEF TypeOK, StoreTypeOK, CacheTypeOK, EntryStoreError, storeVars, cacheVars

LEMMA DrainInterimType ==
  ASSUME TypeOK, NEW t \in Threads, NEW point, NEW c \in Counters, NEW next \in Points,
         DrainInterim(t, point, c, next)
  PROVE  TypeOK'
<1>1. pc' \in [Threads -> Points]
  BY GotoType DEF DrainInterim
<1>2. interim[c] \in Int
  BY DEF TypeOK, CacheTypeOK, Counts
<1>3. cm' \in [Threads -> CommitWork]
  BY <1>2, CommitLocals, ZenonT(30) DEF DrainInterim, CommitWork, Counts
<1>4. CacheTypeOK'
  BY DEF DrainInterim, TakeInterimCount, TypeOK, CacheTypeOK, Counts
<1>5. StateTypeOK'
  BY <1>1, <1>3 DEF TypeOK, StateTypeOK, DrainInterim, clientVars
<1> QED
  BY <1>4, <1>5 DEF TypeOK, StoreTypeOK, DrainInterim, storeVars

LEMMA SaveMtimeType ==
  ASSUME TypeOK, NEW t \in Threads, SaveMtime(t)
  PROVE  TypeOK'
<1>1. PICK ty \in CommittedTypes(t) :
        CacheMtime(t, ty) /\ cm' = [cm EXCEPT ![t].mtimes[ty] = Miss]
  BY DEF SaveMtime
<1>2. ty \in Types /\ cm[t].mtimes[ty] \in Nat
  BY <1>1, CommitLocals DEF CommittedTypes
<1>3. CacheTypeOK'
  BY <1>1, <1>2 DEF CacheMtime, SetTypeMtime, TypeOK, CacheTypeOK
<1>4. cm' \in [Threads -> CommitWork]
  BY <1>1, <1>2, CommitLocals DEF CommitWork
<1>5. StateTypeOK'
  BY <1>4 DEF TypeOK, StateTypeOK, SaveMtime, clientVars
<1> QED
  BY <1>3, <1>5 DEF TypeOK, StoreTypeOK, SaveMtime, storeVars

LEMMA FlushCountsType ==
  ASSUME TypeOK, NEW t \in Threads, FlushCounts(t)
  PROVE  TypeOK'
<1>1. pc' \in [Threads -> Points]
  BY GotoType DEF FlushCounts, Points
<1>2. left' \in [Kinds -> Nat]
  BY SpendType DEF FlushCounts, Kinds, TypeOK, StateTypeOK
<1>3. StoreTypeOK'
  <2>1. CASE UNCHANGED storeVars
    BY <2>1 DEF TypeOK, StoreTypeOK, storeVars
  <2>2. CASE UpdateClientItemCount(cm[t].counts, cm[t].fresh)
    <3>1. itemCounts' \in Counts
      BY <2>2, CommitLocals DEF UpdateClientItemCount, Counts
    <3> QED
      BY <2>2, <3>1 DEF UpdateClientItemCount, TypeOK, StoreTypeOK
  <2> QED
    BY <2>1, <2>2 DEF FlushCounts
<1>4. StateTypeOK'
  BY <1>1, <1>2 DEF TypeOK, StateTypeOK, FlushCounts, clientVars
<1> QED
  BY <1>3, <1>4 DEF TypeOK, CacheTypeOK, FlushCounts, cacheVars

LEMMA ReplyCommitType ==
  ASSUME TypeOK, NEW t \in Threads, ReplyCommit(t)
  PROVE  TypeOK'
<1>1. \A i \in Ids : Learned(t, i) \in Known
  BY DevType, CommitLocals DEF Learned, Ack, Known, TypeOK, StateTypeOK
<1>2. known' \in [Devices -> [Ids -> Known]]
  BY <1>1, DevType DEF ReplyCommit, TypeOK, StateTypeOK
<1>3. StateTypeOK'
  BY <1>2, FinishType DEF TypeOK, StateTypeOK, ReplyCommit
<1> QED
  BY <1>3 DEF TypeOK, StoreTypeOK, CacheTypeOK, ReplyCommit, storeVars, cacheVars

\* Every step of the commit handler.
LEMMA CommitStepType ==
  ASSUME TypeOK, NEW t \in Threads, CommitStep(t)
  PROVE  TypeOK'
<1>1. {"peekHistory", "entries", "drainHistory", "setMtime"} \subseteq Points
  BY DEF Points, CommitPoints
<1>2. {"normal", "history"} = Counters
  BY DEF Counters
<1> QED
  BY <1>1, <1>2, ReadCountsType, PeekInterimType, StartEntryType, CheckItemType,
     RejectOverQuotaType, PretendStoredType, InsertEntryType, UpdateEntryType,
     CountEntryType, EntryStoreErrorType, DrainInterimType, SaveMtimeType,
     FlushCountsType, ReplyCommitType, StoreErrorType
  DEF CommitStep, CountsStoreError

(* The handler of requests for updates ------------------------------------- *)

LEMMA SendGetUpdatesType ==
  ASSUME TypeOK, NEW t \in Threads, SendGetUpdates(t)
  PROVE  TypeOK'
<1>1. PICK origin \in OriginsSent, S \in SUBSET Types :
        /\ Admit(t, IF origin = "NEW_CLIENT" THEN "devices" ELSE "markers")
        /\ gu' = [gu EXCEPT ![t].origin = origin, ![t].todo = S, ![t].tok = token[Dev(t)]]
  BY DEF SendGetUpdates
<1>2. /\ Spend("getUpdates")
      /\ UNCHANGED <<storeVars, cacheVars, clientVars, clock, cm, evict, used>>
  BY DEF SendGetUpdates
<1>3. pc' \in [Threads -> Points] /\ awaited' \in [Threads -> BOOLEAN]
  BY <1>1, AdmitType DEF Points, GetUpdatesPoints
<1>4. gu' \in [Threads -> GetUpdatesWork]
  <2>1. origin \in Origins /\ token[Dev(t)] \in [Types -> Nat]
    BY OriginsAssumption, DevType DEF TypeOK, StateTypeOK
  <2>2. gu \in [Threads -> GetUpdatesWork] /\ gu[t] \in GetUpdatesWork
    BY GetUpdatesLocals
  <2>3. gu' = [gu EXCEPT ![t].origin = origin, ![t].todo = S, ![t].tok = token[Dev(t)]]
    BY <1>1
  <2> QED
    BY <2>1, <2>2, <2>3 DEF GetUpdatesWork
<1>5. left' \in [Kinds -> Nat]
  BY <1>2, SpendType DEF Kinds
<1>6. StateTypeOK'
  BY <1>2, <1>3, <1>4, <1>5 DEF TypeOK, StateTypeOK, clientVars
<1> QED
  BY <1>2, <1>6 DEF TypeOK, StoreTypeOK, CacheTypeOK, storeVars, cacheVars

LEMMA CountDevicesType ==
  ASSUME TypeOK, NEW t \in Threads, CountDevices(t)
  PROVE  TypeOK'
<1>1. PICK P \in Pages(DeviceInfoType, 0, MaxGUBatch) :
        LET active == gu[t].active + Cardinality({i \in P : ~rows[i].deleted}) IN
        IF HasReachedDeviceLimit(active)
          THEN Fail(t) /\ UNCHANGED left
          ELSE /\ gu' = [gu EXCEPT ![t].active = active]
               /\ Goto(t, IF MoreDevices THEN "devices" ELSE "hasTag")
               /\ LocalGU(t)
  BY DEF CountDevices
<1> DEFINE active == gu[t].active + Cardinality({i \in P : ~rows[i].deleted})
<1>2. active \in Nat
  <2>1. {i \in P : ~rows[i].deleted} \subseteq Ids
    BY DEF Pages, Newer
  <2>2. Cardinality({i \in P : ~rows[i].deleted}) \in Nat
    BY <2>1, IdsAssumption, FS_Subset, FS_CardinalityType
  <2> QED
    BY <2>2, GetUpdatesLocals
<1> HIDE DEF active
<1>3. CASE Fail(t) /\ UNCHANGED left
  BY <1>3, FailType DEF TypeOK, StateTypeOK
<1>4. CASE /\ gu' = [gu EXCEPT ![t].active = active]
           /\ Goto(t, IF MoreDevices THEN "devices" ELSE "hasTag")
           /\ LocalGU(t)
  <2>1. pc' \in [Threads -> Points]
    BY <1>4, GotoType DEF Points, GetUpdatesPoints
  <2>2. gu' \in [Threads -> GetUpdatesWork]
    BY <1>2, <1>4, GetUpdatesLocals, ZenonT(30) DEF GetUpdatesWork
  <2> QED
    BY <1>4, <2>1, <2>2, LocalGUType
<1> QED
  BY <1>1, <1>3, <1>4 DEF active

LEMMA CheckFoldersType ==
  ASSUME TypeOK, NEW t \in Threads, CheckFolders(t)
  PROVE  TypeOK'
<1>1. pc' \in [Threads -> Points]
  BY GotoType DEF CheckFolders, Points, GetUpdatesPoints
<1>2. gu' \in [Threads -> GetUpdatesWork]
  BY GetUpdatesLocals DEF CheckFolders
<1> QED
  BY <1>1, <1>2, LocalGUType DEF CheckFolders

LEMMA MakeFoldersType ==
  ASSUME TypeOK, NEW t \in Threads, MakeFolders(t)
  PROVE  TypeOK'
<1>1. PICK R \in FolderIds :
        gu' = [gu EXCEPT ![t].folders = R, ![t].stamp = clock] /\ used' = used \cup R
  BY DEF MakeFolders
<1>2. R \subseteq RootIds /\ clock \in Nat
  BY DEF FolderIds, TypeOK, StateTypeOK
<1>3. gu' \in [Threads -> GetUpdatesWork]
  BY <1>1, <1>2, GetUpdatesLocals, ZenonT(30) DEF GetUpdatesWork
<1>4. pc' \in [Threads -> Points]
  BY GotoType DEF MakeFolders, Points, GetUpdatesPoints
<1>5. clock' \in Nat
  BY <1>2, BoundAssumption DEF MakeFolders, Stamped
<1>6. used' \subseteq Ids
  BY <1>1, <1>2 DEF TypeOK, StateTypeOK, RootIds
<1>7. StateTypeOK'
  BY <1>3, <1>4, <1>5, <1>6 DEF TypeOK, StateTypeOK, MakeFolders, clientVars
<1> QED
  BY <1>7 DEF TypeOK, StoreTypeOK, CacheTypeOK, MakeFolders, storeVars, cacheVars

LEMMA InsertFoldersType ==
  ASSUME TypeOK, NEW t \in Threads, InsertFolders(t)
  PROVE  TypeOK'
<1>1. CASE Fail(t) /\ UNCHANGED left
  BY <1>1, FailType DEF TypeOK, StateTypeOK
<1>2. CASE /\ InsertSyncEntitiesWithServerTags(gu[t].folders, FolderRow(t))
           /\ Goto(t, "markers")
           /\ UNCHANGED <<cacheVars, clientVars, clock, left, awaited, cm, gu, evict, used>>
  <2>1. FolderRow(t) \in Row
    BY GetUpdatesLocals DEF FolderRow, Row
  <2>2. rows' \in [Ids -> Row \cup {NoRow}]
    BY <1>2, <2>1 DEF InsertSyncEntitiesWithServerTags, TypeOK, StoreTypeOK
  <2>3. tagRows' \subseteq ClientTags \cup ServerTags
    BY <1>2, GetUpdatesLocals DEF InsertSyncEntitiesWithServerTags, RootIds, TypeOK, StoreTypeOK
  <2>4. StoreTypeOK'
    BY <1>2, <2>2, <2>3 DEF InsertSyncEntitiesWithServerTags, TypeOK, StoreTypeOK
  <2>5. pc' \in [Threads -> Points]
    BY <1>2, GotoType DEF Points, GetUpdatesPoints
  <2>6. StateTypeOK'
    BY <1>2, <2>5 DEF TypeOK, StateTypeOK, clientVars
  <2> QED
    BY <1>2, <2>4, <2>6 DEF TypeOK, CacheTypeOK, cacheVars
<1> QED
  BY <1>1, <1>2 DEF InsertFolders

LEMMA StartMarkerType ==
  ASSUME TypeOK, NEW t \in Threads, StartMarker(t)
  PROVE  TypeOK'
<1>1. PICK ty \in gu[t].todo, skip \in BOOLEAN :
        /\ gu' = [gu EXCEPT ![t].todo = @ \ {ty}, ![t].cur = IF skip THEN {} ELSE {ty}]
        /\ Goto(t, IF skip THEN "markers" ELSE "query")
  <2>1. PICK ty \in gu[t].todo :
          LET skip == BatchFull(t) \/ ShortCircuit(t, ty) IN
          /\ gu' = [gu EXCEPT ![t].todo = @ \ {ty}, ![t].cur = IF skip THEN {} ELSE {ty}]
          /\ Goto(t, IF skip THEN "markers" ELSE "query")
    BY DEF StartMarker
  <2> DEFINE skip == BatchFull(t) \/ ShortCircuit(t, ty)
  <2>2. skip \in BOOLEAN
    OBVIOUS
  <2> QED
    BY <2>1, <2>2
<1>2. pc' \in [Threads -> Points]
  BY <1>1, GotoType DEF Points, GetUpdatesPoints
<1>3. gu' \in [Threads -> GetUpdatesWork]
  <2>1. gu \in [Threads -> GetUpdatesWork] /\ gu[t] \in GetUpdatesWork
    BY GetUpdatesLocals
  <2>2. PICK todo \in SUBSET Types, cur \in SUBSET Types :
          gu' = [gu EXCEPT ![t].todo = todo, ![t].cur = cur]
    BY <1>1, GetUpdatesLocals
  <2> QED
    BY <2>1, <2>2 DEF GetUpdatesWork
<1> QED
  BY <1>2, <1>3, LocalGUType DEF StartMarker

\* The token of an answer is a time.
LEMMA NextTokenType ==
  ASSUME TypeOK, NEW t \in Threads, NEW ty \in Types, NEW P \in SUBSET Newer(ty, gu[t].tok[ty])
  PROVE  NextToken(t, ty, P) \subseteq Nat
<1>1. CASE P = {}
  BY <1>1, GetUpdatesLocals DEF NextToken
<1>2. CASE P # {}
  <2>1. \A i \in P : rows[i].mtime \in Nat
    BY StoredRow DEF Newer, Row
  <2> QED
    BY <1>2, <2>1 DEF NextToken
<1> QED
  BY <1>1, <1>2

\* What is sent of a row.
LEMMA UpdateOfType ==
  ASSUME TypeOK, NEW i \in Ids, Stored(i)
  PROVE  UpdateOf(i) \in Update
BY StoredRow DEF UpdateOf, Update, Row

LEMMA QueryTypeType ==
  ASSUME TypeOK, NEW t \in Threads, QueryType(t)
  PROVE  TypeOK'
<1> DEFINE size == MaxGUBatch - Cardinality(gu[t].got)
<1> DEFINE Answer(ty, P, next, remaining) ==
      \/ Fail(t) /\ UNCHANGED left
      \/ /\ gu' = [gu EXCEPT ![t].got = @ \cup {UpdateOf(i) : i \in P},
                             ![t].tok[ty] = next,
                             ![t].remaining = remaining]
         /\ Goto(t, IF remaining THEN "markers" ELSE "cacheSet")
         /\ LocalGU(t)
<1>1. PICK ty \in gu[t].cur : \E P \in Pages(ty, gu[t].tok[ty], size) :
        \E next \in NextToken(t, ty, P) :
          Answer(ty, P, next, gu[t].remaining \/ ChangesRemain(ty, gu[t].tok[ty], size))
  BY DEF QueryType
<1>2. PICK P \in Pages(ty, gu[t].tok[ty], size) : \E next \in NextToken(t, ty, P) :
        Answer(ty, P, next, gu[t].remaining \/ ChangesRemain(ty, gu[t].tok[ty], size))
  BY <1>1
<1>3. PICK next \in NextToken(t, ty, P), remaining \in BOOLEAN : Answer(ty, P, next, remaining)
  <2>1. (gu[t].remaining \/ ChangesRemain(ty, gu[t].tok[ty], size)) \in BOOLEAN
    OBVIOUS
  <2> HIDE DEF Answer
  <2> QED
    BY <1>2, <2>1
<1>4. ty \in Types
  BY GetUpdatesLocals
<1>5. P \in SUBSET Newer(ty, gu[t].tok[ty])
  BY DEF Pages
<1>6. CASE Fail(t) /\ UNCHANGED left
  BY <1>6, FailType DEF TypeOK, StateTypeOK
<1>7. CASE /\ gu' = [gu EXCEPT ![t].got = @ \cup {UpdateOf(i) : i \in P},
                               ![t].tok[ty] = next,
                               ![t].remaining = remaining]
           /\ Goto(t, IF remaining THEN "markers" ELSE "cacheSet")
           /\ LocalGU(t)
  <2>1. {UpdateOf(i) : i \in P} \subseteq Update
    BY <1>5, UpdateOfType DEF Newer
  <2>2. next \in Nat
    BY <1>4, <1>5, NextTokenType
  <2>3. gu' \in [Threads -> GetUpdatesWork]
    <3> DEFINE new == {UpdateOf(i) : i \in P}
    <3>1. gu' = [gu EXCEPT ![t].got = @ \cup new, ![t].tok[ty] = next, ![t].remaining = remaining]
      BY <1>7
    <3>2. new \subseteq Update
      BY <2>1
    <3>3. gu \in [Threads -> GetUpdatesWork] /\ gu[t] \in GetUpdatesWork
      BY GetUpdatesLocals
    <3>4. [gu[t].tok EXCEPT ![ty] = next] \in [Types -> Nat]
      BY <1>4, <2>2, GetUpdatesLocals
    <3> DEFINE tok == [gu[t].tok EXCEPT ![ty] = next]
    <3>5. gu' = [gu EXCEPT ![t].got = @ \cup new, ![t].tok = tok, ![t].remaining = remaining]
      BY <3>1, <3>3 DEF GetUpdatesWork
    <3> HIDE DEF new, tok
    <3> QED
      BY <3>2, <3>3, <3>4, <3>5 DEF GetUpdatesWork, tok
  <2>4. pc' \in [Threads -> Points]
    BY <1>7, GotoType DEF Points, GetUpdatesPoints
  <2> QED
    BY <1>7, <2>3, <2>4, LocalGUType
<1> QED
  BY <1>3, <1>6, <1>7

LEMMA CacheTokenType ==
  ASSUME TypeOK, NEW t \in Threads, CacheToken(t)
  PROVE  TypeOK'
<1>1. CacheTypeOK'
  BY GetUpdatesLocals DEF CacheToken, SetTypeMtime, TypeOK, CacheTypeOK
<1>2. pc' \in [Threads -> Points]
  BY GotoType DEF CacheToken, Points, GetUpdatesPoints
<1>3. StateTypeOK'
  BY <1>2 DEF TypeOK, StateTypeOK, CacheToken, clientVars
<1> QED
  BY <1>1, <1>3 DEF TypeOK, StoreTypeOK, CacheToken, storeVars

LEMMA ReplyGetUpdatesType ==
  ASSUME TypeOK, NEW t \in Threads, ReplyGetUpdates(t)
  PROVE  TypeOK'
<1>1. \A i \in Ids : LearnedUpdate(t, i) \in Known
  BY DevType, GetUpdatesLocals DEF LearnedUpdate, Update, Known, TypeOK, StateTypeOK
<1>2. known' \in [Devices -> [Ids -> Known]] /\ token' \in [Devices -> [Types -> Nat]]
  <2>1. CASE awaited[t]
    <3>1. known' = [known EXCEPT ![Dev(t)] = [i \in Ids |-> LearnedUpdate(t, i)]]
      BY <2>1 DEF ReplyGetUpdates
    <3>2. token' = [token EXCEPT ![Dev(t)] = gu[t].tok]
      BY <2>1 DEF ReplyGetUpdates
    <3>3. Dev(t) \in Devices /\ gu[t].tok \in [Types -> Nat]
      BY DevType, GetUpdatesLocals
    <3>4. [i \in Ids |-> LearnedUpdate(t, i)] \in [Ids -> Known]
      BY <1>1
    <3> QED
      BY <3>1, <3>2, <3>3, <3>4 DEF TypeOK, StateTypeOK
  <2>2. CASE ~awaited[t]
    BY <2>2 DEF ReplyGetUpdates, TypeOK, StateTypeOK, clientVars
  <2> QED
    BY <2>1, <2>2
<1>3. StateTypeOK'
  BY <1>2, FinishType DEF TypeOK, StateTypeOK, ReplyGetUpdates
<1> QED
  BY <1>3 DEF TypeOK, StoreTypeOK, CacheTypeOK, ReplyGetUpdates, storeVars, cacheVars

\* Every step of the handler of requests for updates.
LEMMA GetUpdatesStepType ==
  ASSUME TypeOK, NEW t \in Threads, GetUpdatesStep(t)
  PROVE  TypeOK'
BY CountDevicesType, CheckFoldersType, MakeFoldersType, InsertFoldersType, StartMarkerType,
   QueryTypeType, CacheTokenType, ReplyGetUpdatesType, StoreErrorType
DEF GetUpdatesStep, GetUpdatesStoreError

(* The handler that clears the chain ---------------------------------------- *)

LEMMA SendClearType ==
  ASSUME TypeOK, NEW t \in Threads, SendClear(t)
  PROVE  TypeOK'
<1>1. pc' \in [Threads -> Points] /\ awaited' \in [Threads -> BOOLEAN]
  BY AdmitType DEF SendClear, Points, ClearPoints
<1>2. left' \in [Kinds -> Nat]
  BY SpendType DEF SendClear, Kinds
<1>3. StateTypeOK'
  BY <1>1, <1>2 DEF TypeOK, StateTypeOK, SendClear, clientVars
<1> QED
  BY <1>3 DEF TypeOK, StoreTypeOK, CacheTypeOK, SendClear, storeVars, cacheVars

\* Every step of the handler that clears the chain.
LEMMA ClearStepType ==
  ASSUME TypeOK, NEW t \in Threads, ClearStep(t)
  PROVE  TypeOK'
<1>1. CASE Disable(t)
  <2>1. pc' \in [Threads -> Points]
    BY <1>1, GotoType DEF Disable, Points, ClearPoints
  <2>2. StateTypeOK'
    BY <1>1, <2>1 DEF TypeOK, StateTypeOK, Disable, clientVars
  <2> QED
    BY <1>1, <2>2 DEF TypeOK, StoreTypeOK, CacheTypeOK, Disable, DisableSyncChain, cacheVars
<1>2. CASE Scan(t)
  <2>1. pc' \in [Threads -> Points]
    BY <1>2, GotoType DEF Scan, Points, ClearPoints
  <2>2. StoredTypes \subseteq Types
    BY TypeAssumption DEF StoredTypes
  <2>3. StateTypeOK'
    BY <1>2, <2>1, <2>2 DEF TypeOK, StateTypeOK, Scan, clientVars
  <2> QED
    BY <1>2, <2>3 DEF TypeOK, StoreTypeOK, CacheTypeOK, Scan, storeVars, cacheVars
<1>3. CASE Wipe(t)
  <2>1. pc' \in [Threads -> Points]
    BY <1>3, GotoType DEF Wipe, Points, ClearPoints
  <2>2. StateTypeOK'
    BY <1>3, <2>1 DEF TypeOK, StateTypeOK, Wipe, clientVars
  <2>3. itemCounts' \in Counts
    BY <1>3, EmptyLocals DEF Wipe, ClearServerData
  <2>4. StoreTypeOK'
    BY <1>3, <2>3 DEF TypeOK, StoreTypeOK, Wipe, ClearServerData
  <2> QED
    BY <1>3, <2>2, <2>4 DEF TypeOK, CacheTypeOK, Wipe, cacheVars
<1>4. CASE EvictAndReply(t)
  <2>1. StateTypeOK'
    BY <1>4, FinishType DEF TypeOK, StateTypeOK, EvictAndReply, clientVars
  <2>2. CacheTypeOK'
    BY <1>4 DEF TypeOK, CacheTypeOK, EvictAndReply, DelTypeMtimes
  <2> QED
    BY <1>4, <2>1, <2>2 DEF TypeOK, StoreTypeOK, EvictAndReply, storeVars
<1>5. CASE ClearStoreError(t)
  BY <1>5, StoreErrorType DEF ClearStoreError
<1> QED
  BY <1>1, <1>2, <1>3, <1>4, <1>5 DEF ClearStep

(* The environment, and the theorem ----------------------------------------- *)

\* The initial state has the right types.
LEMMA InitTypeOK == Init => TypeOK
<1> SUFFICES ASSUME Init PROVE TypeOK
  OBVIOUS
<1> USE DEF Init, NoCounts, Counts, Counters
<1>1. StoreTypeOK
  <2>1. rows \in [Ids -> Row \cup {NoRow}] /\ tagRows \subseteq ClientTags \cup ServerTags
    BY DEF StoreInit
  <2>2. disabled \in BOOLEAN
    BY DEF StoreInit
  <2>3. itemCounts \in Counts
    BY DEF StoreInit
  <2> QED
    BY <2>1, <2>2, <2>3 DEF StoreTypeOK
<1>2. CacheTypeOK
  BY DEF CacheInit, CacheEmpty, CacheTypeOK, Miss
<1>3. StateTypeOK
  <2>1. cm \in [Threads -> CommitWork]
    BY DEF NoCommit, CommitWork, Miss
  <2>2. gu \in [Threads -> GetUpdatesWork]
    BY DEF NoGetUpdates, GetUpdatesWork, Origins
  <2>3. known \in [Devices -> [Ids -> Known]]
    BY DEF Unknown, Known
  <2>4. left \in [Kinds -> Nat]
    BY BoundAssumption
  <2>5. pc \in [Threads -> Points]
    BY DEF Points
  <2> QED
    BY <2>1, <2>2, <2>3, <2>4, <2>5 DEF StateTypeOK
<1> QED
  BY <1>1, <1>2, <1>3 DEF TypeOK

LEMMA TickType == ASSUME TypeOK, Tick \/ SetBack PROVE TypeOK'
<1>1. StateTypeOK'
  BY DEF TypeOK, StateTypeOK, Tick, SetBack, clientVars
<1> QED
  BY <1>1 DEF TypeOK, StoreTypeOK, CacheTypeOK, Tick, SetBack, storeVars, cacheVars

LEMMA GiveUpType == ASSUME TypeOK, NEW t \in Threads, GiveUp(t) PROVE TypeOK'
<1>1. left' \in [Kinds -> Nat]
  BY SpendType DEF GiveUp, Kinds
<1>2. awaited' \in [Threads -> BOOLEAN]
  BY DEF GiveUp, TypeOK, StateTypeOK
<1>3. StateTypeOK'
  BY <1>1, <1>2 DEF TypeOK, StateTypeOK, GiveUp, clientVars
<1> QED
  BY <1>3 DEF TypeOK, StoreTypeOK, CacheTypeOK, GiveUp, storeVars, cacheVars

LEMMA ExpireType == ASSUME TypeOK, NEW ty \in Types, Expire(ty) PROVE TypeOK'
<1>1. left' \in [Kinds -> Nat]
  BY SpendType DEF Expire, Kinds
<1>2. CacheTypeOK'
  BY DEF Expire, DelTypeMtimes, TypeOK, CacheTypeOK
<1>3. StateTypeOK'
  BY <1>1 DEF TypeOK, StateTypeOK, Expire, clientVars
<1> QED
  BY <1>2, <1>3 DEF TypeOK, StoreTypeOK, Expire, storeVars

LEMMA CrashType == ASSUME TypeOK, Crash PROVE TypeOK'
<1>1. left' \in [Kinds -> Nat]
  BY SpendType DEF Crash, Kinds
<1>2. CacheTypeOK'
  BY EmptyLocals DEF Crash, CacheEmpty, CacheTypeOK
<1>3. pc' \in [Threads -> Points]
  BY DEF Crash, Points
<1>4. cm' \in [Threads -> CommitWork] /\ gu' \in [Threads -> GetUpdatesWork]
  BY EmptyLocals DEF Crash
<1>5. awaited' \in [Threads -> BOOLEAN] /\ evict' \in [Threads -> SUBSET Types]
  BY DEF Crash
<1>6. StateTypeOK'
  BY <1>1, <1>3, <1>4, <1>5 DEF TypeOK, StateTypeOK, Crash, clientVars
<1> QED
  BY <1>2, <1>6 DEF TypeOK, StoreTypeOK, Crash, storeVars

\* A step that changes nothing.
LEMMA StutterType == ASSUME TypeOK, UNCHANGED vars PROVE TypeOK'
<1>1. StateTypeOK'
  BY DEF TypeOK, StateTypeOK, vars
<1> QED
  BY <1>1 DEF TypeOK, StoreTypeOK, CacheTypeOK, vars

LEMMA NextTypeOK == TypeOK /\ [Next]_vars => TypeOK'
<1> SUFFICES ASSUME TypeOK, [Next]_vars PROVE TypeOK'
  OBVIOUS
<1>1. ASSUME NEW t \in Threads, Send(t) PROVE TypeOK'
  BY <1>1, SendCommitType, SendGetUpdatesType, SendClearType DEF Send
<1>2. ASSUME NEW t \in Threads, Step(t) PROVE TypeOK'
  BY <1>2, CommitStepType, GetUpdatesStepType, ClearStepType DEF Step
<1>3. CASE AwaitRequests \/ UNCHANGED vars
  BY <1>3, StutterType DEF AwaitRequests
<1> QED
  BY <1>1, <1>2, <1>3, GiveUpType, ExpireType, TickType, CrashType DEF Next

\* Every variable keeps its type: the tables hold rows and tags of the chain, the
\* progress markers and cached mtimes are times, and no handler leaves its control
\* points, whatever calls fail and however handlers interleave.
THEOREM TypeCorrect == Spec => []TypeOK
BY InitTypeOK, NextTypeOK, PTL DEF Spec
=============================================================================
