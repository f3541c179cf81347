--------------------------- MODULE SequentialProofs ---------------------------
(***************************************************************************)
(* What holds when the server handles one request of a chain at a time.    *)
(* Clearing: the disabled check at the door is enough.  Delivery: the      *)
(* progress marker a device is given passes no row it has not received, if *)
(* stamps are of distinct milliseconds.  The cache: its mtimes cover every *)
(* row a device has written, whatever fails or restarts in between.        *)
(***************************************************************************)
EXTENDS VersionsProofs

(* At most one goroutine ---------------------------------------------------- *)

OneAtATime == \A t, u \in Threads : At(t, "idle") \/ At(u, "idle") \/ t = u
OnlyClearing == disabled => \A t \in Threads : pc[t] \in ClearPoints \cup {"idle"}
ClearingInv == OneAtATime /\ OnlyClearing

(* What the handlers do to disabled and to each other ----------------------- *)

\* Only t moves.
Alone(t) == \A u \in Threads \ {t} : pc'[u] = pc[u]

\* A goroutine that finishes is idle, the others stay where they are.
LEMMA EndsIdle ==
  ASSUME TypeOK, NEW t \in Threads, Finish(t)
  PROVE  Alone(t) /\ pc'[t] = "idle"
BY DEF Finish, Goto, Alone, TypeOK, StateTypeOK

\* A step of a commit moves one goroutine and leaves the disabled marker.
LEMMA CommitIsAlone ==
  ASSUME TypeOK, NEW t \in Threads, CommitStep(t)
  PROVE  /\ pc[t] \in CommitPoints \cup {"reply"}
         /\ disabled' = disabled
         /\ Alone(t)
<1> USE DEF At, Goto, Alone, CommitPoints, storeVars, TypeOK, StateTypeOK
<1>1. CASE \/ ReadCounts(t) \/ CheckItem(t) \/ RejectOverQuota(t)
           \/ StartEntry(t) \/ EntryStoreError(t)
  BY <1>1 DEF ReadCounts, CheckItem, RejectOverQuota, StartEntry, EntryStoreError,
              EntryFails, Local
<1>2. CASE \/ PeekInterim(t, "peekNormal", "normal", "peekHistory")
           \/ PeekInterim(t, "peekHistory", "history", "entries")
           \/ DrainInterim(t, "entries", "normal", "drainHistory")
           \/ DrainInterim(t, "drainHistory", "history", "setMtime")
  BY <1>2 DEF PeekInterim, DrainInterim, Local
<1>3. CASE CountEntry(t, "countUp", FALSE) \/ CountEntry(t, "countDown", TRUE)
  BY <1>3 DEF CountEntry
<1>4. CASE PretendStored(t) \/ InsertEntry(t)
  BY <1>4 DEF PretendStored, InsertEntry, EntrySucceeds, InsertSyncEntity, Local
<1>5. CASE UpdateEntry(t)
  BY <1>5 DEF UpdateEntry, EntryFails, EntrySucceeds, UpdateSyncEntity
<1>6. CASE SaveMtime(t) \/ FlushCounts(t)
  BY <1>6 DEF SaveMtime, FlushCounts, UpdateClientItemCount
<1>7. CASE ReplyCommit(t)
  BY <1>7, EndsIdle DEF ReplyCommit
<1>8. CASE CountsStoreError(t)
  BY <1>8, EndsIdle DEF CountsStoreError, FailOnStoreError, Fail
<1> QED
  BY <1>1, <1>2, <1>3, <1>4, <1>5, <1>6, <1>7, <1>8 DEF CommitStep

\* So does a step of a request for updates.
LEMMA GetUpdatesIsAlone ==
  ASSUME TypeOK, NEW t \in Threads, GetUpdatesStep(t)
  PROVE  /\ pc[t] \in GetUpdatesPoints
         /\ disabled' = disabled
         /\ Alone(t)
<1> USE DEF At, Alone, GetUpdatesPoints, storeVars
<1>1. ASSUME NEW point, Goto(t, point)
      PROVE  Alone(t)
  BY <1>1 DEF Goto, TypeOK, StateTypeOK
<1>2. ASSUME Fail(t)
      PROVE  Alone(t) /\ disabled' = disabled
  BY <1>2, EndsIdle DEF Fail
<1>3. CASE CountDevices(t) \/ QueryType(t)
  BY <1>1, <1>2, <1>3 DEF CountDevices, QueryType, LocalGU
<1>4. CASE CheckFolders(t) \/ MakeFolders(t) \/ StartMarker(t) \/ CacheToken(t)
  BY <1>1, <1>4 DEF CheckFolders, MakeFolders, StartMarker, CacheToken, LocalGU
<1>5. CASE InsertFolders(t)
  BY <1>1, <1>2, <1>5 DEF InsertFolders, InsertSyncEntitiesWithServerTags
<1>6. CASE ReplyGetUpdates(t)
  BY <1>6, EndsIdle DEF ReplyGetUpdates
<1>7. CASE GetUpdatesStoreError(t)
  BY <1>2, <1>7 DEF GetUpdatesStoreError, FailOnStoreError
<1> QED
  BY <1>3, <1>4, <1>5, <1>6, <1>7 DEF GetUpdatesStep

\* A step of a clear moves one goroutine and writes no row.
LEMMA ClearIsAlone ==
  ASSUME TypeOK, NEW t \in Threads, ClearStep(t)
  PROVE  /\ pc[t] \in ClearPoints
         /\ pc'[t] \in ClearPoints \cup {"idle"}
         /\ Alone(t)
         /\ \A i \in Ids : rows'[i] \in {rows[i], NoRow}
<1> USE DEF At, Goto, Alone, ClearPoints, storeVars, TypeOK, StateTypeOK
<1>1. CASE Disable(t) \/ Scan(t)
  BY <1>1 DEF Disable, DisableSyncChain, Scan
<1>2. CASE Wipe(t)
  BY <1>2 DEF Wipe, ClearServerData
<1>3. CASE EvictAndReply(t)
  BY <1>3, EndsIdle DEF EvictAndReply
<1>4. CASE ClearStoreError(t)
  BY <1>4, EndsIdle DEF ClearStoreError, FailOnStoreError, Fail
<1> QED
  BY <1>1, <1>2, <1>3, <1>4 DEF ClearStep

\* A request is taken by an idle server whose chain is not disabled.
LEMMA SendIsAdmitted ==
  ASSUME TypeOK, Serial, NEW t \in Threads, Send(t)
  PROVE  /\ ~disabled
         /\ \A u \in Threads : pc[u] = "idle"
         /\ Alone(t)
         /\ disabled' = disabled
<1> USE DEF Admit, Free, At, Goto, Alone, storeVars, TypeOK, StateTypeOK
<1>1. CASE SendCommit(t)
  BY <1>1 DEF SendCommit
<1>2. CASE SendGetUpdates(t)
  BY <1>2 DEF SendGetUpdates
<1>3. CASE SendClear(t)
  BY <1>3 DEF SendClear
<1> QED
  BY <1>1, <1>2, <1>3 DEF Send

\* What happens outside the handlers writes no row and starts nothing.
LEMMA EnvironmentWritesNothing ==
  ASSUME \/ Tick \/ SetBack \/ Crash \/ AwaitRequests \/ UNCHANGED vars
         \/ \E t \in Threads : GiveUp(t)
         \/ \E ty \in Types : Expire(ty)
  PROVE  /\ rows' = rows /\ disabled' = disabled
         /\ pc' = pc \/ \A t \in Threads : pc'[t] = "idle"
BY DEF Tick, SetBack, Crash, AwaitRequests, GiveUp, Expire, vars, storeVars

(* Only a clear works on a disabled chain ----------------------------------- *)

\* At the start nothing is at work.
LEMMA InitClearingInv ==
  ASSUME Init
  PROVE  ClearingInv
BY DEF Init, StoreInit, ClearingInv, OneAtATime, OnlyClearing, At

\* Requests that do not overlap keep it so, and the check at the door lets none of them
\* into a disabled chain (main.go, commandHandler).
LEMMA NextClearingInv ==
  ASSUME TypeOK, ClearingInv, Serial, [Next]_vars
  PROVE  ClearingInv'
<1>1. CASE \/ Tick \/ SetBack \/ Crash \/ AwaitRequests \/ UNCHANGED vars
           \/ \E t \in Threads : GiveUp(t)
           \/ \E ty \in Types : Expire(ty)
  BY <1>1, EnvironmentWritesNothing DEF ClearingInv, OneAtATime, OnlyClearing, At
<1>2. ASSUME NEW t \in Threads, Send(t)
      PROVE  ClearingInv'
  BY <1>2, SendIsAdmitted DEF ClearingInv, OneAtATime, OnlyClearing, At, Alone
<1>3. ASSUME NEW t \in Threads, pc[t] # "idle", Alone(t)
      PROVE  OneAtATime'
  BY <1>3 DEF ClearingInv, OneAtATime, At, Alone
<1>4. ASSUME NEW t \in Threads, CommitStep(t) \/ GetUpdatesStep(t)
      PROVE  ClearingInv'
  <2>1. /\ pc[t] \notin ClearPoints \cup {"idle"}
        /\ disabled' = disabled
        /\ Alone(t)
    BY <1>4, CommitIsAlone, GetUpdatesIsAlone DEF CommitPoints, GetUpdatesPoints, ClearPoints
  <2> QED
    BY <1>3, <2>1 DEF ClearingInv, OnlyClearing
<1>5. ASSUME NEW t \in Threads, ClearStep(t)
      PROVE  ClearingInv'
  <2>1. /\ pc[t] # "idle"
        /\ pc'[t] \in ClearPoints \cup {"idle"}
        /\ Alone(t)
    BY <1>5, ClearIsAlone DEF ClearPoints
  <2>2. \A u \in Threads \ {t} : pc'[u] = "idle"
    BY <2>1 DEF ClearingInv, OneAtATime, At, Alone
  <2> QED
    BY <1>3, <2>1, <2>2 DEF ClearingInv, OnlyClearing
<1> QED
  BY <1>1, <1>2, <1>4, <1>5 DEF Next, Step

(* One goroutine at work ---------------------------------------------------- *)

\* While t is at work nobody else is.
LEMMA OthersAreIdle ==
  ASSUME OneAtATime, NEW t \in Threads, pc[t] # "idle"
  PROVE  \A u \in Threads \ {t} : pc[u] = "idle"
BY DEF OneAtATime, At

\* What rows, devices, markers, the clock and the cache hold is left as it is.
Still == /\ rows' = rows
         /\ known' = known
         /\ token' = token
         /\ clock' = clock
         /\ typeMtime' = typeMtime

(* What the steps of a commit do -------------------------------------------- *)

\* t goes on in its commit with its stamp and its mtimes.
CommitGoesOn(t) ==
  /\ OthersWait(t)
  /\ gu' = gu
  /\ pc[t] \in CommitPoints
  /\ pc'[t] \in CommitPoints \ {"count"}
  /\ pc'[t] \in Unwritten => pc[t] \in Unwritten
  /\ cm'[t].stamp = cm[t].stamp
  /\ cm'[t].mtimes = cm[t].mtimes

\* The steps of a commit that read, count or give an entry up.
CommitCounts(t) ==
  \/ ReadCounts(t)
  \/ PeekInterim(t, "peekNormal", "normal", "peekHistory")
  \/ PeekInterim(t, "peekHistory", "history", "entries")
  \/ CheckItem(t)
  \/ RejectOverQuota(t)
  \/ CountEntry(t, "countUp", FALSE)
  \/ CountEntry(t, "countDown", TRUE)
  \/ EntryStoreError(t)
  \/ DrainInterim(t, "entries", "normal", "drainHistory")
  \/ DrainInterim(t, "drainHistory", "history", "setMtime")
  \/ UpdateEntry(t) /\ EntryFails(t) /\ UNCHANGED storeVars

\* Counting, looking up and refusing leave rows, markers and cached mtimes alone.
LEMMA CommitCountsGoesOn ==
  ASSUME TypeOK, NEW t \in Threads, CommitCounts(t)
  PROVE  Still /\ CommitGoesOn(t)
<1> USE DEF Still, storeVars, cacheVars, clientVars, At, Goto, CommitPoints, Unwritten
<1>1. cm \in [Threads -> CommitWork] /\ cm[t] \in CommitWork /\ pc \in [Threads -> Points]
  BY CommitLocals DEF TypeOK, StateTypeOK
<1>2. ASSUME NEW f, NEW x, NEW point \in CommitPoints \ {"count"},
             \/ cm' = cm
             \/ cm' = [cm EXCEPT ![t].counts = x]
             \/ cm' = [cm EXCEPT ![t].fresh[f] = x]
             \/ cm' = [cm EXCEPT ![t].fresh[f] = x, ![t].cur = {}]
             \/ cm' = [cm EXCEPT ![t].cur = {}],
             Goto(t, point), gu' = gu, pc[t] \in CommitPoints,
             point \in Unwritten => pc[t] \in Unwritten
      PROVE  CommitGoesOn(t)
  <2>1. /\ cm'[t].stamp = cm[t].stamp /\ cm'[t].mtimes = cm[t].mtimes
        /\ \A u \in Threads \ {t} : cm'[u] = cm[u]
    BY <1>1, <1>2 DEF CommitWork
  <2>2. pc'[t] = point /\ \A u \in Threads \ {t} : pc'[u] = pc[u]
    BY <1>1, <1>2
  <2> QED
    BY <1>2, <2>1, <2>2 DEF CommitGoesOn, OthersWait
<1>3. CASE ReadCounts(t)
  <2>1. Goto(t, "peekNormal") /\ gu' = gu /\ pc[t] = "count"
        /\ cm' = [cm EXCEPT ![t].counts = itemCounts]
    BY <1>3 DEF ReadCounts, Local
  <2>2. Still
    BY <1>3 DEF ReadCounts, Local
  <2> QED
    BY <1>2, <2>1, <2>2
<1>4. ASSUME NEW c, NEW point \in CommitPoints, NEW next \in {"peekHistory", "entries"},
             PeekInterim(t, point, c, next)
      PROVE  Still /\ CommitGoesOn(t)
  <2>1. Goto(t, next) /\ gu' = gu /\ pc[t] = point
        /\ cm' = [cm EXCEPT ![t].fresh[c] = interim[c]]
    BY <1>4 DEF PeekInterim, Local
  <2>2. Still
    BY <1>4 DEF PeekInterim, Local
  <2> QED
    BY <1>2, <2>1, <2>2
<1>5. CASE CheckItem(t)
  <2>1. PICK point \in {"update", "create"} : Goto(t, point)
    BY <1>5 DEF CheckItem
  <2>2. Still /\ gu' = gu /\ cm' = cm /\ pc[t] = "hasItem"
    BY <1>5 DEF CheckItem, Local
  <2> QED
    BY <1>2, <2>1, <2>2
<1>6. CASE RejectOverQuota(t) \/ EntryStoreError(t) \/ (UpdateEntry(t) /\ EntryFails(t) /\ UNCHANGED storeVars)
  <2>1. Goto(t, "entries") /\ cm' = [cm EXCEPT ![t].cur = {}]
    BY <1>6 DEF RejectOverQuota, EntryStoreError, EntryFails
  <2>2. Still /\ gu' = gu /\ pc[t] \in CommitPoints
    BY <1>6 DEF RejectOverQuota, EntryStoreError, UpdateEntry, Local
  <2> QED
    BY <1>2, <2>1, <2>2
<1>7. ASSUME NEW point \in CommitPoints, NEW subtract, CountEntry(t, point, subtract)
      PROVE  Still /\ CommitGoesOn(t)
  <2>1. PICK c, x : cm' = [cm EXCEPT ![t].fresh[c] = x]
    BY <1>7 DEF CountEntry
  <2>2. Goto(t, "entries") /\ Still /\ gu' = gu /\ pc[t] = point
    BY <1>7 DEF CountEntry, IncrementInterimCount
  <2> QED
    BY <1>2, <2>1, <2>2
<1>8. ASSUME NEW c, NEW point \in CommitPoints, NEW next \in {"drainHistory", "setMtime"},
             DrainInterim(t, point, c, next)
      PROVE  Still /\ CommitGoesOn(t)
  <2>1. Goto(t, next) /\ Still /\ gu' = gu /\ pc[t] = point
        /\ cm' = [cm EXCEPT ![t].fresh[c] = interim[c], ![t].cur = {}]
    BY <1>8 DEF DrainInterim, TakeInterimCount
  <2> QED
    BY <1>2, <2>1
<1> QED
  BY <1>3, <1>4, <1>5, <1>6, <1>7, <1>8 DEF CommitCounts

\* A new stamp is the time of the clock.
LEMMA StartEntryStamps ==
  ASSUME TypeOK, NEW t \in Threads, StartEntry(t)
  PROVE  /\ rows' = rows /\ known' = known /\ token' = token /\ typeMtime' = typeMtime
         /\ gu' = gu /\ OthersWait(t)
         /\ pc[t] = "entries" /\ pc'[t] \in Unwritten
         /\ cm'[t].stamp = clock /\ clock' = clock + StampGap
         /\ cm'[t].mtimes = cm[t].mtimes
<1>1. PICK e \in cm[t].todo :
        /\ cm' = [cm EXCEPT ![t].todo = @ \ {e}, ![t].cur = {e}, ![t].stamp = clock]
        /\ Goto(t, CASE ~Versioned(e.id) -> "hasItem"
                     [] Versioned(e.id) /\ e.base # 0 -> "update"
                     [] OTHER -> "create")
  BY DEF StartEntry
<1> DEFINE next == CASE ~Versioned(e.id) -> "hasItem"
                     [] Versioned(e.id) /\ e.base # 0 -> "update"
                     [] OTHER -> "create"
<1>2. next \in Unwritten
  <2>1. CASE ~Versioned(e.id)
    BY <2>1 DEF Unwritten
  <2>2. CASE Versioned(e.id) /\ e.base # 0
    BY <2>2 DEF Unwritten
  <2>3. CASE Versioned(e.id) /\ e.base = 0
    BY <2>3 DEF Unwritten
  <2> QED
    BY <2>1, <2>2, <2>3
<1>3. Goto(t, next)
  BY <1>1
<1> HIDE DEF next
<1>4. pc'[t] = next /\ \A u \in Threads \ {t} : pc'[u] = pc[u]
  BY <1>3 DEF Goto, TypeOK, StateTypeOK
<1>5. /\ rows' = rows /\ known' = known /\ token' = token /\ typeMtime' = typeMtime
      /\ gu' = gu /\ pc[t] = "entries" /\ clock' = clock + StampGap
  BY DEF StartEntry, Stamped, At, storeVars, cacheVars, clientVars
<1>6. /\ cm'[t].stamp = clock /\ cm'[t].mtimes = cm[t].mtimes
      /\ \A u \in Threads \ {t} : cm'[u] = cm[u]
  BY <1>1, CommitLocals DEF CommitWork
<1> QED
  BY <1>2, <1>4, <1>5, <1>6 DEF OthersWait

\* An entry is answered with SUCCESS: its row is written with the stamp of the entry,
\* or not at all, and its type gets the stamp as the mtime to cache.
Succeeds(t, e) ==
  /\ rows' = rows \/ rows' = [rows EXCEPT ![e.id] = RowFor(t, e)]
  /\ known' = known /\ token' = token /\ clock' = clock /\ typeMtime' = typeMtime
  /\ gu' = gu /\ OthersWait(t)
  /\ pc[t] \in Unwritten /\ pc'[t] \in {"entries", "countUp", "countDown"}
  /\ cm'[t].mtimes = [cm[t].mtimes EXCEPT ![TypeOf[e.id]] = cm[t].stamp]

\* The steps that acknowledge an entry, whether its row is written or not.
LEMMA SuccessWrites ==
  ASSUME TypeOK, NEW t \in Threads,
         \/ PretendStored(t)
         \/ InsertEntry(t)
         \/ UpdateEntry(t) /\ ~(EntryFails(t) /\ UNCHANGED storeVars)
  PROVE  \E e \in cm[t].cur : Succeeds(t, e)
<1>1. /\ known' = known /\ token' = token /\ clock' = clock /\ typeMtime' = typeMtime
      /\ gu' = gu /\ pc[t] \in Unwritten
  BY DEF PretendStored, InsertEntry, UpdateEntry, Local, At, Unwritten, cacheVars, clientVars
<1>2. ASSUME NEW e \in cm[t].cur, NEW point \in {"entries", "countUp", "countDown"},
             EntrySucceeds(t, e, point),
             rows' = rows \/ rows' = [rows EXCEPT ![e.id] = RowFor(t, e)]
      PROVE  \E f \in cm[t].cur : Succeeds(t, f)
  <2>1. /\ cm'[t].mtimes = [cm[t].mtimes EXCEPT ![TypeOf[e.id]] = cm[t].stamp]
        /\ \A u \in Threads \ {t} : cm'[u] = cm[u]
    BY <1>2, CommitLocals DEF EntrySucceeds, CommitWork
  <2>2. pc'[t] = point /\ \A u \in Threads \ {t} : pc'[u] = pc[u]
    BY <1>2 DEF EntrySucceeds, Goto, TypeOK, StateTypeOK
  <2>3. Succeeds(t, e)
    BY <1>1, <1>2, <2>1, <2>2 DEF Succeeds, OthersWait
  <2> QED
    BY <2>3
<1>3. CASE PretendStored(t)
  BY <1>2, <1>3 DEF PretendStored, Local, storeVars
<1>4. CASE InsertEntry(t)
  BY <1>2, <1>4 DEF InsertEntry, InsertSyncEntity, storeVars
<1>5. CASE UpdateEntry(t) /\ ~(EntryFails(t) /\ UNCHANGED storeVars)
  <2>1. PICK e \in cm[t].cur :
          /\ UpdateSyncEntity(e.id, RowFor(t, e))
          /\ EntrySucceeds(t, e,
               IF BecomesDeleted(e.id, e.deleted) THEN "countDown" ELSE "entries")
    BY <1>5 DEF UpdateEntry
  <2>2. rows' = [rows EXCEPT ![e.id] = RowFor(t, e)]
    BY <2>1 DEF UpdateSyncEntity
  <2>3. PICK point \in {"entries", "countDown"} : EntrySucceeds(t, e, point)
    BY <2>1
  <2> QED
    BY <1>2, <2>2, <2>3
<1> QED
  BY <1>3, <1>4, <1>5

\* A goroutine that ends has nothing left.
LEMMA EndsEmpty ==
  ASSUME TypeOK, NEW t \in Threads, Finish(t)
  PROVE  /\ OthersWait(t)
         /\ pc'[t] = "idle"
         /\ CommittedTypes(t)' = {}
         /\ gu'[t].got = {} /\ gu'[t].cur = {}
         /\ \A ty \in Types : gu'[t].tok[ty] = 0
<1>1. OthersWait(t)
  BY FinishAddsNothing
<1>2. pc'[t] = "idle" /\ cm'[t] = NoCommit /\ gu'[t] = NoGetUpdates
  BY DEF Finish, Goto, TypeOK, StateTypeOK
<1> QED
  BY <1>1, <1>2 DEF NoCommit, NoGetUpdates, CommittedTypes

\* typeMtimeMap, one type.
LEMMA SaveMtimeCaches ==
  ASSUME TypeOK, NEW t \in Threads, SaveMtime(t)
  PROVE  /\ rows' = rows /\ known' = known /\ token' = token /\ clock' = clock
         /\ gu' = gu /\ OthersWait(t)
         /\ pc[t] = "setMtime" /\ pc' = pc
         /\ \E ty \in CommittedTypes(t) :
              /\ typeMtime' = [typeMtime EXCEPT ![ty] = cm[t].mtimes[ty]]
              /\ cm'[t].mtimes = [cm[t].mtimes EXCEPT ![ty] = Miss]
<1>1. PICK ty \in CommittedTypes(t) : /\ CacheMtime(t, ty)
                                      /\ cm' = [cm EXCEPT ![t].mtimes[ty] = Miss]
  BY DEF SaveMtime
<1>2. /\ cm'[t].mtimes = [cm[t].mtimes EXCEPT ![ty] = Miss]
      /\ \A u \in Threads \ {t} : cm'[u] = cm[u]
  BY <1>1, CommitLocals DEF CommitWork
<1>3. /\ rows' = rows /\ known' = known /\ token' = token /\ clock' = clock
      /\ gu' = gu /\ pc[t] = "setMtime" /\ pc' = pc
  BY DEF SaveMtime, At, storeVars, clientVars
<1> QED
  BY <1>1, <1>2, <1>3 DEF OthersWait, CacheMtime, SetTypeMtime

\* The last call of a commit comes after all mtimes are cached.
LEMMA FlushCountsGoesOn ==
  ASSUME TypeOK, NEW t \in Threads, FlushCounts(t)
  PROVE  /\ Still /\ gu' = gu /\ cm' = cm
         /\ OthersWait(t)
         /\ pc[t] = "setMtime" /\ pc'[t] = "reply"
         /\ CommittedTypes(t) = {}
BY DEF FlushCounts, UpdateClientItemCount, Still, OthersWait, At, Goto,
       storeVars, cacheVars, clientVars, TypeOK, StateTypeOK

\* A device never forgets a version.
KnowsMore ==
  \A d \in Devices, i \in Ids : known'[d][i].version >= known[d][i].version

\* The answer to a commit raises the versions a device knows.
LEMMA ReplyCommitTeaches ==
  ASSUME TypeOK, NEW t \in Threads, ReplyCommit(t)
  PROVE  /\ Finish(t) /\ KnowsMore /\ pc[t] = "reply"
         /\ rows' = rows /\ token' = token /\ clock' = clock /\ typeMtime' = typeMtime
<1>1. /\ Finish(t) /\ pc[t] = "reply"
      /\ rows' = rows /\ token' = token /\ clock' = clock /\ typeMtime' = typeMtime
  BY DEF ReplyCommit, At, storeVars, cacheVars
<1>2. \A d \in Devices, i \in Ids : known[d][i].version \in Nat
  BY DEF TypeOK, StateTypeOK, Known
<1>3. ASSUME NEW i \in Ids
      PROVE  Learned(t, i).version >= known[Dev(t)][i].version
  <2> DEFINE new == {a \in cm[t].acks : a.id = i /\ a.version > known[Dev(t)][i].version}
             last == CHOOSE b \in new : TRUE
  <2>1. CASE new = {}
    BY <1>2, <2>1, DevType DEF Learned
  <2>2. CASE new # {}
    <3>1. last \in new
      BY <2>2
    <3>2. Learned(t, i) = [version |-> last.version, deleted |-> last.deleted, by |-> Dev(t)]
      BY <2>2 DEF Learned
    <3>3. last \in cm[t].acks /\ last.version > known[Dev(t)][i].version
      BY <3>1
    <3> HIDE DEF last
    <3>4. last.version \in Nat
      BY <3>3, CommitLocals DEF Ack
    <3> QED
      BY <1>2, <3>2, <3>3, <3>4, DevType
  <2> QED
    BY <2>1, <2>2
<1>4. KnowsMore
  <2>1. CASE known' = known
    BY <1>2, <2>1 DEF KnowsMore
  <2>2. CASE known' = [known EXCEPT ![Dev(t)] = [i \in Ids |-> Learned(t, i)]]
    <3>1. /\ \A d \in Devices \ {Dev(t)} : known'[d] = known[d]
          /\ \A i \in Ids : known'[Dev(t)][i] = Learned(t, i)
      BY <2>2, DevType DEF TypeOK, StateTypeOK
    <3> QED
      BY <1>2, <1>3, <3>1 DEF KnowsMore
  <2> QED
    BY <2>1, <2>2 DEF ReplyCommit
<1> QED
  BY <1>1, <1>4

\* A call at which a request fails as a whole.
LEMMA FailIsStill ==
  ASSUME NEW t \in Threads, Fail(t)
  PROVE  Still /\ Finish(t)
BY DEF Fail, Still, storeVars, cacheVars, clientVars

(* What the other handlers and the environment do --------------------------- *)

\* A commit starts without touching what others hold.
LEMMA SendCommitBegins ==
  ASSUME TypeOK, NEW t \in Threads, SendCommit(t)
  PROVE  /\ Still /\ gu' = gu /\ OthersWait(t)
         /\ pc[t] = "idle" /\ pc'[t] = "count"
         /\ cm'[t].mtimes = cm[t].mtimes
<1>1. /\ Still /\ gu' = gu
      /\ pc[t] = "idle" /\ pc'[t] = "count" /\ \A u \in Threads \ {t} : pc'[u] = pc[u]
  BY DEF SendCommit, Admit, Free, At, Goto, Still, storeVars, cacheVars, clientVars,
         TypeOK, StateTypeOK
<1>2. \E m : cm' = [cm EXCEPT ![t].todo = m]
  BY DEF SendCommit
<1>3. cm'[t].mtimes = cm[t].mtimes /\ \A u \in Threads \ {t} : cm'[u] = cm[u]
  BY <1>2, CommitLocals DEF CommitWork
<1> QED
  BY <1>1, <1>3 DEF OthersWait

\* A request for updates starts from the progress markers of its device.
LEMMA SendGetUpdatesBegins ==
  ASSUME TypeOK, NEW t \in Threads, SendGetUpdates(t)
  PROVE  /\ Still /\ cm' = cm /\ OthersWait(t)
         /\ pc[t] = "idle" /\ pc'[t] \in {"devices", "markers"}
         /\ gu'[t].tok = token[Dev(t)]
         /\ gu'[t].got = gu[t].got /\ gu'[t].cur = gu[t].cur
<1>1. /\ Still /\ cm' = cm
      /\ pc[t] = "idle" /\ pc'[t] \in {"devices", "markers"}
      /\ \A u \in Threads \ {t} : pc'[u] = pc[u]
  BY DEF SendGetUpdates, Admit, Free, At, Goto, Still, storeVars, cacheVars, clientVars,
         TypeOK, StateTypeOK
<1>2. PICK origin, S :
        gu' = [gu EXCEPT ![t].origin = origin, ![t].todo = S, ![t].tok = token[Dev(t)]]
  BY DEF SendGetUpdates
<1>3. /\ gu'[t].tok = token[Dev(t)]
      /\ gu'[t].got = gu[t].got /\ gu'[t].cur = gu[t].cur
      /\ \A u \in Threads \ {t} : gu'[u] = gu[u]
  BY <1>2, GetUpdatesLocals DEF GetUpdatesWork
<1> QED
  BY <1>1, <1>3 DEF OthersWait

\* A clear starts without touching anything.
LEMMA SendClearBegins ==
  ASSUME TypeOK, NEW t \in Threads, SendClear(t)
  PROVE  /\ Still /\ cm' = cm /\ gu' = gu /\ OthersWait(t)
         /\ pc[t] = "idle" /\ pc'[t] = "disable"
BY DEF SendClear, Admit, Free, At, Goto, Still, OthersWait, storeVars, cacheVars, clientVars,
       TypeOK, StateTypeOK

\* Keys may go from the cache.
CacheShrinks == \A ty \in Types : typeMtime'[ty] \in {typeMtime[ty], Miss}

\* A step of a clear removes rows and cached mtimes, and adds none.
LEMMA ClearStepRemoves ==
  ASSUME TypeOK, NEW t \in Threads, ClearStep(t)
  PROVE  /\ \A i \in Ids : rows'[i] \in {rows[i], NoRow}
         /\ known' = known /\ token' = token /\ clock' = clock
         /\ CacheShrinks
         /\ OthersWait(t) /\ pc[t] \in ClearPoints
         /\ \/ pc'[t] \in ClearPoints /\ cm' = cm /\ gu' = gu
            \/ Finish(t)
<1> USE DEF At, Goto, ClearPoints, OthersWait, CacheShrinks,
            storeVars, cacheVars, clientVars, TypeOK, StateTypeOK
<1>1. CASE Disable(t) \/ Scan(t)
  BY <1>1 DEF Disable, DisableSyncChain, Scan
<1>2. CASE Wipe(t)
  BY <1>2 DEF Wipe, ClearServerData
<1>3. CASE EvictAndReply(t)
  BY <1>3, EndsEmpty DEF EvictAndReply, DelTypeMtimes
<1>4. CASE ClearStoreError(t)
  BY <1>4, EndsEmpty, FailIsStill DEF ClearStoreError, FailOnStoreError, Still
<1> QED
  BY <1>1, <1>2, <1>3, <1>4 DEF ClearStep

\* What happens outside the handlers.
Outside ==
  \/ Tick \/ SetBack \/ Crash \/ AwaitRequests \/ UNCHANGED vars
  \/ \E t \in Threads : GiveUp(t)
  \/ \E ty \in Types : Expire(ty)

\* What happens outside the handlers removes cached mtimes or all work under way.
LEMMA OutsideRemoves ==
  ASSUME TypeOK, Outside
  PROVE  /\ rows' = rows /\ known' = known /\ token' = token
         /\ clock' \in Nat /\ (ClockGoesBack \/ clock' >= clock)
         /\ CacheShrinks
         /\ \/ pc' = pc /\ cm' = cm /\ gu' = gu
            \/ /\ \A t \in Threads : pc'[t] = "idle" /\ cm'[t] = NoCommit /\ gu'[t] = NoGetUpdates
               /\ \A ty \in Types : typeMtime'[ty] = Miss
<1> USE DEF storeVars, cacheVars, clientVars, CacheShrinks
<1>1. clock \in Nat
  BY DEF TypeOK, StateTypeOK
<1>2. CASE Tick \/ SetBack
  BY <1>1, <1>2 DEF Tick, SetBack
<1>3. CASE Crash
  BY <1>1, <1>3 DEF Crash, CacheEmpty
<1>4. CASE AwaitRequests \/ UNCHANGED vars
  BY <1>1, <1>4 DEF AwaitRequests, vars
<1>5. ASSUME NEW t \in Threads, GiveUp(t)
      PROVE  /\ rows' = rows /\ known' = known /\ token' = token /\ clock' = clock
             /\ typeMtime' = typeMtime /\ pc' = pc /\ cm' = cm /\ gu' = gu
  BY <1>5 DEF GiveUp
<1>6. ASSUME NEW ty \in Types, Expire(ty)
      PROVE  /\ rows' = rows /\ known' = known /\ token' = token /\ clock' = clock
             /\ CacheShrinks /\ pc' = pc /\ cm' = cm /\ gu' = gu
  BY <1>6 DEF Expire, DelTypeMtimes
<1> QED
  BY <1>1, <1>2, <1>3, <1>4, <1>5, <1>6 DEF Outside

(* What the steps of a request for updates do ------------------------------- *)

\* t goes on in its request with what it has collected and reached so far.
AnswerGoesOn(t) ==
  /\ OthersWait(t)
  /\ cm' = cm
  /\ pc[t] \in GetUpdatesPoints
  /\ pc'[t] \in GetUpdatesPoints \ {"insertFolders", "cacheSet"}
  /\ gu'[t].tok = gu[t].tok /\ gu'[t].got = gu[t].got
  /\ gu'[t].cur = gu[t].cur \/ (\A a, b \in gu'[t].cur : a = b)

\* The steps of a request for updates that read and choose the next marker.
LEMMA ReadingGoesOn ==
  ASSUME TypeOK, NEW t \in Threads,
         (CountDevices(t) /\ ~Fail(t)) \/ CheckFolders(t) \/ StartMarker(t)
  PROVE  Still /\ AnswerGoesOn(t)
<1> USE DEF Still, LocalGU, At, Goto, GetUpdatesPoints, storeVars, cacheVars, clientVars
<1>1. gu \in [Threads -> GetUpdatesWork] /\ gu[t] \in GetUpdatesWork /\ pc \in [Threads -> Points]
  BY GetUpdatesLocals DEF TypeOK, StateTypeOK
<1>2. CASE CountDevices(t) /\ ~Fail(t)
  <2>1. PICK n : gu' = [gu EXCEPT ![t].active = n]
    BY <1>2 DEF CountDevices
  <2>2. \E point \in {"devices", "hasTag"} : Goto(t, point)
    BY <1>2 DEF CountDevices
  <2>3. LocalGU(t) /\ pc[t] = "devices"
    BY <1>2 DEF CountDevices
  <2>4. /\ gu'[t].tok = gu[t].tok /\ gu'[t].got = gu[t].got /\ gu'[t].cur = gu[t].cur
        /\ \A u \in Threads \ {t} : gu'[u] = gu[u]
    BY <1>1, <2>1 DEF GetUpdatesWork
  <2>5. pc'[t] \in {"devices", "hasTag"} /\ \A u \in Threads \ {t} : pc'[u] = pc[u]
    BY <1>1, <2>2
  <2> QED
    BY <2>3, <2>4, <2>5 DEF AnswerGoesOn, OthersWait
<1>3. CASE CheckFolders(t)
  <2>1. \E point \in {"markers", "makeFolders"} : Goto(t, point)
    BY <1>3 DEF CheckFolders
  <2>2. LocalGU(t) /\ pc[t] = "hasTag" /\ gu' = gu
    BY <1>3 DEF CheckFolders
  <2>3. pc'[t] \in {"markers", "makeFolders"} /\ \A u \in Threads \ {t} : pc'[u] = pc[u]
    BY <1>1, <2>1
  <2> QED
    BY <2>2, <2>3 DEF AnswerGoesOn, OthersWait
<1>4. CASE StartMarker(t)
  <2>1. PICK ty \in gu[t].todo, skip \in BOOLEAN :
          /\ gu' = [gu EXCEPT ![t].todo = @ \ {ty}, ![t].cur = IF skip THEN {} ELSE {ty}]
          /\ Goto(t, IF skip THEN "markers" ELSE "query")
    BY <1>4 DEF StartMarker
  <2>2. LocalGU(t) /\ pc[t] = "markers"
    BY <1>4 DEF StartMarker
  <2>3. /\ gu'[t].tok = gu[t].tok /\ gu'[t].got = gu[t].got
        /\ gu'[t].cur = IF skip THEN {} ELSE {ty}
        /\ \A u \in Threads \ {t} : gu'[u] = gu[u]
    BY <1>1, <2>1 DEF GetUpdatesWork
  <2>4. pc'[t] \in {"markers", "query"} /\ \A u \in Threads \ {t} : pc'[u] = pc[u]
    BY <1>1, <2>1
  <2>5. \A a, b \in gu'[t].cur : a = b
    BY <2>3
  <2> QED
    BY <2>2, <2>3, <2>4, <2>5 DEF AnswerGoesOn, OthersWait
<1> QED
  BY <1>2, <1>3, <1>4

\* The folders get the time of the clock as their stamp.
LEMMA MakeFoldersStamps ==
  ASSUME TypeOK, NEW t \in Threads, MakeFolders(t)
  PROVE  /\ rows' = rows /\ known' = known /\ token' = token /\ typeMtime' = typeMtime
         /\ cm' = cm /\ OthersWait(t)
         /\ pc[t] = "makeFolders" /\ pc'[t] = "insertFolders"
         /\ gu'[t].folders \in FolderIds /\ gu'[t].stamp = clock
         /\ clock' = clock + StampGap
         /\ gu'[t].tok = gu[t].tok /\ gu'[t].got = gu[t].got /\ gu'[t].cur = gu[t].cur
<1>1. /\ rows' = rows /\ known' = known /\ token' = token /\ typeMtime' = typeMtime
      /\ cm' = cm /\ pc[t] = "makeFolders" /\ clock' = clock + StampGap
      /\ Goto(t, "insertFolders")
  BY DEF MakeFolders, Stamped, At, storeVars, cacheVars, clientVars
<1>2. PICK R \in FolderIds : gu' = [gu EXCEPT ![t].folders = R, ![t].stamp = clock]
  BY DEF MakeFolders
<1>3. /\ gu'[t].folders = R /\ gu'[t].stamp = clock
      /\ gu'[t].tok = gu[t].tok /\ gu'[t].got = gu[t].got /\ gu'[t].cur = gu[t].cur
      /\ \A u \in Threads \ {t} : gu'[u] = gu[u]
  BY <1>2, GetUpdatesLocals DEF GetUpdatesWork
<1>4. pc'[t] = "insertFolders" /\ \A u \in Threads \ {t} : pc'[u] = pc[u]
  BY <1>1 DEF Goto, TypeOK, StateTypeOK
<1> QED
  BY <1>1, <1>2, <1>3, <1>4 DEF OthersWait

\* InsertServerDefinedUniqueEntities: all folders, or the request fails.
LEMMA InsertFoldersWrites ==
  ASSUME TypeOK, NEW t \in Threads, InsertFolders(t), ~Fail(t)
  PROVE  /\ known' = known /\ token' = token /\ clock' = clock /\ typeMtime' = typeMtime
         /\ cm' = cm /\ gu' = gu /\ OthersWait(t)
         /\ pc[t] = "insertFolders" /\ pc'[t] = "markers"
         /\ rows' = [i \in Ids |-> IF i \in gu[t].folders THEN FolderRow(t) ELSE rows[i]]
         /\ \A i \in gu[t].folders : ~Stored(i)
BY DEF InsertFolders, InsertSyncEntitiesWithServerTags, ServerTagsConflict, OthersWait, At, Goto,
       cacheVars, clientVars, TypeOK, StateTypeOK

\* The cache gets the token the answer has reached.
LEMMA CacheTokenCaches ==
  ASSUME TypeOK, NEW t \in Threads, CacheToken(t)
  PROVE  /\ rows' = rows /\ known' = known /\ token' = token /\ clock' = clock
         /\ cm' = cm /\ gu' = gu /\ OthersWait(t)
         /\ pc[t] = "cacheSet" /\ pc'[t] = "markers"
         /\ \E ty \in gu[t].cur : typeMtime' = [typeMtime EXCEPT ![ty] = gu[t].tok[ty]]
BY DEF CacheToken, SetTypeMtime, OthersWait, At, Goto, storeVars, clientVars, TypeOK, StateTypeOK

\* The device learns all the response holds that is newer than what it knows, and
\* takes its markers, or, having given up, neither.
LEMMA ReplyGetUpdatesTeaches ==
  ASSUME TypeOK, NEW t \in Threads, ReplyGetUpdates(t)
  PROVE  /\ Finish(t) /\ KnowsMore /\ pc[t] = "markers"
         /\ rows' = rows /\ clock' = clock /\ typeMtime' = typeMtime
         /\ \/ known' = known /\ token' = token
            \/ /\ token' = [token EXCEPT ![Dev(t)] = gu[t].tok]
               /\ \A u \in gu[t].got : \/ known'[Dev(t)][u.id].version >= u.version
                                       \/ \E v \in gu[t].got : /\ v.id = u.id
                                                               /\ v.version # u.version
<1>1. /\ Finish(t) /\ pc[t] = "markers"
      /\ rows' = rows /\ clock' = clock /\ typeMtime' = typeMtime
  BY DEF ReplyGetUpdates, At, storeVars, cacheVars
<1>2. \A d \in Devices, i \in Ids : known[d][i].version \in Nat
  BY DEF TypeOK, StateTypeOK, Known
<1>3. ASSUME NEW i \in Ids
      PROVE  /\ LearnedUpdate(t, i).version >= known[Dev(t)][i].version
             /\ \A u \in gu[t].got : u.id = i =>
                  \/ LearnedUpdate(t, i).version >= u.version
                  \/ \E v \in gu[t].got : v.id = i /\ v.version # u.version
  <2> DEFINE new == {u \in gu[t].got : u.id = i /\ u.version > known[Dev(t)][i].version}
             last == CHOOSE v \in new : TRUE
  <2>0. \A u \in gu[t].got : u.version \in Nat
    BY GetUpdatesLocals DEF Update
  <2>1. CASE new = {}
    <3>1. LearnedUpdate(t, i) = known[Dev(t)][i]
      BY <2>1 DEF LearnedUpdate
    <3>2. \A u \in gu[t].got : u.id = i => ~(u.version > known[Dev(t)][i].version)
      BY <2>1
    <3> QED
      BY <1>2, <2>0, <3>1, <3>2, DevType
  <2>2. CASE new # {}
    <3>1. last \in new
      BY <2>2
    <3>2. LearnedUpdate(t, i) = [version |-> last.version, deleted |-> last.deleted, by |-> last.by]
      BY <2>2 DEF LearnedUpdate
    <3>3. last \in gu[t].got /\ last.id = i /\ last.version > known[Dev(t)][i].version
      BY <3>1
    <3> HIDE DEF last
    <3>4. LearnedUpdate(t, i).version = last.version
      BY <3>2
    <3>5. LearnedUpdate(t, i).version >= known[Dev(t)][i].version
      BY <1>2, <2>0, <3>3, <3>4, DevType
    <3>6. ASSUME NEW u \in gu[t].got, u.id = i
          PROVE  \/ LearnedUpdate(t, i).version >= u.version
                 \/ \E v \in gu[t].got : v.id = i /\ v.version # u.version
      BY <2>0, <3>3, <3>4, <3>6
    <3> QED
      BY <3>5, <3>6
  <2> QED
    BY <2>1, <2>2
<1>4. CASE known' = known /\ token' = token
  BY <1>1, <1>2, <1>4 DEF KnowsMore
<1>5. CASE /\ known' = [known EXCEPT ![Dev(t)] = [i \in Ids |-> LearnedUpdate(t, i)]]
           /\ token' = [token EXCEPT ![Dev(t)] = gu[t].tok]
  <2>1. /\ \A d \in Devices \ {Dev(t)} : known'[d] = known[d]
        /\ \A i \in Ids : known'[Dev(t)][i] = LearnedUpdate(t, i)
    BY <1>5, DevType DEF TypeOK, StateTypeOK
  <2>2. KnowsMore
    BY <1>2, <1>3, <2>1 DEF KnowsMore
  <2>3. \A u \in gu[t].got : u.id \in Ids
    BY GetUpdatesLocals DEF Update
  <2> QED
    BY <1>1, <1>3, <1>5, <2>1, <2>2, <2>3
<1> QED
  BY <1>4, <1>5 DEF ReplyGetUpdates, clientVars

\* P is sent for the type ty, and the marker moves to next: no further than the rows
\* that were sent or share their mtime with one that was; and when nothing remains
\* (the token will be cached), all newer rows were sent.
Answers(t, ty, P, next) ==
  /\ P \subseteq Newer(ty, gu[t].tok[ty])
  /\ next \in Nat /\ next >= gu[t].tok[ty]
  /\ next = gu[t].tok[ty] \/ \E k \in P : rows[k].mtime = next
  /\ gu'[t].tok = [gu[t].tok EXCEPT ![ty] = next]
  /\ gu'[t].got = gu[t].got \cup {UpdateOf(i) : i \in P}
  /\ \A i \in P : rows[i].mtime <= next
  /\ \A i \in Newer(ty, gu[t].tok[ty]) \ P :
       rows[i].mtime <= next => \E j \in P : rows[j].mtime = rows[i].mtime
  /\ pc'[t] = "cacheSet" => P = Newer(ty, gu[t].tok[ty])

\* A query answers with a page: rows newer than the marker, up to the new one, which cuts
\* only within a millisecond.
LEMMA QueryTypeReads ==
  ASSUME TypeOK, NEW t \in Threads, QueryType(t), ~Fail(t)
  PROVE  /\ Still /\ cm' = cm /\ OthersWait(t)
         /\ pc[t] = "query" /\ pc'[t] \in {"markers", "cacheSet"}
         /\ gu'[t].cur = gu[t].cur
         /\ \E ty \in gu[t].cur, P \in SUBSET Ids, next \in Nat : Answers(t, ty, P, next)
<1> DEFINE size == MaxGUBatch - Cardinality(gu[t].got)
           Remaining(ty) == gu[t].remaining \/ ChangesRemain(ty, gu[t].tok[ty], size)
           Read(ty, P, next) ==
             /\ gu' = [gu EXCEPT ![t].got = @ \cup {UpdateOf(i) : i \in P},
                                 ![t].tok[ty] = next,
                                 ![t].remaining = Remaining(ty)]
             /\ Goto(t, IF Remaining(ty) THEN "markers" ELSE "cacheSet")
             /\ LocalGU(t)
<1>1. PICK ty \in gu[t].cur :
        \E P \in Pages(ty, gu[t].tok[ty], size) : \E next \in NextToken(t, ty, P) :
          IF NigoriNotReady(t, ty, P) THEN Fail(t) /\ UNCHANGED left ELSE Read(ty, P, next)
  BY DEF QueryType
<1> HIDE DEF Read
<1>2. PICK P \in Pages(ty, gu[t].tok[ty], size) :
        \E next \in NextToken(t, ty, P) : Read(ty, P, next)
  BY <1>1
<1>3. PICK next \in NextToken(t, ty, P) : Read(ty, P, next)
  BY <1>2
<1> DEFINE tok == gu[t].tok[ty]
           new == {UpdateOf(i) : i \in P}
<1>4. /\ Still /\ cm' = cm
      /\ pc[t] = "query"
  BY <1>3 DEF Read, LocalGU, Still, QueryType, At, storeVars, cacheVars, clientVars
<1>5. /\ pc'[t] \in {"markers", "cacheSet"} /\ \A u \in Threads \ {t} : pc'[u] = pc[u]
      /\ pc'[t] = "cacheSet" => ~Remaining(ty)
  BY <1>3 DEF Read, Goto, TypeOK, StateTypeOK
<1>6. ty \in Types /\ tok \in Nat
  BY GetUpdatesLocals
<1>7. /\ P \subseteq Newer(ty, tok)
      /\ \/ Cardinality(P) = size
         \/ P = Newer(ty, tok)
      /\ \A i \in P : \A j \in Newer(ty, tok) \ P : rows[i].mtime <= rows[j].mtime
  BY <1>2 DEF Pages
<1>8. \A i \in Newer(ty, tok) : i \in Ids /\ rows[i].mtime \in Nat /\ rows[i].mtime > tok
  BY StoredRow DEF Newer, Row
<1>9. \/ P = {} /\ next = tok
      \/ P # {} /\ (\E k \in P : next = rows[k].mtime) /\ \A i \in P : rows[i].mtime <= next
  BY <1>3 DEF NextToken
<1>10. next \in Nat /\ next >= tok
  BY <1>6, <1>7, <1>8, <1>9
<1>11. /\ gu'[t].tok = [gu[t].tok EXCEPT ![ty] = next]
       /\ gu'[t].got = gu[t].got \cup new
       /\ gu'[t].cur = gu[t].cur
       /\ \A u \in Threads \ {t} : gu'[u] = gu[u]
  <2>1. gu' = [gu EXCEPT ![t].got = @ \cup new, ![t].tok[ty] = next, ![t].remaining = Remaining(ty)]
    BY <1>3 DEF Read
  <2> HIDE DEF new, Remaining
  <2> QED
    BY <2>1, GetUpdatesLocals DEF GetUpdatesWork
<1>12. ASSUME NEW i \in Newer(ty, tok) \ P, rows[i].mtime <= next
       PROVE  \E j \in P : rows[j].mtime = rows[i].mtime
  <2>1. P # {}
    BY <1>6, <1>8, <1>9, <1>12
  <2>2. PICK k \in P : next = rows[k].mtime
    BY <1>9, <2>1
  <2>3. rows[k].mtime <= rows[i].mtime
    BY <1>7, <1>12, <2>2
  <2>4. rows[i].mtime \in Nat /\ rows[k].mtime \in Nat
    BY <1>7, <1>8, <1>12, <2>2
  <2> QED
    BY <1>12, <2>2, <2>3, <2>4
<1>13. ASSUME pc'[t] = "cacheSet"
       PROVE  P = Newer(ty, tok)
  <2>1. ~(Cardinality(Newer(ty, tok)) > size)
    BY <1>5, <1>13 DEF ChangesRemain
  <2>2. CASE Cardinality(P) = size
    <3>1. IsFiniteSet(Newer(ty, tok))
      BY IdsAssumption, FS_Subset DEF Newer
    <3>2. /\ Cardinality(P) <= Cardinality(Newer(ty, tok))
          /\ Cardinality(P) = Cardinality(Newer(ty, tok)) => P = Newer(ty, tok)
          /\ IsFiniteSet(P)
      BY <1>7, <3>1, FS_Subset
    <3>3. Cardinality(P) \in Nat /\ Cardinality(Newer(ty, tok)) \in Nat
      BY <3>1, <3>2, FS_CardinalityType
    <3> QED
      BY <2>1, <2>2, <3>2, <3>3
  <2> QED
    BY <1>7, <2>2
<1>14. Answers(t, ty, P, next)
  BY <1>6, <1>7, <1>9, <1>10, <1>11, <1>12, <1>13 DEF Answers
<1>15. P \in SUBSET Ids
  BY <1>7, <1>8
<1>16. \E uy \in gu[t].cur, Q \in SUBSET Ids, m \in Nat : Answers(t, uy, Q, m)
  BY <1>10, <1>14, <1>15
<1> QED
  BY <1>4, <1>5, <1>11, <1>16 DEF OthersWait

(* Stamps are last ---------------------------------------------------------- *)

\* What is before a stamp is before later ones.
LEMMA BeforeLater ==
  ASSUME NEW x \in Nat, NEW y \in Nat, NEW z \in Nat, Before(x, y), y <= z
  PROVE  Before(x, z)
BY DEF Before

\* What is earlier is before a stamp, too.
LEMMA BeforeEarlier ==
  ASSUME NEW w \in Nat, NEW x \in Nat, NEW y \in Nat, Before(x, y), w <= x
  PROVE  Before(w, y)
BY DEF Before

\* Markers move to other markers or to rows, and rows only disappear: what was newer
\* than everything still is.
LEMMA NothingOvertakes ==
  ASSUME TypeOK, TypeOK',
         \A d \in Devices, ty \in Types :
           token'[d][ty] = token[d][ty] \/ \E t \in Threads : token'[d][ty] = gu[t].tok[ty],
         \A t \in Threads, ty \in Types :
           \/ gu'[t].tok[ty] \in {gu[t].tok[ty], 0}
           \/ \E d \in Devices : gu'[t].tok[ty] = token[d][ty]
           \/ \E k \in Ids : Stored(k) /\ gu'[t].tok[ty] = rows[k].mtime,
         \A i \in Ids : rows'[i] \in {rows[i], NoRow}
  PROVE  \A y \in Nat : AllBefore(y) => AllBefore(y)'
<1> SUFFICES ASSUME NEW y \in Nat, AllBefore(y) PROVE AllBefore(y)'
  OBVIOUS
<1>1. \A d \in Devices, ty \in Types : Before(token'[d][ty], y)
  BY DEF AllBefore
<1>2. \A i \in Ids : Stored(i)' => Before(rows'[i].mtime, y)
  BY DEF AllBefore, Stored
<1>3. ASSUME NEW t \in Threads, NEW ty \in Types
      PROVE  Before(gu'[t].tok[ty], y)
  <2>1. gu[t].tok[ty] \in Nat
    BY GetUpdatesLocals
  <2>2. Before(0, y)
    BY <2>1, BeforeEarlier DEF AllBefore
  <2> QED
    BY <2>2 DEF AllBefore
<1> QED
  BY <1>1, <1>2, <1>3 DEF AllBefore, Before

\* A step that draws no stamp and overtakes none keeps StampsAreLast.
LEMMA StampsKept ==
  ASSUME TypeOK, TypeOK', StampsAreLast,
         clock' >= clock,
         \A y \in Nat : AllBefore(y) => AllBefore(y)',
         \A t \in Threads :
           /\ pc'[t] \in Unwritten => pc[t] \in Unwritten /\ cm'[t].stamp = cm[t].stamp
           /\ pc'[t] = "insertFolders" =>
                pc[t] = "insertFolders" /\ gu'[t].stamp = gu[t].stamp
  PROVE  StampsAreLast'
<1>1. clock \in Nat /\ clock' \in Nat
  BY DEF TypeOK, StateTypeOK
<1>2. AllBefore(clock)'
  <2>1. /\ \A d \in Devices, ty \in Types : Before(token'[d][ty], clock)
        /\ \A t \in Threads, ty \in Types : Before(gu'[t].tok[ty], clock)
        /\ \A i \in Ids : Stored(i)' => Before(rows'[i].mtime, clock)
    BY <1>1 DEF StampsAreLast, AllBefore, Before
  <2>2. /\ \A d \in Devices, ty \in Types : token'[d][ty] \in Nat
        /\ \A t \in Threads, ty \in Types : gu'[t].tok[ty] \in Nat
        /\ \A i \in Ids : Stored(i)' => rows'[i].mtime \in Nat
    BY DEF TypeOK, StateTypeOK, StoreTypeOK, GetUpdatesWork, Stored, Row
  <2>3. \A x \in Nat : Before(x, clock) => Before(x, clock')
    BY <1>1, BeforeLater
  <2> QED
    BY <2>1, <2>2, <2>3 DEF AllBefore, Before
<1>3. \A t \in Threads : cm[t].stamp \in Nat /\ gu[t].stamp \in Nat
  BY DEF TypeOK, StateTypeOK, CommitWork, GetUpdatesWork
<1>4. ASSUME NEW t \in Threads, pc'[t] \in Unwritten
      PROVE  AllBefore(cm[t].stamp)' /\ Before(cm[t].stamp, clock)'
  <2>1. AllBefore(cm[t].stamp) /\ Before(cm[t].stamp, clock) /\ cm'[t].stamp = cm[t].stamp
    BY <1>4 DEF StampsAreLast
  <2> DEFINE y == cm[t].stamp
  <2>2. y \in Nat /\ AllBefore(y) /\ Before(y, clock) /\ cm'[t].stamp = y
    BY <1>3, <2>1
  <2> QED
    BY <1>1, <2>2, BeforeLater DEF AllBefore, Before
<1>5. ASSUME NEW t \in Threads, pc'[t] = "insertFolders"
      PROVE  AllBefore(gu[t].stamp)' /\ Before(gu[t].stamp, clock)'
  <2>1. AllBefore(gu[t].stamp) /\ Before(gu[t].stamp, clock) /\ gu'[t].stamp = gu[t].stamp
    BY <1>5 DEF StampsAreLast
  <2> DEFINE y == gu[t].stamp
  <2>2. y \in Nat /\ AllBefore(y) /\ Before(y, clock) /\ gu'[t].stamp = y
    BY <1>3, <2>1
  <2> QED
    BY <1>1, <2>2, BeforeLater DEF AllBefore, Before
<1> QED
  BY <1>2, <1>4, <1>5 DEF StampsAreLast

\* Every step of a commit.
CommitKinds(t) ==
  \/ CommitCounts(t)
  \/ StartEntry(t)
  \/ \/ PretendStored(t)
     \/ InsertEntry(t)
     \/ UpdateEntry(t) /\ ~(EntryFails(t) /\ UNCHANGED storeVars)
  \/ SaveMtime(t)
  \/ FlushCounts(t)
  \/ ReplyCommit(t)
  \/ At(t, "count") /\ Fail(t)

\* These are all the steps of a commit.
LEMMA CommitSplits ==
  ASSUME NEW t \in Threads, CommitStep(t)
  PROVE  CommitKinds(t)
BY DEF CommitStep, CommitKinds, CommitCounts, CountsStoreError, FailOnStoreError

\* Every step of a request for updates.
GetUpdatesKinds(t) ==
  \/ (CountDevices(t) /\ ~Fail(t)) \/ CheckFolders(t) \/ StartMarker(t)
  \/ MakeFolders(t)
  \/ InsertFolders(t) /\ ~Fail(t)
  \/ QueryType(t) /\ ~Fail(t)
  \/ CacheToken(t)
  \/ ReplyGetUpdates(t)
  \/ pc[t] \in GetUpdatesPoints /\ Fail(t)

\* These are all the steps of a request for updates.
LEMMA GetUpdatesSplits ==
  ASSUME TypeOK, NEW t \in Threads, GetUpdatesStep(t)
  PROVE  GetUpdatesKinds(t)
BY GetUpdatesIsAlone DEF GetUpdatesStep, GetUpdatesKinds, GetUpdatesStoreError, FailOnStoreError

\* If requests do not overlap, the other goroutines are idle and stay so.
LEMMA OthersRest ==
  ASSUME OneAtATime, NEW t \in Threads, pc[t] # "idle", OthersWait(t)
  PROVE  \A u \in Threads \ {t} : /\ pc[u] = "idle" /\ pc'[u] = "idle"
                                  /\ cm'[u] = cm[u] /\ gu'[u] = gu[u]
BY OthersAreIdle DEF OthersWait

\* A commit stamps its entry with the clock, which then moves on.
LEMMA CommitKeepsStamps ==
  ASSUME TypeOK, TypeOK', OneAtATime, StampsAreLast, NEW t \in Threads, CommitStep(t)
  PROVE  StampsAreLast'
<1> USE DEF CommitPoints, Unwritten
<1>1. CommitKinds(t)
  BY CommitSplits
<1>2. clock \in Nat /\ clock' \in Nat
  BY DEF TypeOK, StateTypeOK
<1>3. CASE CommitCounts(t)
  BY <1>2, <1>3, CommitCountsGoesOn, OthersRest, NothingOvertakes, StampsKept
  DEF Still, CommitGoesOn
<1>4. CASE StartEntry(t)
  <2>1. \A y \in Nat : AllBefore(y) => AllBefore(y)'
    BY <1>4, StartEntryStamps, NothingOvertakes
  <2>2. AllBefore(clock)
    BY DEF StampsAreLast
  <2>3. cm'[t].stamp = clock /\ clock' = clock + StampGap
    BY <1>4, StartEntryStamps
  <2>4. Before(clock, clock')
    BY <1>2, <2>3, BoundAssumption DEF Before
  <2>5. /\ \A d \in Devices, ty \in Types : Before(token'[d][ty], clock)
        /\ \A u \in Threads, ty \in Types : Before(gu'[u].tok[ty], clock)
        /\ \A i \in Ids : Stored(i)' => Before(rows'[i].mtime, clock)
    BY <1>2, <2>1, <2>2 DEF AllBefore, Before
  <2>6. AllBefore(cm[t].stamp)' /\ Before(cm[t].stamp, clock)'
    BY <2>3, <2>4, <2>5 DEF AllBefore, Before
  <2>7. AllBefore(clock)'
    <3>1. \A x \in Nat : Before(x, clock) => Before(x, clock')
      BY <1>2, <2>3, BoundAssumption, BeforeLater
    <3>2. /\ \A d \in Devices, ty \in Types : token'[d][ty] \in Nat
          /\ \A u \in Threads, ty \in Types : gu'[u].tok[ty] \in Nat
          /\ \A i \in Ids : Stored(i)' => rows'[i].mtime \in Nat
      BY DEF TypeOK, StateTypeOK, StoreTypeOK, GetUpdatesWork, Stored, Row
    <3> QED
      BY <2>5, <3>1, <3>2 DEF AllBefore, Before
  <2>8. \A u \in Threads \ {t} : pc'[u] = "idle"
    BY <1>4, StartEntryStamps, OthersRest
  <2>9. pc'[t] # "insertFolders"
    BY <1>4, StartEntryStamps
  <2> QED
    BY <2>6, <2>7, <2>8, <2>9 DEF StampsAreLast
<1>5. CASE \/ PretendStored(t)
           \/ InsertEntry(t)
           \/ UpdateEntry(t) /\ ~(EntryFails(t) /\ UNCHANGED storeVars)
  <2>1. PICK e \in cm[t].cur : Succeeds(t, e)
    BY <1>5, SuccessWrites
  <2>2. \A i \in Ids : Stored(i)' => \/ Stored(i) /\ rows'[i] = rows[i]
                                     \/ rows'[i].mtime = cm[t].stamp
    <3>1. CASE rows' = rows
      BY <3>1 DEF Stored
    <3>2. CASE rows' = [rows EXCEPT ![e.id] = RowFor(t, e)]
      BY <3>2 DEF RowFor, Stored, TypeOK, StoreTypeOK
    <3> QED
      BY <2>1, <3>1, <3>2 DEF Succeeds
  <2>3. AllBefore(clock) /\ Before(cm[t].stamp, clock)
    BY <2>1 DEF Succeeds, StampsAreLast
  <2>4. AllBefore(clock)'
    BY <2>1, <2>2, <2>3 DEF Succeeds, AllBefore, Before
  <2>5. \A u \in Threads : pc'[u] \notin Unwritten \cup {"insertFolders"}
    BY <2>1, OthersRest DEF Succeeds
  <2> QED
    BY <2>4, <2>5 DEF StampsAreLast
<1>6. CASE SaveMtime(t) \/ FlushCounts(t)
  BY <1>2, <1>6, SaveMtimeCaches, FlushCountsGoesOn, OthersRest, NothingOvertakes, StampsKept
  DEF Still
<1>7. CASE ReplyCommit(t) \/ (At(t, "count") /\ Fail(t))
  <2>1. /\ rows' = rows /\ token' = token /\ clock' = clock /\ Finish(t) /\ pc[t] # "idle"
    BY <1>7, ReplyCommitTeaches, FailIsStill DEF Still, At
  <2> QED
    BY <1>2, <2>1, EndsEmpty, OthersRest, NothingOvertakes, StampsKept
<1> QED
  BY <1>1, <1>3, <1>4, <1>5, <1>6, <1>7 DEF CommitKinds

\* So does a request that makes the root folders.
LEMMA GetUpdatesKeepsStamps ==
  ASSUME TypeOK, TypeOK', OneAtATime, StampsAreLast, NEW t \in Threads, GetUpdatesStep(t)
  PROVE  StampsAreLast'
<1> USE DEF GetUpdatesPoints, Unwritten
<1>1. GetUpdatesKinds(t)
  BY GetUpdatesSplits
<1>2. clock \in Nat /\ clock' \in Nat
  BY DEF TypeOK, StateTypeOK
<1>3. CASE (CountDevices(t) /\ ~Fail(t)) \/ CheckFolders(t) \/ StartMarker(t)
  BY <1>2, <1>3, ReadingGoesOn, OthersRest, NothingOvertakes, StampsKept
  DEF Still, AnswerGoesOn
<1>4. CASE MakeFolders(t)
  <2>1. \A y \in Nat : AllBefore(y) => AllBefore(y)'
    BY <1>4, MakeFoldersStamps, NothingOvertakes, OthersRest
  <2>2. AllBefore(clock)
    BY DEF StampsAreLast
  <2>3. gu'[t].stamp = clock /\ clock' = clock + StampGap
    BY <1>4, MakeFoldersStamps
  <2>4. Before(clock, clock')
    BY <1>2, <2>3, BoundAssumption DEF Before
  <2>5. /\ \A d \in Devices, ty \in Types : Before(token'[d][ty], clock)
        /\ \A u \in Threads, ty \in Types : Before(gu'[u].tok[ty], clock)
        /\ \A i \in Ids : Stored(i)' => Before(rows'[i].mtime, clock)
    BY <1>2, <2>1, <2>2 DEF AllBefore, Before
  <2>6. AllBefore(gu[t].stamp)' /\ Before(gu[t].stamp, clock)'
    BY <2>3, <2>4, <2>5 DEF AllBefore, Before
  <2>7. AllBefore(clock)'
    <3>1. \A x \in Nat : Before(x, clock) => Before(x, clock')
      BY <1>2, <2>3, BoundAssumption, BeforeLater
    <3>2. /\ \A d \in Devices, ty \in Types : token'[d][ty] \in Nat
          /\ \A u \in Threads, ty \in Types : gu'[u].tok[ty] \in Nat
          /\ \A i \in Ids : Stored(i)' => rows'[i].mtime \in Nat
      BY DEF TypeOK, StateTypeOK, StoreTypeOK, GetUpdatesWork, Stored, Row
    <3> QED
      BY <2>5, <3>1, <3>2 DEF AllBefore, Before
  <2>8. \A u \in Threads \ {t} : pc'[u] = "idle"
    BY <1>4, MakeFoldersStamps, OthersRest
  <2>9. pc'[t] \notin Unwritten
    BY <1>4, MakeFoldersStamps
  <2> QED
    BY <2>6, <2>7, <2>8, <2>9 DEF StampsAreLast
<1>5. CASE InsertFolders(t) /\ ~Fail(t)
  <2>1. \A i \in Ids : Stored(i)' => \/ Stored(i) /\ rows'[i] = rows[i]
                                     \/ rows'[i].mtime = gu[t].stamp
    BY <1>5, InsertFoldersWrites DEF FolderRow, Stored
  <2>2. AllBefore(clock) /\ Before(gu[t].stamp, clock)
    BY <1>5, InsertFoldersWrites DEF StampsAreLast
  <2>3. AllBefore(clock)'
    BY <1>5, <2>1, <2>2, InsertFoldersWrites DEF AllBefore, Before
  <2>4. \A u \in Threads : pc'[u] \notin Unwritten \cup {"insertFolders"}
    BY <1>5, InsertFoldersWrites, OthersRest
  <2> QED
    BY <2>3, <2>4 DEF StampsAreLast
<1>6. CASE QueryType(t) /\ ~Fail(t)
  <2>1. PICK ty \in gu[t].cur, P \in SUBSET Ids, next \in Nat : Answers(t, ty, P, next)
    BY <1>6, QueryTypeReads
  <2>2. \A uy \in Types : \/ gu'[t].tok[uy] = gu[t].tok[uy]
                          \/ \E k \in Ids : Stored(k) /\ gu'[t].tok[uy] = rows[k].mtime
    BY <2>1, GetUpdatesLocals DEF Answers, Newer
  <2>3. \A y \in Nat : AllBefore(y) => AllBefore(y)'
    BY <1>6, <2>2, QueryTypeReads, OthersRest, NothingOvertakes DEF Still
  <2> QED
    BY <1>2, <1>6, <2>3, QueryTypeReads, OthersRest, StampsKept DEF Still
<1>7. CASE CacheToken(t)
  BY <1>2, <1>7, CacheTokenCaches, OthersRest, NothingOvertakes, StampsKept
<1>8. CASE ReplyGetUpdates(t) \/ (pc[t] \in GetUpdatesPoints /\ Fail(t))
  <2>1. /\ rows' = rows /\ clock' = clock /\ Finish(t) /\ pc[t] # "idle"
        /\ \/ token' = token
           \/ token' = [token EXCEPT ![Dev(t)] = gu[t].tok]
    BY <1>8, ReplyGetUpdatesTeaches, FailIsStill DEF Still
  <2>2. \A d \in Devices, ty \in Types :
          token'[d][ty] = token[d][ty] \/ token'[d][ty] = gu[t].tok[ty]
    BY <2>1 DEF TypeOK, StateTypeOK
  <2>3. \A y \in Nat : AllBefore(y) => AllBefore(y)'
    BY <2>1, <2>2, EndsEmpty, OthersRest, NothingOvertakes
  <2> QED
    BY <1>2, <2>1, <2>3, EndsEmpty, OthersRest, StampsKept
<1> QED
  BY <1>1, <1>3, <1>4, <1>5, <1>6, <1>7, <1>8 DEF GetUpdatesKinds

\* At the start there is nothing to be newer than.
LEMMA InitStampsAreLast ==
  ASSUME Init
  PROVE  StampsAreLast
BY DEF Init, StoreInit, NoGetUpdates, StampsAreLast, AllBefore, Before, Stored, Unwritten

\* As long as requests do not overlap.
LEMMA NextStampsAreLast ==
  ASSUME TypeOK, TypeOK', Serial, ~ClockGoesBack, OneAtATime, StampsAreLast, [Next]_vars
  PROVE  StampsAreLast'
<1>1. clock \in Nat /\ clock' \in Nat
  BY DEF TypeOK, StateTypeOK
<1>2. CASE Outside
  <2>1. \A y \in Nat : AllBefore(y) => AllBefore(y)'
    BY <1>2, OutsideRemoves, NothingOvertakes DEF NoGetUpdates
  <2>2. \A t \in Threads :
          /\ pc'[t] \in Unwritten => pc[t] \in Unwritten /\ cm'[t].stamp = cm[t].stamp
          /\ pc'[t] = "insertFolders" => pc[t] = "insertFolders" /\ gu'[t].stamp = gu[t].stamp
    BY <1>2, OutsideRemoves DEF Unwritten
  <2> QED
    BY <1>2, <2>1, <2>2, OutsideRemoves, StampsKept
<1>3. ASSUME NEW t \in Threads, Send(t)
      PROVE  StampsAreLast'
  <2>1. \A u \in Threads \ {t} : pc'[u] = "idle"
    BY <1>3, SendIsAdmitted DEF Alone
  <2>2. /\ Still /\ OthersWait(t)
        /\ pc'[t] \notin Unwritten \cup {"insertFolders"}
        /\ gu' = gu \/ gu'[t].tok = token[Dev(t)]
    BY <1>3, SendCommitBegins, SendGetUpdatesBegins, SendClearBegins DEF Send, Unwritten
  <2>3. \A y \in Nat : AllBefore(y) => AllBefore(y)'
    BY <2>2, DevType, NothingOvertakes DEF Still, OthersWait
  <2> QED
    BY <1>1, <2>1, <2>2, <2>3, StampsKept DEF Still, Unwritten
<1>4. ASSUME NEW t \in Threads, ClearStep(t)
      PROVE  StampsAreLast'
  <2>1. /\ \A i \in Ids : rows'[i] \in {rows[i], NoRow}
        /\ token' = token /\ clock' = clock
        /\ OthersWait(t) /\ pc[t] # "idle"
        /\ pc'[t] \notin Unwritten \cup {"insertFolders"}
        /\ \A ty \in Types : gu'[t].tok[ty] \in {gu[t].tok[ty], 0}
    BY <1>4, ClearStepRemoves, EndsEmpty DEF ClearPoints, Unwritten
  <2>2. \A y \in Nat : AllBefore(y) => AllBefore(y)'
    BY <2>1, OthersRest, NothingOvertakes
  <2> QED
    BY <1>1, <2>1, <2>2, OthersRest, StampsKept DEF Unwritten
<1> QED
  BY <1>2, <1>3, <1>4, CommitKeepsStamps, GetUpdatesKeepsStamps DEF Next, Step, Outside

(* Delivery ----------------------------------------------------------------- *)

\* Without a new row or marker, nothing changes that matters: a response goes on
\* with what it has, or ends, and rows disappear only when none is under way.
LEMMA DeliveryKept ==
  ASSUME TypeOK, TypeOK', DeliveryInv, KnowsMore, token' = token,
         \A i \in Ids : rows'[i] \in {rows[i], NoRow},
         \A t \in Threads : \/ pc'[t] \notin GetUpdatesPoints /\ gu'[t].got = {}
                            \/ /\ pc[t] \in GetUpdatesPoints /\ pc'[t] \in GetUpdatesPoints
                               /\ gu'[t].tok = gu[t].tok /\ gu'[t].got = gu[t].got
                               /\ rows' = rows,
         \A t \in Threads : pc'[t] = "insertFolders" =>
           \A i, j \in gu'[t].folders : TagOf[i] = TagOf[j] => i = j
  PROVE  DeliveryInv'
<1> USE DEF DeliveryInv
<1>1. FoldersAreDistinct'
  BY DEF FoldersAreDistinct
<1>2. TiesAreSiblings'
  BY DEF TiesAreSiblings, Stored, HasSibling
<1>3. \A i \in Ids : Stored(i)' => Stored(i) /\ rows'[i] = rows[i]
  BY DEF Stored
<1>4. \A d \in Devices, i \in Ids : Stored(i)' /\ Delivered(d, i) => Delivered(d, i)'
  <2>1. \A d \in Devices, i \in Ids : /\ known[d][i].version \in Nat
                                       /\ known'[d][i].version \in Nat
                                       /\ known'[d][i].version >= known[d][i].version
    BY DEF KnowsMore, TypeOK, StateTypeOK, Known
  <2>2. \A i \in Ids : Stored(i) => rows[i].version \in Nat
    BY StoredRow DEF Row
  <2> SUFFICES ASSUME NEW d \in Devices, NEW i \in Ids, Stored(i)', Delivered(d, i)
               PROVE  Delivered(d, i)'
    OBVIOUS
  <2>3. rows'[i] = rows[i] /\ rows[i].version \in Nat
    BY <1>3, <2>2
  <2>4. /\ known[d][i].version \in Nat /\ known'[d][i].version \in Nat
        /\ known'[d][i].version >= known[d][i].version
        /\ known[d][i].version >= rows[i].version
    BY <2>1 DEF Delivered
  <2> QED
    BY <2>3, <2>4 DEF Delivered
<1>5. PassedAreDelivered'
  BY <1>3, <1>4 DEF PassedAreDelivered, Passed, HasSibling
<1>6. GotIsCurrent'
  BY DEF GotIsCurrent, Stored
<1>7. ResponsesDeliver'
  <2> SUFFICES ASSUME NEW t \in Threads, pc'[t] \in GetUpdatesPoints,
                      NEW i \in Ids, Passed(i, gu[t].tok[TypeOf[i]])'
               PROVE  Delivered(Dev(t), i)' \/ \E u \in gu'[t].got : u.id = i
    BY DEF ResponsesDeliver, Dev
  <2>1. Passed(i, gu[t].tok[TypeOf[i]]) /\ gu'[t].got = gu[t].got /\ Stored(i)'
    BY DEF Passed, HasSibling, Stored
  <2> QED
    BY <1>4, <2>1, DevType DEF ResponsesDeliver, Dev
<1> QED
  BY <1>1, <1>2, <1>5, <1>6, <1>7

\* An idle goroutine has collected nothing.
LEMMA RestingIsEmpty ==
  ASSUME GotIsCurrent, NEW t \in Threads, pc[t] \notin GetUpdatesPoints
  PROVE  gu[t].got = {}
BY DEF GotIsCurrent

\* Rows that get one mtime, newer than every marker and every other row.
LEMMA NewRowsKeepDelivery ==
  ASSUME TypeOK, TypeOK', DeliveryInv, StampGap # 0,
         NEW stamp \in Nat, AllBefore(stamp),
         NEW R \in SUBSET Ids,
         \A i \in R : rows'[i].mtime = stamp,
         \A i \in Ids \ R : rows'[i] = rows[i],
         \A i, j \in R : TypeOf[i] = TypeOf[j] => i = j \/ HasSibling(i),
         known' = known, token' = token
  PROVE  TiesAreSiblings' /\ PassedAreDelivered'
<1>1. \A i \in Ids : Stored(i) => rows[i].mtime \in Nat /\ rows[i].mtime < stamp
  BY StoredRow DEF Row, AllBefore, Before
<1>2. \A d \in Devices, ty \in Types : token[d][ty] \in Nat /\ token[d][ty] < stamp
  BY DEF TypeOK, StateTypeOK, AllBefore, Before
<1>3. TiesAreSiblings'
  <2> SUFFICES ASSUME NEW i \in Ids, NEW j \in Ids, Stored(i)', Stored(j)',
                      TypeOf[i] = TypeOf[j], rows'[i].mtime = rows'[j].mtime
               PROVE  i = j \/ HasSibling(i)
    BY DEF TiesAreSiblings, HasSibling
  <2>1. CASE i \in R /\ j \in R
    BY <2>1
  <2>2. CASE i \notin R /\ j \notin R
    BY <2>2 DEF DeliveryInv, TiesAreSiblings, Stored
  <2>3. CASE (i \in R /\ j \notin R) \/ (i \notin R /\ j \in R)
    BY <1>1, <2>3 DEF Stored
  <2> QED
    BY <2>1, <2>2, <2>3
<1>4. PassedAreDelivered'
  <2> SUFFICES ASSUME NEW d \in Devices, NEW i \in Ids, Passed(i, token[d][TypeOf[i]])'
               PROVE  Delivered(d, i)'
    BY DEF PassedAreDelivered
  <2>1. CASE i \in R
    BY <1>2, <2>1, TypeAssumption DEF Passed
  <2>2. CASE i \notin R
    BY <2>2 DEF DeliveryInv, PassedAreDelivered, Passed, Delivered, Stored, HasSibling
  <2> QED
    BY <2>1, <2>2
<1> QED
  BY <1>3, <1>4

\* A commit writes rows that no marker has reached yet.
LEMMA CommitKeepsDelivery ==
  ASSUME TypeOK, TypeOK', OneAtATime, StampsAreLast, StampGap # 0, DeliveryInv,
         NEW t \in Threads, CommitStep(t)
  PROVE  DeliveryInv'
<1> USE DEF CommitPoints, GetUpdatesPoints, Unwritten
<1>1. CommitKinds(t)
  BY CommitSplits
<1>2. pc[t] \notin GetUpdatesPoints /\ pc[t] # "idle"
  BY CommitIsAlone
<1>3. \A u \in Threads : gu[u].got = {}
  BY <1>2, OthersAreIdle, RestingIsEmpty DEF DeliveryInv
<1>4. known' = known => KnowsMore
  BY DEF KnowsMore, TypeOK, StateTypeOK, Known
<1>5. ASSUME KnowsMore, token' = token, rows' = rows, OthersWait(t),
             pc'[t] \notin GetUpdatesPoints, gu'[t].got = {}
      PROVE  DeliveryInv'
  <2>1. \A u \in Threads : pc'[u] \notin GetUpdatesPoints /\ gu'[u].got = {}
    BY <1>2, <1>3, <1>5, OthersRest
  <2> QED
    BY <1>5, <2>1, DeliveryKept
<1>6. CASE CommitCounts(t) \/ StartEntry(t) \/ SaveMtime(t) \/ FlushCounts(t)
  BY <1>2, <1>3, <1>4, <1>5, <1>6, CommitCountsGoesOn, StartEntryStamps, SaveMtimeCaches, FlushCountsGoesOn
  DEF Still, CommitGoesOn
<1>7. CASE ReplyCommit(t) \/ (At(t, "count") /\ Fail(t))
  BY <1>4, <1>5, <1>7, ReplyCommitTeaches, FailIsStill, EndsEmpty DEF Still
<1>8. CASE \/ PretendStored(t)
           \/ InsertEntry(t)
           \/ UpdateEntry(t) /\ ~(EntryFails(t) /\ UNCHANGED storeVars)
  <2>1. PICK e \in cm[t].cur : Succeeds(t, e)
    BY <1>8, SuccessWrites
  <2>2. CASE rows' = rows
    BY <1>3, <1>4, <1>5, <2>1, <2>2 DEF Succeeds
  <2>3. CASE rows' = [rows EXCEPT ![e.id] = RowFor(t, e)]
    <3>1. e.id \in Ids
      BY CommitLocals DEF Entry
    <3>2. /\ \A i \in {e.id} : rows'[i].mtime = cm[t].stamp
          /\ \A i \in Ids \ {e.id} : rows'[i] = rows[i]
      BY <2>3, <3>1 DEF RowFor, TypeOK, StoreTypeOK
    <3>3. cm[t].stamp \in Nat /\ AllBefore(cm[t].stamp)
      BY <2>1, CommitLocals DEF Succeeds, StampsAreLast
    <3>4. known' = known /\ token' = token
      BY <2>1 DEF Succeeds
    <3>5. \A i, j \in {e.id} : TypeOf[i] = TypeOf[j] => i = j \/ HasSibling(i)
      OBVIOUS
    <3>6. {e.id} \in SUBSET Ids
      BY <3>1
    <3>7. TiesAreSiblings' /\ PassedAreDelivered'
      BY <3>2, <3>3, <3>4, <3>5, <3>6, NewRowsKeepDelivery
    <3>8. \A u \in Threads : pc'[u] \notin GetUpdatesPoints /\ gu'[u].got = {}
      BY <1>2, <1>3, <2>1, OthersRest DEF Succeeds
    <3>9. FoldersAreDistinct' /\ GotIsCurrent' /\ ResponsesDeliver'
      BY <3>8 DEF FoldersAreDistinct, GotIsCurrent, ResponsesDeliver
    <3> QED
      BY <3>7, <3>9 DEF DeliveryInv
  <2> QED
    BY <2>1, <2>2, <2>3 DEF Succeeds
<1> QED
  BY <1>1, <1>6, <1>7, <1>8 DEF CommitKinds

\* A page does not end between two rows that it should both have.
LEMMA QueryTypeKeepsDelivery ==
  ASSUME TypeOK, TypeOK', OneAtATime, DeliveryInv, NEW t \in Threads, QueryType(t), ~Fail(t)
  PROVE  DeliveryInv'
<1> USE DEF DeliveryInv
<1>1. PICK ty \in gu[t].cur, P \in SUBSET Ids, next \in Nat : Answers(t, ty, P, next)
  BY QueryTypeReads
<1>2. /\ rows' = rows /\ known' = known /\ token' = token
      /\ pc[t] = "query" /\ pc'[t] \in {"markers", "cacheSet"}
      /\ \A u \in Threads \ {t} : /\ pc'[u] = "idle" /\ gu'[u] = gu[u]
                                  /\ gu[u].got = {}
  BY QueryTypeReads, OthersRest, RestingIsEmpty DEF Still, GetUpdatesPoints
<1>3. FoldersAreDistinct'
  BY <1>2 DEF FoldersAreDistinct
<1>4. TiesAreSiblings' /\ PassedAreDelivered'
  BY <1>2 DEF TiesAreSiblings, PassedAreDelivered, Passed, Delivered, Stored, HasSibling
<1>5. \A i \in P : i \in Ids /\ Stored(i)
  BY <1>1 DEF Answers, Newer
<1>6. GotIsCurrent'
  <2>1. \A u \in gu'[t].got : Stored(u.id) /\ u.version = rows[u.id].version
    BY <1>1, <1>5 DEF Answers, UpdateOf, GotIsCurrent
  <2> QED
    BY <1>2, <2>1 DEF GotIsCurrent, GetUpdatesPoints, Stored
<1>7. ASSUME NEW i \in Ids, Passed(i, gu'[t].tok[TypeOf[i]])
      PROVE  Delivered(Dev(t), i) \/ \E u \in gu'[t].got : u.id = i
  <2>1. CASE Passed(i, gu[t].tok[TypeOf[i]])
    <3>1. Delivered(Dev(t), i) \/ \E u \in gu[t].got : u.id = i
      BY <1>2, <2>1 DEF ResponsesDeliver, GetUpdatesPoints
    <3> QED
      BY <1>1, <3>1 DEF Answers
  <2>2. CASE ~Passed(i, gu[t].tok[TypeOf[i]])
    <3>1. ty \in Types /\ gu[t].tok \in [Types -> Nat] /\ TypeOf[i] \in Types
      BY GetUpdatesLocals, TypeAssumption
    <3>2. gu'[t].tok = [gu[t].tok EXCEPT ![ty] = next]
      BY <1>1 DEF Answers
    <3>3. TypeOf[i] = ty /\ rows[i].mtime <= next
      BY <1>7, <2>2, <3>1, <3>2 DEF Passed
    <3>4. Stored(i) /\ ~HasSibling(i) /\ ~(rows[i].mtime <= gu[t].tok[ty])
      BY <1>7, <2>2, <3>3 DEF Passed
    <3>5. i \in Newer(ty, gu[t].tok[ty])
      BY <3>1, <3>3, <3>4, StoredRow DEF Newer, Row
    <3>6. CASE i \in P
      <4>1. UpdateOf(i) \in gu'[t].got
        BY <1>1, <3>6 DEF Answers
      <4>2. UpdateOf(i).id = i
        BY DEF UpdateOf
      <4> QED
        BY <4>1, <4>2
    <3>7. CASE i \notin P
      <4>1. PICK j \in P : rows[j].mtime = rows[i].mtime
        BY <1>1, <3>3, <3>5, <3>7 DEF Answers
      <4>2. j \in Ids /\ Stored(j) /\ TypeOf[j] = ty /\ j # i
        BY <1>1, <3>7 DEF Answers, Newer
      <4> QED
        BY <3>3, <3>4, <4>1, <4>2 DEF TiesAreSiblings
    <3> QED
      BY <3>6, <3>7
  <2> QED
    BY <2>1, <2>2
<1>8. ResponsesDeliver'
  BY <1>2, <1>7 DEF ResponsesDeliver, Passed, Delivered, Stored, HasSibling, GetUpdatesPoints, Dev
<1> QED
  BY <1>3, <1>4, <1>6, <1>8

\* The response brings all the rows its markers pass.
LEMMA ReplyKeepsDelivery ==
  ASSUME TypeOK, TypeOK', OneAtATime, DeliveryInv, NEW t \in Threads, ReplyGetUpdates(t)
  PROVE  DeliveryInv'
<1> USE DEF DeliveryInv
<1>1. /\ rows' = rows /\ KnowsMore /\ pc[t] = "markers" /\ OthersWait(t)
      /\ pc'[t] = "idle" /\ gu'[t].got = {}
  BY ReplyGetUpdatesTeaches, EndsEmpty
<1>2. \A u \in Threads : pc'[u] = "idle" /\ gu'[u].got = {}
  BY <1>1, OthersRest, RestingIsEmpty DEF GetUpdatesPoints
<1>3. FoldersAreDistinct' /\ GotIsCurrent' /\ ResponsesDeliver'
  BY <1>2 DEF FoldersAreDistinct, GotIsCurrent, ResponsesDeliver, GetUpdatesPoints
<1>4. TiesAreSiblings'
  BY <1>1 DEF TiesAreSiblings, Stored, HasSibling
<1>5. ASSUME NEW d \in Devices, NEW i \in Ids, Stored(i), Delivered(d, i)
      PROVE  Delivered(d, i)'
  <2>1. /\ known[d][i].version \in Nat /\ known'[d][i].version \in Nat
        /\ known'[d][i].version >= known[d][i].version
    BY <1>1 DEF KnowsMore, TypeOK, StateTypeOK, Known
  <2>2. rows[i].version \in Nat /\ known[d][i].version >= rows[i].version
    BY <1>5, StoredRow DEF Row, Delivered
  <2> QED
    BY <1>1, <2>1, <2>2 DEF Delivered
<1>6. CASE token' = token
  BY <1>1, <1>4, <1>5, <1>6, <1>3 DEF PassedAreDelivered, Passed, Stored, HasSibling
<1>7. CASE /\ token' = [token EXCEPT ![Dev(t)] = gu[t].tok]
           /\ \A u \in gu[t].got : \/ known'[Dev(t)][u.id].version >= u.version
                                   \/ \E v \in gu[t].got : v.id = u.id /\ v.version # u.version
  <2>1. ASSUME NEW i \in Ids, Passed(i, gu[t].tok[TypeOf[i]])
        PROVE  Delivered(Dev(t), i)'
    <3>1. CASE Delivered(Dev(t), i)
      BY <1>5, <2>1, <3>1, DevType DEF Passed, Delivered, Dev
    <3>2. CASE ~Delivered(Dev(t), i)
      <4>1. PICK u \in gu[t].got : u.id = i
        BY <1>1, <2>1, <3>2 DEF ResponsesDeliver, GetUpdatesPoints
      <4>2. \A v \in gu[t].got : v.version = rows[v.id].version
        BY DEF GotIsCurrent
      <4>3. known'[Dev(t)][i].version >= rows[i].version
        BY <1>7, <4>1, <4>2
      <4> QED
        BY <1>1, <4>3 DEF Delivered, Dev
    <3> QED
      BY <3>1, <3>2
  <2>2. ASSUME NEW d \in Devices, NEW i \in Ids, Passed(i, token'[d][TypeOf[i]])
        PROVE  Delivered(d, i)'
    <3>1. CASE d = Dev(t)
      <4>1. token'[d] = gu[t].tok
        BY <1>7, <3>1, DevType DEF TypeOK, StateTypeOK
      <4> QED
        BY <2>1, <2>2, <3>1, <4>1 DEF Delivered, Dev
    <3>2. CASE d # Dev(t)
      <4>1. token'[d] = token[d]
        BY <1>7, <3>2 DEF TypeOK, StateTypeOK
      <4> QED
        BY <1>5, <2>2, <4>1 DEF PassedAreDelivered, Passed
    <3> QED
      BY <3>1, <3>2
  <2>3. PassedAreDelivered'
    BY <1>1, <2>2 DEF PassedAreDelivered, Passed, Delivered, Stored, HasSibling
  <2> QED
    BY <1>3, <1>4, <2>3
<1> QED
  BY <1>6, <1>7, ReplyGetUpdatesTeaches

\* The folders of one type are siblings.
LEMMA InsertFoldersKeepsDelivery ==
  ASSUME TypeOK, TypeOK', OneAtATime, StampsAreLast, StampGap # 0, DeliveryInv,
         NEW t \in Threads, InsertFolders(t), ~Fail(t)
  PROVE  DeliveryInv'
<1> USE DEF DeliveryInv
<1> DEFINE R == gu[t].folders
<1>1. /\ known' = known /\ token' = token /\ gu' = gu /\ OthersWait(t)
      /\ pc[t] = "insertFolders" /\ pc'[t] = "markers"
      /\ rows' = [i \in Ids |-> IF i \in R THEN FolderRow(t) ELSE rows[i]]
      /\ \A i \in R : ~Stored(i)
  BY InsertFoldersWrites
<1>2. R \subseteq RootIds /\ R \in SUBSET Ids /\ gu[t].stamp \in Nat
  BY GetUpdatesLocals DEF GetUpdatesWork, RootIds
<1>3. \A u \in Threads \ {t} : pc'[u] = "idle" /\ gu[u].got = {}
  BY <1>1, OthersRest, RestingIsEmpty DEF GetUpdatesPoints
<1>4. TiesAreSiblings' /\ PassedAreDelivered'
  <2>1. /\ \A i \in R : rows'[i].mtime = gu[t].stamp
        /\ \A i \in Ids \ R : rows'[i] = rows[i]
    BY <1>1, <1>2 DEF FolderRow
  <2>2. \A i, j \in R : TypeOf[i] = TypeOf[j] => i = j \/ HasSibling(i)
    BY <1>1, <1>2 DEF FoldersAreDistinct, HasSibling
  <2>3. AllBefore(gu[t].stamp)
    BY <1>1 DEF StampsAreLast
  <2> HIDE DEF R, DeliveryInv
  <2> QED
    BY <1>1, <1>2, <2>1, <2>2, <2>3, NewRowsKeepDelivery
<1>5. FoldersAreDistinct'
  BY <1>1, <1>3 DEF FoldersAreDistinct
<1>6. GotIsCurrent'
  <2>1. \A u \in gu[t].got : u.id \in Ids /\ Stored(u.id) /\ u.version = rows[u.id].version
    BY GetUpdatesLocals DEF GotIsCurrent, Update
  <2>2. \A u \in gu[t].got : rows'[u.id] = rows[u.id]
    BY <1>1, <2>1
  <2> QED
    BY <1>1, <1>3, <2>1, <2>2 DEF GotIsCurrent, GetUpdatesPoints, Stored
<1>7. ASSUME NEW i \in Ids, Passed(i, gu[t].tok[TypeOf[i]])'
      PROVE  Delivered(Dev(t), i)' \/ \E u \in gu'[t].got : u.id = i
  <2>1. CASE i \in R
    <3>1. rows'[i].mtime = gu[t].stamp
      BY <1>1, <1>2, <2>1 DEF FolderRow
    <3>2. gu[t].tok[TypeOf[i]] \in Nat /\ gu[t].tok[TypeOf[i]] < gu[t].stamp
      BY <1>1, GetUpdatesLocals, TypeAssumption DEF StampsAreLast, AllBefore, Before
    <3> QED
      BY <1>1, <1>2, <1>7, <3>1, <3>2 DEF Passed
  <2>2. CASE i \notin R
    <3>1. rows'[i] = rows[i]
      BY <1>1, <2>2
    <3>2. Passed(i, gu[t].tok[TypeOf[i]])
      BY <1>1, <1>7, <3>1 DEF Passed, Stored, HasSibling
    <3> QED
      BY <1>1, <3>1, <3>2 DEF ResponsesDeliver, GetUpdatesPoints, Delivered, Dev
  <2> QED
    BY <2>1, <2>2
<1>8. ResponsesDeliver'
  BY <1>3, <1>7 DEF ResponsesDeliver, GetUpdatesPoints, Dev
<1> QED
  BY <1>4, <1>5, <1>6, <1>8

\* A response moves a marker only over rows it holds.
LEMMA GetUpdatesKeepsDelivery ==
  ASSUME TypeOK, TypeOK', OneAtATime, StampsAreLast, StampGap # 0, DeliveryInv,
         NEW t \in Threads, GetUpdatesStep(t)
  PROVE  DeliveryInv'
<1> USE DEF GetUpdatesPoints
<1>1. GetUpdatesKinds(t)
  BY GetUpdatesSplits
<1>2. pc[t] \in GetUpdatesPoints /\ pc[t] # "idle"
  BY GetUpdatesIsAlone
<1>3. known' = known => KnowsMore
  BY DEF KnowsMore, TypeOK, StateTypeOK, Known
<1>4. ASSUME rows' = rows, known' = known, token' = token, OthersWait(t),
             pc'[t] \in GetUpdatesPoints, gu'[t].tok = gu[t].tok, gu'[t].got = gu[t].got,
             pc'[t] = "insertFolders" =>
               \A i, j \in gu'[t].folders : TagOf[i] = TagOf[j] => i = j
      PROVE  DeliveryInv'
  <2>1. \A u \in Threads \ {t} : pc'[u] = "idle" /\ gu'[u].got = {}
    BY <1>2, <1>4, OthersRest, RestingIsEmpty DEF DeliveryInv
  <2> QED
    BY <1>2, <1>3, <1>4, <2>1, DeliveryKept
<1>5. CASE (CountDevices(t) /\ ~Fail(t)) \/ CheckFolders(t) \/ StartMarker(t)
  BY <1>4, <1>5, ReadingGoesOn DEF Still, AnswerGoesOn
<1>6. CASE MakeFolders(t)
  <2>1. \A i, j \in gu'[t].folders : TagOf[i] = TagOf[j] => i = j
    BY <1>6, MakeFoldersStamps DEF FolderIds
  <2> QED
    BY <1>4, <1>6, <2>1, MakeFoldersStamps
<1>7. CASE CacheToken(t)
  BY <1>4, <1>7, CacheTokenCaches
<1>8. CASE pc[t] \in GetUpdatesPoints /\ Fail(t)
  <2>1. \A u \in Threads : pc'[u] = "idle" /\ gu'[u].got = {}
    BY <1>2, <1>8, FailIsStill, EndsEmpty, OthersRest, RestingIsEmpty DEF DeliveryInv
  <2> QED
    BY <1>3, <1>8, <2>1, FailIsStill, DeliveryKept DEF Still
<1> QED
  BY <1>1, <1>5, <1>6, <1>7, <1>8, QueryTypeKeepsDelivery, ReplyKeepsDelivery,
     InsertFoldersKeepsDelivery
  DEF GetUpdatesKinds

\* At the start there are no rows.
LEMMA InitDeliveryInv ==
  ASSUME Init
  PROVE  DeliveryInv
BY DEF Init, StoreInit, NoGetUpdates, DeliveryInv, FoldersAreDistinct, TiesAreSiblings,
       PassedAreDelivered, Passed, GotIsCurrent, ResponsesDeliver, GetUpdatesPoints, Stored

\* As long as requests do not overlap and stamps differ.
LEMMA NextDeliveryInv ==
  ASSUME TypeOK, TypeOK', Serial, StampGap # 0, OneAtATime, StampsAreLast, DeliveryInv,
         [Next]_vars
  PROVE  DeliveryInv'
<1>1. known' = known => KnowsMore
  BY DEF KnowsMore, TypeOK, StateTypeOK, Known
<1>2. \A u \in Threads : pc[u] \notin GetUpdatesPoints => gu[u].got = {}
  BY RestingIsEmpty DEF DeliveryInv
<1>3. CASE Outside
  <2>1. CASE pc' = pc /\ cm' = cm /\ gu' = gu
    <3>1. \A u \in Threads : pc'[u] = "insertFolders" =>
            \A i, j \in gu'[u].folders : TagOf[i] = TagOf[j] => i = j
      BY <2>1 DEF DeliveryInv, FoldersAreDistinct
    <3> QED
      BY <1>1, <1>2, <1>3, <2>1, <3>1, OutsideRemoves, DeliveryKept
  <2>2. CASE \A t \in Threads : pc'[t] = "idle" /\ gu'[t] = NoGetUpdates
    <3>1. \A t \in Threads : pc'[t] = "idle" /\ gu'[t].got = {}
      BY <2>2 DEF NoGetUpdates
    <3> QED
      BY <1>1, <1>3, <3>1, OutsideRemoves, DeliveryKept DEF GetUpdatesPoints
  <2> QED
    BY <1>3, <2>1, <2>2, OutsideRemoves
<1>4. ASSUME NEW t \in Threads, Send(t)
      PROVE  DeliveryInv'
  <2>1. \A u \in Threads : pc[u] = "idle" /\ gu[u].got = {}
    BY <1>2, <1>4, SendIsAdmitted DEF GetUpdatesPoints
  <2>2. CASE SendCommit(t) \/ SendClear(t)
    <3>1. \A u \in Threads : pc'[u] \notin GetUpdatesPoints /\ gu'[u].got = {}
      BY <2>1, <2>2, SendCommitBegins, SendClearBegins DEF OthersWait, GetUpdatesPoints
    <3> QED
      BY <1>1, <2>2, <3>1, SendCommitBegins, SendClearBegins, DeliveryKept
      DEF Still, GetUpdatesPoints
  <2>3. CASE SendGetUpdates(t)
    <3>1. /\ Still /\ OthersWait(t) /\ pc'[t] \in {"devices", "markers"}
          /\ gu'[t].tok = token[Dev(t)] /\ gu'[t].got = {}
      BY <2>1, <2>3, SendGetUpdatesBegins
    <3>2. /\ rows' = rows /\ known' = known /\ token' = token
          /\ \A u \in Threads \ {t} : pc'[u] = "idle" /\ gu'[u].got = {}
      BY <2>1, <3>1 DEF Still, OthersWait
    <3>3. FoldersAreDistinct' /\ GotIsCurrent'
      BY <3>1, <3>2 DEF FoldersAreDistinct, GotIsCurrent
    <3>4. TiesAreSiblings' /\ PassedAreDelivered'
      BY <3>2 DEF DeliveryInv, TiesAreSiblings, PassedAreDelivered, Passed, Delivered,
                  Stored, HasSibling
    <3>5. \A i \in Ids : Passed(i, gu'[t].tok[TypeOf[i]]) => Delivered(Dev(t), i)
      BY <3>1, DevType DEF DeliveryInv, PassedAreDelivered
    <3>6. ResponsesDeliver'
      BY <3>2, <3>5 DEF ResponsesDeliver, Passed, Delivered, Stored, HasSibling,
                        GetUpdatesPoints, Dev
    <3> QED
      BY <3>3, <3>4, <3>6 DEF DeliveryInv
  <2> QED
    BY <1>4, <2>2, <2>3 DEF Send
<1>5. ASSUME NEW t \in Threads, ClearStep(t)
      PROVE  DeliveryInv'
  <2>1. /\ \A i \in Ids : rows'[i] \in {rows[i], NoRow}
        /\ known' = known /\ token' = token
        /\ OthersWait(t) /\ pc[t] \in ClearPoints /\ pc'[t] \in ClearPoints \cup {"idle"}
        /\ gu'[t].got \in {gu[t].got, {}}
    BY <1>5, ClearStepRemoves, EndsEmpty DEF ClearPoints
  <2>2. \A u \in Threads : pc'[u] \notin GetUpdatesPoints /\ gu'[u].got = {}
    BY <1>2, <2>1, OthersRest DEF ClearPoints, GetUpdatesPoints
  <2> QED
    BY <1>1, <2>1, <2>2, DeliveryKept DEF GetUpdatesPoints
<1> QED
  BY <1>3, <1>4, <1>5, CommitKeepsDelivery, GetUpdatesKeepsDelivery DEF Next, Step, Outside

\* If requests of a chain do not overlap, no two stamps are of one millisecond and the
\* wall clock is not set back, a
\* device has every row its marker passes, however its requests end and the process
\* restarts; only root folders of one type, which are stamped together, may be cut
\* from each other by the end of a page (handleGetUpdatesRequest, GetUpdatesForType).
THEOREM MarkersSkipNothing ==
  ASSUME Serial, StampGap # 0, ~ClockGoesBack
  PROVE  Spec => []PassedAreDelivered
<1>1. Init => ClearingInv /\ StampsAreLast /\ DeliveryInv
  BY InitClearingInv, InitStampsAreLast, InitDeliveryInv
<1>2. /\ TypeOK /\ TypeOK'
      /\ ClearingInv /\ StampsAreLast /\ DeliveryInv /\ [Next]_vars
      => (ClearingInv /\ StampsAreLast /\ DeliveryInv)'
  BY NextClearingInv, NextStampsAreLast, NextDeliveryInv DEF ClearingInv
<1>3. DeliveryInv => PassedAreDelivered
  BY DEF DeliveryInv
<1>4. Spec => []TypeOK
  BY TypeCorrect
<1> QED
  BY <1>1, <1>2, <1>3, <1>4, PTL DEF Spec

(* The cache ---------------------------------------------------------------- *)

\* The mtimes a commit has to cache.
SameMtimes(t) == \A ty \in Types : cm'[t].mtimes[ty] = cm[t].mtimes[ty]

\* Rows and keys only disappear, commits keep what they have to cache.
LEMMA CacheKept ==
  ASSUME TypeOK, CacheInv, CacheShrinks,
         \A i \in Ids : rows'[i] \in {rows[i], NoRow},
         \A t \in Threads :
           /\ SameMtimes(t)
           /\ pc'[t] \in CommitPoints \ {"count"} \/ CommittedTypes(t) = {}
           /\ gu'[t].cur = gu[t].cur \/ \A a, b \in gu'[t].cur : a = b
           /\ pc'[t] # "cacheSet" \/ (pc[t] = "cacheSet" /\ gu'[t] = gu[t])
  PROVE  CacheInv'
<1> USE DEF CacheInv
<1>1. \A i \in Ids : Stored(i)' => Stored(i) /\ rows'[i] = rows[i]
  BY DEF Stored
<1>2. \A t \in Threads : CommittedTypes(t)' = CommittedTypes(t)
  BY DEF SameMtimes, CommittedTypes
<1>3. MtimesAreLast'
  BY <1>1, TypeAssumption DEF MtimesAreLast, SameMtimes
<1>4. MtimesAreOfCommits'
  BY <1>2 DEF MtimesAreOfCommits
<1>5. AnswersAreFull'
  BY <1>1 DEF AnswersAreFull
<1>6. CachedAtLast'
  <2> SUFFICES ASSUME NEW i \in Ids, ByDevice(i)'
               PROVE  \/ typeMtime'[TypeOf[i]] = Miss
                      \/ rows'[i].mtime <= typeMtime'[TypeOf[i]]
                      \/ \E t \in Threads : TypeOf[i] \in CommittedTypes(t)'
    BY DEF CachedAtLast
  <2>1. ByDevice(i) /\ rows'[i] = rows[i]
    BY <1>1 DEF ByDevice
  <2>2. \/ typeMtime[TypeOf[i]] = Miss
        \/ rows[i].mtime <= typeMtime[TypeOf[i]]
        \/ \E t \in Threads : TypeOf[i] \in CommittedTypes(t)
    BY <2>1 DEF CachedAtLast
  <2> QED
    BY <1>2, <2>1, <2>2, TypeAssumption DEF CacheShrinks
<1> QED
  BY <1>3, <1>4, <1>5, <1>6

\* A commit caches the mtime of every type it has written before it ends.
LEMMA CommitKeepsCache ==
  ASSUME TypeOK, TypeOK', OneAtATime, StampsAreLast, CacheInv, NEW t \in Threads, CommitStep(t)
  PROVE  CacheInv'
<1> USE DEF CommitPoints
<1>1. CommitKinds(t)
  BY CommitSplits
<1>2. pc[t] \in CommitPoints \cup {"reply"} /\ pc[t] # "idle"
  BY CommitIsAlone
<1>3. \A u \in Threads : pc[u] \notin CommitPoints \ {"count"} => CommittedTypes(u) = {}
  BY DEF CacheInv, MtimesAreOfCommits
<1>4. ASSUME rows' = rows, CacheShrinks, OthersWait(t), SameMtimes(t),
             pc'[t] \in CommitPoints \ {"count"} \/ CommittedTypes(t) = {},
             gu'[t].cur \in {gu[t].cur, {}}, pc'[t] # "cacheSet"
      PROVE  CacheInv'
  <2>1. \A u \in Threads \ {t} : /\ pc[u] = "idle" /\ pc'[u] = "idle"
                                 /\ SameMtimes(u) /\ gu'[u].cur = gu[u].cur
                                 /\ CommittedTypes(u) = {}
    BY <1>2, <1>3, <1>4, OthersRest DEF SameMtimes
  <2> QED
    BY <1>4, <2>1, CacheKept
<1>5. CASE CommitCounts(t)
  BY <1>4, <1>5, CommitCountsGoesOn DEF Still, CommitGoesOn, CacheShrinks, SameMtimes
<1>6. CASE StartEntry(t)
  BY <1>4, <1>6, StartEntryStamps DEF CacheShrinks, SameMtimes, Unwritten
<1>7. CASE FlushCounts(t)
  BY <1>4, <1>7, FlushCountsGoesOn DEF Still, CacheShrinks, SameMtimes
<1>8. CASE ReplyCommit(t) \/ (At(t, "count") /\ Fail(t))
  <2>1. /\ rows' = rows /\ typeMtime' = typeMtime /\ Finish(t) /\ CommittedTypes(t) = {}
    BY <1>3, <1>8, ReplyCommitTeaches, FailIsStill DEF Still, At
  <2>2. OthersWait(t) /\ pc'[t] = "idle" /\ CommittedTypes(t)' = {} /\ gu'[t].cur = {}
    BY <2>1, EndsEmpty
  <2>3. SameMtimes(t)
    BY <2>1, <2>2 DEF SameMtimes, CommittedTypes
  <2> QED
    BY <1>4, <2>1, <2>2, <2>3 DEF CacheShrinks
<1>9. CASE SaveMtime(t)
  <2>1. /\ rows' = rows /\ gu' = gu /\ OthersWait(t) /\ pc' = pc /\ pc[t] = "setMtime"
    BY <1>9, SaveMtimeCaches
  <2>2. PICK ty \in CommittedTypes(t) :
          /\ typeMtime' = [typeMtime EXCEPT ![ty] = cm[t].mtimes[ty]]
          /\ cm'[t].mtimes = [cm[t].mtimes EXCEPT ![ty] = Miss]
    BY <1>9, SaveMtimeCaches
  <2>3. /\ ty \in Types /\ cm[t].mtimes[ty] # Miss
        /\ typeMtime'[ty] = cm[t].mtimes[ty] /\ cm'[t].mtimes[ty] = Miss
        /\ \A uy \in Types \ {ty} : /\ typeMtime'[uy] = typeMtime[uy]
                                    /\ cm'[t].mtimes[uy] = cm[t].mtimes[uy]
    BY <2>2, CommitLocals DEF CommittedTypes, TypeOK, CacheTypeOK, CommitWork
  <2>4. \A u \in Threads \ {t} : pc[u] = "idle" /\ cm'[u] = cm[u] /\ CommittedTypes(u) = {}
    BY <1>2, <1>3, <2>1, OthersRest
  <2>5. MtimesAreLast'
    BY <2>1, <2>3, <2>4, TypeAssumption DEF CacheInv, MtimesAreLast, Stored
  <2>6. MtimesAreOfCommits'
    BY <2>1, <2>4 DEF MtimesAreOfCommits, CommittedTypes
  <2>7. AnswersAreFull'
    BY <2>1 DEF CacheInv, AnswersAreFull, Stored
  <2>8. CachedAtLast'
    <3> SUFFICES ASSUME NEW i \in Ids, ByDevice(i)
                 PROVE  \/ typeMtime'[TypeOf[i]] = Miss
                        \/ rows[i].mtime <= typeMtime'[TypeOf[i]]
                        \/ TypeOf[i] \in CommittedTypes(t)'
      BY <2>1 DEF CachedAtLast, ByDevice, Stored
    <3>1. CASE TypeOf[i] = ty
      BY <2>3, <3>1 DEF CacheInv, MtimesAreLast, ByDevice
    <3>2. CASE TypeOf[i] # ty
      BY <2>3, <2>4, <3>2, TypeAssumption DEF CacheInv, CachedAtLast, CommittedTypes
    <3> QED
      BY <3>1, <3>2
  <2> QED
    BY <2>5, <2>6, <2>7, <2>8 DEF CacheInv
<1>10. CASE \/ PretendStored(t)
            \/ InsertEntry(t)
            \/ UpdateEntry(t) /\ ~(EntryFails(t) /\ UNCHANGED storeVars)
  <2>1. PICK e \in cm[t].cur : Succeeds(t, e)
    BY <1>10, SuccessWrites
  <2>2. e.id \in Ids /\ TypeOf[e.id] \in Types /\ cm[t].stamp \in Nat
    BY CommitLocals, TypeAssumption DEF Entry
  <2>3. /\ typeMtime' = typeMtime /\ gu' = gu /\ OthersWait(t)
        /\ pc[t] \in Unwritten /\ pc'[t] \in {"entries", "countUp", "countDown"}
        /\ cm'[t].mtimes[TypeOf[e.id]] = cm[t].stamp
        /\ \A uy \in Types \ {TypeOf[e.id]} : cm'[t].mtimes[uy] = cm[t].mtimes[uy]
    BY <2>1, <2>2, CommitLocals DEF Succeeds, CommitWork
  <2>4. \A u \in Threads \ {t} : /\ pc[u] = "idle" /\ pc'[u] = "idle" /\ cm'[u] = cm[u]
                                 /\ CommittedTypes(u) = {}
    BY <1>2, <1>3, <2>3, OthersRest
  <2>5. \A i \in Ids : Stored(i)' => \/ Stored(i) /\ rows'[i] = rows[i]
                                     \/ i = e.id /\ rows'[i].mtime = cm[t].stamp
    <3>1. CASE rows' = rows
      BY <3>1 DEF Stored
    <3>2. CASE rows' = [rows EXCEPT ![e.id] = RowFor(t, e)]
      BY <3>2 DEF RowFor, Stored, TypeOK, StoreTypeOK
    <3> QED
      BY <2>1, <3>1, <3>2 DEF Succeeds
  <2>6. \A i \in Ids : Stored(i) => rows[i].mtime \in Nat /\ rows[i].mtime <= cm[t].stamp
    BY <2>2, <2>3, StoredRow DEF Row, StampsAreLast, AllBefore, Before
  <2>7. \A u \in Threads : CommittedTypes(u) \subseteq CommittedTypes(u)'
    BY <2>2, <2>3, <2>4 DEF CommittedTypes, Miss
  <2>8. TypeOf[e.id] \in CommittedTypes(t)'
    BY <2>2, <2>3 DEF CommittedTypes, Miss
  <2>9. MtimesAreLast'
    <3> SUFFICES ASSUME NEW u \in Threads, NEW i \in Ids, Stored(i)',
                        cm'[u].mtimes[TypeOf[i]] # Miss
                 PROVE  rows'[i].mtime <= cm'[u].mtimes[TypeOf[i]]
      BY DEF MtimesAreLast
    <3>1. u = t
      BY <2>4, TypeAssumption DEF CommittedTypes
    <3>2. CASE TypeOf[i] = TypeOf[e.id]
      BY <2>2, <2>3, <2>5, <2>6, <3>1, <3>2
    <3>3. CASE TypeOf[i] # TypeOf[e.id]
      BY <2>3, <2>5, <3>1, <3>3, TypeAssumption DEF CacheInv, MtimesAreLast
    <3> QED
      BY <3>2, <3>3
  <2>10. MtimesAreOfCommits'
    BY <2>3, <2>4 DEF MtimesAreOfCommits, CommittedTypes
  <2>11. AnswersAreFull'
    BY <2>3, <2>4 DEF CacheInv, AnswersAreFull
  <2>12. CachedAtLast'
    <3> SUFFICES ASSUME NEW i \in Ids, ByDevice(i)'
                 PROVE  \/ typeMtime[TypeOf[i]] = Miss
                        \/ rows'[i].mtime <= typeMtime[TypeOf[i]]
                        \/ \E u \in Threads : TypeOf[i] \in CommittedTypes(u)'
      BY <2>3 DEF CachedAtLast
    <3>1. CASE i = e.id
      BY <2>8, <3>1
    <3>2. CASE i # e.id
      BY <2>5, <2>7, <3>2 DEF CacheInv, CachedAtLast, ByDevice
    <3> QED
      BY <3>1, <3>2
  <2> QED
    BY <2>9, <2>10, <2>11, <2>12 DEF CacheInv
<1> QED
  BY <1>1, <1>5, <1>6, <1>7, <1>8, <1>9, <1>10 DEF CommitKinds

\* A response caches a marker only after a full answer.
LEMMA GetUpdatesKeepsCache ==
  ASSUME TypeOK, TypeOK', OneAtATime, CacheInv, NEW t \in Threads, GetUpdatesStep(t)
  PROVE  CacheInv'
<1> USE DEF GetUpdatesPoints, CommitPoints
<1>1. GetUpdatesKinds(t)
  BY GetUpdatesSplits
<1>2. pc[t] \in GetUpdatesPoints /\ pc[t] # "idle"
  BY GetUpdatesIsAlone
<1>3. \A u \in Threads : CommittedTypes(u) = {}
  BY <1>2, OthersAreIdle DEF CacheInv, MtimesAreOfCommits
<1>4. ASSUME rows' = rows, CacheShrinks, OthersWait(t), SameMtimes(t),
             gu'[t].cur = gu[t].cur \/ \A a, b \in gu'[t].cur : a = b, pc'[t] # "cacheSet"
      PROVE  CacheInv'
  <2>1. \A u \in Threads \ {t} : pc'[u] = "idle" /\ SameMtimes(u) /\ gu'[u].cur = gu[u].cur
    BY <1>2, <1>4, OthersRest DEF SameMtimes
  <2> QED
    BY <1>3, <1>4, <2>1, CacheKept
<1>5. CASE (CountDevices(t) /\ ~Fail(t)) \/ CheckFolders(t) \/ StartMarker(t)
  BY <1>4, <1>5, ReadingGoesOn DEF Still, AnswerGoesOn, CacheShrinks, SameMtimes
<1>6. CASE MakeFolders(t)
  BY <1>4, <1>6, MakeFoldersStamps DEF CacheShrinks, SameMtimes
<1>7. CASE ReplyGetUpdates(t) \/ (pc[t] \in GetUpdatesPoints /\ Fail(t))
  <2>1. rows' = rows /\ typeMtime' = typeMtime /\ Finish(t)
    BY <1>7, ReplyGetUpdatesTeaches, FailIsStill DEF Still
  <2>2. OthersWait(t) /\ pc'[t] = "idle" /\ CommittedTypes(t)' = {} /\ gu'[t].cur = {}
    BY <2>1, EndsEmpty
  <2>3. SameMtimes(t)
    BY <1>3, <2>2 DEF SameMtimes, CommittedTypes
  <2> QED
    BY <1>4, <2>1, <2>2, <2>3 DEF CacheShrinks
<1>8. CASE InsertFolders(t) /\ ~Fail(t)
  <2>1. /\ typeMtime' = typeMtime /\ cm' = cm /\ gu' = gu /\ OthersWait(t)
        /\ pc'[t] = "markers"
        /\ \A i \in Ids : \/ rows'[i] = rows[i]
                          \/ rows'[i].by = Server
    BY <1>8, InsertFoldersWrites DEF FolderRow
  <2>2. MtimesAreLast'
    BY <1>3, <2>1, TypeAssumption DEF MtimesAreLast, CommittedTypes
  <2>3. MtimesAreOfCommits'
    BY <1>3, <2>1 DEF MtimesAreOfCommits, CommittedTypes
  <2>4. AnswersAreFull'
    BY <1>2, <2>1, OthersRest DEF CacheInv, AnswersAreFull
  <2>5. CachedAtLast'
    BY <2>1 DEF CacheInv, CachedAtLast, ByDevice, CommittedTypes, Stored
  <2> QED
    BY <2>2, <2>3, <2>4, <2>5 DEF CacheInv
<1>9. CASE QueryType(t) /\ ~Fail(t)
  <2>1. PICK ty \in gu[t].cur, P \in SUBSET Ids, next \in Nat : Answers(t, ty, P, next)
    BY <1>9, QueryTypeReads
  <2>2. /\ rows' = rows /\ typeMtime' = typeMtime /\ cm' = cm /\ OthersWait(t)
        /\ gu'[t].cur = gu[t].cur
    BY <1>9, QueryTypeReads DEF Still
  <2>3. \A a \in gu[t].cur : a = ty
    BY DEF CacheInv, AnswersAreFull
  <2>4. ASSUME pc'[t] = "cacheSet", NEW i \in Ids, Stored(i), TypeOf[i] = ty
        PROVE  rows[i].mtime <= gu'[t].tok[ty]
    <3>1. /\ ty \in Types /\ gu[t].tok \in [Types -> Nat] /\ rows[i].mtime \in Nat
      BY <2>4, GetUpdatesLocals, StoredRow DEF Row
    <3>2. gu'[t].tok[ty] = next /\ next >= gu[t].tok[ty]
      BY <2>1, <3>1 DEF Answers
    <3>3. CASE rows[i].mtime <= gu[t].tok[ty]
      BY <3>1, <3>2, <3>3
    <3>4. CASE ~(rows[i].mtime <= gu[t].tok[ty])
      <4>1. i \in Newer(ty, gu[t].tok[ty])
        BY <2>4, <3>1, <3>4 DEF Newer
      <4> QED
        BY <2>1, <2>4, <3>2, <4>1 DEF Answers
    <3> QED
      BY <3>3, <3>4
  <2>5. AnswersAreFull'
    <3>1. \A u \in Threads \ {t} : pc'[u] = "idle" /\ gu'[u] = gu[u]
      BY <1>2, <2>2, OthersRest
    <3>2. \A u \in Threads : \A a, b \in gu'[u].cur : a = b
      BY <2>2, <3>1 DEF CacheInv, AnswersAreFull
    <3>3. pc'[t] = "cacheSet" => \A i \in Ids :
            Stored(i) /\ TypeOf[i] \in gu'[t].cur => rows[i].mtime <= gu'[t].tok[TypeOf[i]]
      BY <2>2, <2>3, <2>4
    <3> QED
      BY <2>2, <3>1, <3>2, <3>3 DEF AnswersAreFull, Stored
  <2>6. MtimesAreLast' /\ MtimesAreOfCommits' /\ CachedAtLast'
    BY <1>3, <2>2, TypeAssumption
    DEF CacheInv, MtimesAreLast, MtimesAreOfCommits, CachedAtLast, CommittedTypes, ByDevice, Stored
  <2> QED
    BY <2>5, <2>6 DEF CacheInv
<1>10. CASE CacheToken(t)
  <2>1. /\ rows' = rows /\ cm' = cm /\ gu' = gu /\ OthersWait(t)
        /\ pc[t] = "cacheSet" /\ pc'[t] = "markers"
    BY <1>10, CacheTokenCaches
  <2>2. PICK ty \in gu[t].cur : typeMtime' = [typeMtime EXCEPT ![ty] = gu[t].tok[ty]]
    BY <1>10, CacheTokenCaches
  <2>3. /\ typeMtime'[ty] = gu[t].tok[ty]
        /\ \A uy \in Types \ {ty} : typeMtime'[uy] = typeMtime[uy]
    BY <2>2, GetUpdatesLocals DEF TypeOK, CacheTypeOK
  <2>4. CachedAtLast'
    <3> SUFFICES ASSUME NEW i \in Ids, ByDevice(i)
                 PROVE  \/ typeMtime'[TypeOf[i]] = Miss
                        \/ rows[i].mtime <= typeMtime'[TypeOf[i]]
      BY <2>1 DEF CachedAtLast, ByDevice, Stored
    <3>1. CASE TypeOf[i] = ty
      BY <2>1, <2>3, <3>1 DEF CacheInv, AnswersAreFull, ByDevice
    <3>2. CASE TypeOf[i] # ty
      BY <1>3, <2>3, <3>2, TypeAssumption DEF CacheInv, CachedAtLast
    <3> QED
      BY <3>1, <3>2
  <2>5. MtimesAreLast' /\ MtimesAreOfCommits' /\ AnswersAreFull'
    BY <1>2, <1>3, <2>1, OthersRest
    DEF CacheInv, MtimesAreLast, MtimesAreOfCommits, AnswersAreFull, CommittedTypes, Stored
  <2> QED
    BY <2>4, <2>5 DEF CacheInv
<1> QED
  BY <1>1, <1>5, <1>6, <1>7, <1>8, <1>9, <1>10 DEF GetUpdatesKinds

\* At the start there are no rows.
LEMMA InitCacheInv ==
  ASSUME Init
  PROVE  CacheInv
BY DEF Init, StoreInit, NoCommit, NoGetUpdates, CacheInv, MtimesAreLast, MtimesAreOfCommits,
       CommittedTypes, AnswersAreFull, CachedAtLast, ByDevice, Stored

\* As long as requests do not overlap.
LEMMA NextCacheInv ==
  ASSUME TypeOK, TypeOK', Serial, OneAtATime, StampsAreLast, CacheInv, [Next]_vars
  PROVE  CacheInv'
<1>1. \A u \in Threads : pc[u] \notin CommitPoints \ {"count"} => CommittedTypes(u) = {}
  BY DEF CacheInv, MtimesAreOfCommits
<1>2. CASE Outside
  <2>1. CASE pc' = pc /\ cm' = cm /\ gu' = gu
    BY <1>1, <1>2, <2>1, OutsideRemoves, CacheKept DEF SameMtimes
  <2>2. CASE /\ \A t \in Threads : pc'[t] = "idle" /\ cm'[t] = NoCommit /\ gu'[t] = NoGetUpdates
             /\ \A ty \in Types : typeMtime'[ty] = Miss
    BY <2>2, TypeAssumption
    DEF NoCommit, NoGetUpdates, CacheInv, MtimesAreLast, MtimesAreOfCommits, CommittedTypes,
        AnswersAreFull, CachedAtLast, ByDevice, Stored
  <2> QED
    BY <1>2, <2>1, <2>2, OutsideRemoves
<1>3. ASSUME NEW t \in Threads, Send(t)
      PROVE  CacheInv'
  <2>1. /\ Still /\ OthersWait(t) /\ pc'[t] # "cacheSet"
        /\ SameMtimes(t) /\ gu'[t].cur = gu[t].cur
    BY <1>3, SendCommitBegins, SendGetUpdatesBegins, SendClearBegins DEF Send, SameMtimes
  <2>2. \A u \in Threads : /\ SameMtimes(u) /\ CommittedTypes(u) = {} /\ pc'[u] # "cacheSet"
                           /\ gu'[u].cur = gu[u].cur
    BY <1>1, <1>3, <2>1, SendIsAdmitted DEF OthersWait, SameMtimes, CommitPoints
  <2> QED
    BY <2>1, <2>2, CacheKept DEF Still, CacheShrinks
<1>4. ASSUME NEW t \in Threads, ClearStep(t)
      PROVE  CacheInv'
  <2>1. /\ \A i \in Ids : rows'[i] \in {rows[i], NoRow}
        /\ CacheShrinks /\ OthersWait(t) /\ pc[t] \in ClearPoints
        /\ \/ pc'[t] \in ClearPoints /\ cm' = cm /\ gu' = gu
           \/ pc'[t] = "idle" /\ CommittedTypes(t)' = {} /\ gu'[t].cur = {}
    BY <1>4, ClearStepRemoves, EndsEmpty
  <2>2. \A u \in Threads : CommittedTypes(u) = {} /\ (u # t => pc'[u] = "idle")
    BY <1>1, <2>1, OthersRest, OthersAreIdle DEF ClearPoints, CommitPoints
  <2>3. \A u \in Threads : SameMtimes(u) /\ pc'[u] # "cacheSet"
                           /\ (gu'[u].cur = gu[u].cur \/ gu'[u].cur = {})
    BY <2>1, <2>2 DEF OthersWait, SameMtimes, CommittedTypes, ClearPoints
  <2> QED
    BY <2>1, <2>2, <2>3, CacheKept
<1> QED
  BY <1>2, <1>3, <1>4, CommitKeepsCache, GetUpdatesKeepsCache DEF Next, Step, Outside

\* The invariants about the cache hold in every reachable state.
LEMMA CacheIsRight ==
  ASSUME Serial, ~ClockGoesBack
  PROVE  Spec => [](TypeOK /\ ClearingInv /\ StampsAreLast /\ CacheInv)
<1>1. Init => ClearingInv /\ StampsAreLast /\ CacheInv
  BY InitClearingInv, InitStampsAreLast, InitCacheInv
<1>2. /\ TypeOK /\ TypeOK'
      /\ ClearingInv /\ StampsAreLast /\ CacheInv /\ [Next]_vars
      => (ClearingInv /\ StampsAreLast /\ CacheInv)'
  BY NextClearingInv, NextStampsAreLast, NextCacheInv DEF ClearingInv
<1>3. Spec => []TypeOK
  BY TypeCorrect
<1> QED
  BY <1>1, <1>2, <1>3, PTL DEF Spec

\* If requests of a chain do not overlap and the wall clock is not set back, no poll is told to read nothing while a row
\* that a device committed waits (IsTypeMtimeUpdated), whatever failed, expired or was
\* restarted before; the root folders are left out, whose mtime nobody caches.
THEOREM CacheCoversDevices ==
  ASSUME Serial, ~ClockGoesBack
  PROVE  Spec => []CacheCoversCommits
<1>1. CacheInv => CacheCoversCommits
  BY DEF CacheInv, CacheCoversCommits, CachedAtLast, MtimesAreOfCommits, Quiet, At, CommitPoints
<1> QED
  BY <1>1, CacheIsRight, PTL
=============================================================================
