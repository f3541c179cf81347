--------------------------- MODULE ServerInvariants ---------------------------
(***************************************************************************)
(* The inductive invariants behind the properties of SyncServer.           *)
(* VersionsInv: why a version number a device holds, a handler carries or  *)
(* a response reports never stands for two contents of a versioned entity. *)
(* TagsInv: why the tag table is an exact index of the live entities.      *)
(* ChainInv: what the refinement of SyncChain needs beside them.           *)
(* FirmAreStored: why most of what is acknowledged is in the store.        *)
(* When requests do not overlap:                                           *)
(* StampsAreLast: why what is written is newer than all there is.          *)
(* DeliveryInv: why a progress marker passes no row it has not delivered.  *)
(* CacheInv: why the cached mtimes cover the rows of the devices.          *)
(* CountInv: why the item counts are exact and the quotas hold.            *)
(***************************************************************************)
EXTENDS SyncServer

(* Uuids that are drawn and not written yet --------------------------------*)

\* Entities the commit of t is still to create, and the one it creates now.
ToCreate(t) == {e.id : e \in {f \in cm[t].todo : Versioned(f.id) /\ f.base = 0}}
Creating(t) ==
  IF pc[t] = "create" THEN {e.id : e \in {f \in cm[t].cur : Versioned(f.id)}} ELSE {}
ToPlant(t) == IF pc[t] = "insertFolders" THEN gu[t].folders ELSE {}

Drawn(t) == ToCreate(t) \cup Creating(t) \cup ToPlant(t)

\* Nobody has heard of i.
Blank(i) ==
  /\ ~Stored(i)
  /\ \A d \in Devices : known[d][i].version = 0
  /\ \A t \in Threads : /\ \A a \in cm[t].acks : a.id # i
                        /\ \A u \in gu[t].got : u.id # i

\* A uuid is drawn once, and nobody has heard of it before it is written.
DrawnOnce ==
  /\ \A t, u \in Threads : t # u => Drawn(t) \cap Drawn(u) = {}
  /\ \A t \in Threads :
       /\ ToCreate(t) \cap Creating(t) = {}
       /\ ToCreate(t) \cap ToPlant(t) = {}
       /\ \A e, f \in cm[t].todo : e.id = f.id => e = f
DrawnIsUsed == \A t \in Threads : Drawn(t) \subseteq {i \in used : Versioned(i)}
DrawnIsBlank == \A t \in Threads : \A i \in Drawn(t) : Blank(i)
UnusedIsBlank == \A i \in Ids : Versioned(i) /\ i \notin used => Blank(i)

(* What responses under way will tell --------------------------------------*)

\* version, deleted and by are the row's, or those of an older version of it.
Agrees(i, version, deleted, by) ==
  Stored(i) =>
    /\ version <= rows[i].version
    /\ version = rows[i].version => deleted = rows[i].deleted /\ by = rows[i].by

AcksAgree ==
  \A t \in Threads : \A a \in cm[t].acks :
    Versioned(a.id) => Agrees(a.id, a.version, a.deleted, Dev(t))
UpdatesAgree ==
  \A t \in Threads : \A u \in gu[t].got :
    Versioned(u.id) => Agrees(u.id, u.version, u.deleted, u.by)

(* What commits under way are based on -------------------------------------*)

\* The device knows the version the entry is based on, or a newer one.
Based(d, e) ==
  /\ e.base <= known[d][e.id].version
  /\ ~EditTombstones /\ e.base = known[d][e.id].version => ~known[d][e.id].deleted

BasesKnown ==
  \A t \in Threads :
    /\ \A e \in cm[t].todo : Versioned(e.id) /\ e.base # 0 => Based(Dev(t), e)
    /\ \A e \in cm[t].cur : Versioned(e.id) /\ pc[t] = "update" => Based(Dev(t), e)

\* The calls before an entry is written.
Unwritten == {"hasItem", "create", "update"}

\* An entry is stamped later than the version it is based on.
StampsGrow ==
  /\ clock >= 1
  /\ \A t \in Threads :
       /\ \A e \in cm[t].todo : e.base < clock
       /\ pc[t] \in Unwritten => \A e \in cm[t].cur : e.base < cm[t].stamp

\* Only history items are looked up by their tag.
LookedUp == \A t \in Threads : pc[t] = "hasItem" => \A e \in cm[t].cur : ~Versioned(e.id)

\* The inductive invariant: commits, acknowledgements and updates under way carry
\* only versions that agree with the rows, and fresh uuids are unheard of.
VersionsInv ==
  /\ DrawnOnce
  /\ DrawnIsUsed
  /\ DrawnIsBlank
  /\ UnusedIsBlank
  /\ KnownVersionsAgree
  /\ AcksAgree
  /\ UpdatesAgree
  /\ BasesKnown
  /\ StampsGrow
  /\ LookedUp

(* Unique tags under way ---------------------------------------------------*)

\* What a commit creates is not deleted and is no root folder.
NewAreLive ==
  \A t \in Threads :
    /\ \A e \in cm[t].todo :
         Versioned(e.id) /\ e.base = 0 => ~e.deleted /\ TagOf[e.id] \notin ServerTags
    /\ pc[t] = "create" => \A e \in cm[t].cur :
         Versioned(e.id) => ~e.deleted /\ TagOf[e.id] \notin ServerTags

\* The folders of a request have every server tag, each once.
FoldersAreComplete ==
  \A t \in Threads : pc[t] = "insertFolders" =>
    /\ ServerTags = {TagOf[i] : i \in gu[t].folders}
    /\ \A i, j \in gu[t].folders : TagOf[i] = TagOf[j] => i = j

\* The inductive invariant behind TagsUnique and FoldersAllOrNone, given VersionsInv.
TagsInv ==
  /\ TagsUnique
  /\ FoldersAllOrNone
  /\ NewAreLive
  /\ FoldersAreComplete

(* What the abstract chain needs beside them -------------------------------*)

\* History items are never deleted one by one.
HistoryStaysLive ==
  \A t \in Threads :
    /\ \A e \in cm[t].todo : ~Versioned(e.id) => ~e.deleted
    /\ pc[t] \in Unwritten => \A e \in cm[t].cur : ~Versioned(e.id) => ~e.deleted

\* A clear has disabled the chain before it reads or deletes anything.
ClearingIsDisabled == \A t \in Threads : pc[t] \in {"scan", "wipe"} => disabled

ChainInv == HistoryStaysLive /\ ClearingIsDisabled

(* Acknowledged commits ----------------------------------------------------*)

\* No other entity has the client tag of i.
TagIsOwn(i) == \A j \in Ids : TagOf[j] = TagOf[i] /\ ClientTagRow(i) # {} => j = i

\* Entities that neither the quota of history items nor another entity's tag keeps from
\* being stored when their commit is answered SUCCESS.
Firm(i) == ~HistoryRelated(i) /\ TagIsOwn(i)

\* A tag is taken because a row was stored, which may be a tombstone by now.
TagsHaveRows ==
  ~disabled => \A tag \in tagRows : \E i \in Ids : Stored(i) /\ TagOf[i] = tag

\* The inductive invariant behind AckedIsStored: whoever heard of one of them, heard
\* of a row.
FirmAreStored ==
  /\ TagsHaveRows
  /\ ~disabled => \A i \in Ids : Firm(i) => Stored(i) \/ Blank(i)

\* AckedIsStored for these entities.
FirmAcksAreStored ==
  ~disabled => \A d \in Devices, i \in Ids :
    Firm(i) /\ known[d][i].version > 0 => Stored(i)

(* Delivery, when requests do not overlap ----------------------------------*)

\* x is of an earlier millisecond than y, or of the same one if stamps share them.
Before(x, y) == x < y \/ (StampGap = 0 /\ x = y)

\* All markers and rows are older than y.
AllBefore(y) ==
  /\ \A d \in Devices, ty \in Types : Before(token[d][ty], y)
  /\ \A t \in Threads, ty \in Types : Before(gu[t].tok[ty], y)
  /\ \A i \in Ids : Stored(i) => Before(rows[i].mtime, y)

\* What is about to be written will be newer than all there is.
StampsAreLast ==
  /\ AllBefore(clock)
  /\ \A t \in Threads :
       /\ pc[t] \in Unwritten => AllBefore(cm[t].stamp) /\ Before(cm[t].stamp, clock)
       /\ pc[t] = "insertFolders" => AllBefore(gu[t].stamp) /\ Before(gu[t].stamp, clock)

\* A root folder whose type has others, which are made in the same millisecond.
HasSibling(i) ==
  i \in RootIds /\ \E j \in RootIds : TypeOf[j] = TypeOf[i] /\ TagOf[j] # TagOf[i]

FoldersAreDistinct ==
  \A t \in Threads : pc[t] = "insertFolders" =>
    \A i, j \in gu[t].folders : TagOf[i] = TagOf[j] => i = j

\* Only siblings share an mtime, so that no page ends between two others.
TiesAreSiblings ==
  \A i, j \in Ids :
    Stored(i) /\ Stored(j) /\ TypeOf[i] = TypeOf[j] /\ rows[i].mtime = rows[j].mtime =>
      i = j \/ HasSibling(i)

\* i will not be returned to a marker at m, and no page ends between it and another row.
Passed(i, m) == Stored(i) /\ ~HasSibling(i) /\ rows[i].mtime <= m

\* A device has received every row up to its progress marker (QueryType, CacheToken), but
\* for siblings, which the end of a page may cut from each other: GetUpdatesForType will
\* not return them again.
PassedAreDelivered ==
  \A d \in Devices, i \in Ids : Passed(i, token[d][TypeOf[i]]) => Delivered(d, i)

\* What a response has collected is what the rows say until it is sent.
GotIsCurrent ==
  \A t \in Threads : \A u \in gu[t].got :
    pc[t] \in GetUpdatesPoints /\ Stored(u.id) /\ u.version = rows[u.id].version

ResponsesDeliver ==
  \A t \in Threads : pc[t] \in GetUpdatesPoints =>
    \A i \in Ids : Passed(i, gu[t].tok[TypeOf[i]]) =>
      Delivered(Dev(t), i) \/ \E u \in gu[t].got : u.id = i

\* The inductive invariant behind PassedAreDelivered.
DeliveryInv ==
  /\ FoldersAreDistinct
  /\ TiesAreSiblings
  /\ PassedAreDelivered
  /\ GotIsCurrent
  /\ ResponsesDeliver

(* The cache, when requests do not overlap ---------------------------------*)

\* The mtimes a commit will cache are those of the last rows of their types.
MtimesAreLast ==
  \A t \in Threads, i \in Ids :
    Stored(i) /\ cm[t].mtimes[TypeOf[i]] # Miss => rows[i].mtime <= cm[t].mtimes[TypeOf[i]]

\* Only a commit that has read its counts has mtimes.
MtimesAreOfCommits ==
  \A t \in Threads : pc[t] \notin CommitPoints \ {"count"} => CommittedTypes(t) = {}

\* The marker in hand is one, and if it will be cached, covers the rows of its type.
AnswersAreFull ==
  \A t \in Threads :
    /\ \A a, b \in gu[t].cur : a = b
    /\ pc[t] = "cacheSet" => \A i \in Ids :
         Stored(i) /\ TypeOf[i] \in gu[t].cur => rows[i].mtime <= gu[t].tok[TypeOf[i]]

\* The server writes the root folders without caching their mtime.
ByDevice(i) == Stored(i) /\ rows[i].by # Server

\* A row of a device is covered by the cache, or will be when its commit ends.
CachedAtLast ==
  \A i \in Ids : ByDevice(i) =>
    \/ typeMtime[TypeOf[i]] = Miss
    \/ rows[i].mtime <= typeMtime[TypeOf[i]]
    \/ \E t \in Threads : TypeOf[i] \in CommittedTypes(t)

\* The inductive invariant behind CacheCoversCommits.
CacheInv ==
  /\ MtimesAreLast
  /\ MtimesAreOfCommits
  /\ AnswersAreFull
  /\ CachedAtLast

\* Between requests, a cached mtime is at least that of every row of its type that a
\* device has written, so that IsTypeMtimeUpdated never tells a poll of a stale client to
\* read nothing.  (The mtime of a root folder is cached by nobody.)
CacheCoversCommits ==
  Quiet => \A i \in Ids :
    ByDevice(i) /\ typeMtime[TypeOf[i]] # Miss => rows[i].mtime <= typeMtime[TypeOf[i]]

(* Counts, when requests do not overlap ------------------------------------*)

\* The calls of a commit while its copies of the counts are ahead of the table.
CountingPoints == CommitPoints \ {"count", "peekNormal", "peekHistory"}

\* What t has written and not counted yet.
Uncounted(t, c) ==
  LET cur == {e \in cm[t].cur : CounterOf(e.id) = c} IN
  IF pc[t] = "countUp" /\ cur # {} THEN 1
  ELSE IF pc[t] = "countDown" /\ cur # {} THEN -1
  ELSE 0

\* The part of an interim counter that t has not taken from the cache.
Undrained(t, c) ==
  IF pc[t] = "setMtime" \/ (pc[t] = "drainHistory" /\ c = "normal") THEN 0 ELSE cm[t].fresh[c]

\* What is counted is what there is: in the table, or while a commit works on the
\* entries, in its copies and in the interim counters.
CountsAgree ==
  ~disabled => \A c \in Counters :
    /\ (\A t \in Threads : pc[t] \notin CountingPoints) =>
         itemCounts[c] = CountOf(c) /\ interim[c] = 0
    /\ \A t \in Threads : pc[t] \in CountingPoints =>
         /\ cm[t].counts[c] + cm[t].fresh[c] + Uncounted(t, c) = CountOf(c)
         /\ interim[c] = Undrained(t, c)

\* A commit has read the table, and the history it read was within its quota.
CountsAreRead ==
  \A t \in Threads :
    /\ pc[t] \in {"peekNormal", "peekHistory"} => cm[t].counts = itemCounts
    /\ pc[t] = "peekHistory" => cm[t].fresh["normal"] = 0
    /\ pc[t] \in CountingPoints \cup {"peekNormal", "peekHistory"} =>
         cm[t].counts["history"] <= MaxHistory

\* The entry in hand is one; if it is new it is not stored, if it is old it is no
\* root folder that is deleted.
EntriesAreSound ==
  \A t \in Threads :
    /\ \A e, f \in cm[t].cur : e = f
    /\ pc[t] = "create" => \A e \in cm[t].cur : ~Stored(e.id)
    /\ \A e \in cm[t].todo : e.deleted => TagOf[e.id] \notin ServerTags
    /\ pc[t] \in Unwritten => \A e \in cm[t].cur : e.deleted => TagOf[e.id] \notin ServerTags

HistoryRowsLive == \A i \in Ids : Stored(i) /\ ~Versioned(i) => ~rows[i].deleted

\* The inductive invariant behind CountsExact and QuotaHeld, if no store call fails
\* and the process is not restarted.
CountInv ==
  /\ left["storeError"] = 0 /\ left["crash"] = 0
  /\ HistoryRowsLive
  /\ EntriesAreSound
  /\ CountsAreRead
  /\ CountsAgree
  /\ QuotaHeld
=============================================================================
