---------------------------- MODULE CommitHandler ----------------------------
(***************************************************************************)
(* handleCommitRequest: a commit message is a set of entries processed in  *)
(* some order; each new entry passes the quota and is inserted, each other *)
(* one is a compare-and-swap on the version; then the interim counters are *)
(* moved to the count table and the mtimes of the types to the cache.      *)
(***************************************************************************)
EXTENDS ServerState

CONSTANTS
  MaxEntries,      \* bound: entries in a commit message (maxCommitBatchSize)
  EditTombstones   \* TRUE if devices commit on entities they know are deleted

ASSUME CommitAssumption == MaxEntries \in Nat /\ EditTombstones \in BOOLEAN

(* What a device may send (external: the clients) --------------------------*)

HasTwin(d, i) ==
  \E j \in Ids : /\ j # i
                 /\ TagOf[j] = TagOf[i]
                 /\ TagOf[i] # NoTag
                 /\ known[d][j].version > 0
                 /\ ~known[d][j].deleted

\* d can create i: a uuid not drawn yet, or any history item.
CanCreate(d, i) ==
  /\ known[d][i].version = 0
  /\ TagOf[i] \notin ServerTags
  /\ Versioned(i) => i \notin used
  /\ ~HasTwin(d, i)

\* d can change or delete i on the version it knows, a round trip after it read that
\* version (which a clock that is set back does not show).
CanUpdate(d, i) ==
  /\ known[d][i].version > 0
  /\ known[d][i].version + RoundTrip <= clock \/ ClockGoesBack
  /\ EditTombstones \/ ~known[d][i].deleted

\* Permanent folders and history items are never deleted one by one.
CanDelete(d, i) == CanUpdate(d, i) /\ TagOf[i] \notin ServerTags /\ Versioned(i)

SendCommit(t) ==
  \E S \in SUBSET {i \in Ids : CanCreate(Dev(t), i) \/ CanUpdate(Dev(t), i)} :
    \E dead \in SUBSET {i \in S : CanDelete(Dev(t), i)} :
      /\ Cardinality(S) \in 1 .. MaxEntries
      /\ \A i, j \in S : TagOf[i] = TagOf[j] => i = j \/ TagOf[i] = NoTag
      /\ Spend("commit")
      /\ Admit(t, "count")
      /\ cm' = [cm EXCEPT ![t].todo =
           {[id |-> i, base |-> known[Dev(t)][i].version, deleted |-> i \in dead] : i \in S}]
      /\ used' = used \cup {i \in S : Versioned(i)}
      /\ UNCHANGED <<storeVars, cacheVars, clientVars, clock, gu, evict>>

(* Item counts -------------------------------------------------------------*)

\* Steps that change only the locals of t.
Local(t) ==
  UNCHANGED <<storeVars, cacheVars, clientVars, clock, left, awaited, gu, evict, used>>

\* GetClientItemCount, then the two interim counters.
ReadCounts(t) ==
  /\ At(t, "count")
  /\ cm' = [cm EXCEPT ![t].counts = itemCounts]
  /\ Goto(t, "peekNormal")
  /\ Local(t)

PeekInterim(t, point, c, next) ==
  /\ At(t, point)
  /\ cm' = [cm EXCEPT ![t].fresh[c] = interim[c]]
  /\ Goto(t, next)
  /\ Local(t)

(* Entries -----------------------------------------------------------------*)

\* CreateDBSyncEntity stamps the entry; version 0 means a new entity, and the
\* history type is looked up instead.
StartEntry(t) ==
  /\ At(t, "entries")
  /\ \E e \in cm[t].todo :
       /\ cm' = [cm EXCEPT ![t].todo = @ \ {e}, ![t].cur = {e}, ![t].stamp = clock]
       /\ Goto(t, CASE ~Versioned(e.id) -> "hasItem"
                    [] Versioned(e.id) /\ e.base # 0 -> "update"
                    [] OTHER -> "create")
  /\ Stamped
  /\ UNCHANGED <<storeVars, cacheVars, clientVars, left, awaited, gu, evict, used>>

CheckItem(t) ==
  /\ At(t, "hasItem")
  /\ \E e \in cm[t].cur : Goto(t, IF Stored(e.id) THEN "update" ELSE "create")
  /\ UNCHANGED cm
  /\ Local(t)

\* Mutant: the quota ignores what was inserted since the counts were read.
StaleOverQuota(c) == c.counts["normal"] + c.counts["history"] >= MaxObjects

\* A history count above its quota raises the total by the excess, up to a limit.
Boost(c) ==
  IF c.counts["history"] > MaxHistory
    THEN IF MaxObjects < c.counts["history"] THEN MaxObjects - MaxHistory
                                             ELSE c.counts["history"] - MaxHistory
    ELSE 0

OverQuota(c) ==
  c.counts["normal"] + c.counts["history"] + c.fresh["normal"] + c.fresh["history"]
    >= MaxObjects + Boost(c)

HistoryFull(c) == c.counts["history"] + c.fresh["history"] >= MaxHistory

\* A history item above the history quota is acknowledged and not stored.
Pretended(c, i) == HistoryRelated(i) /\ HistoryFull(c)

\* Mutant: the error of a store call is not reported to the device.
EntryFailsSilently(t) ==
  /\ cm' = [cm EXCEPT ![t].cur = {}, ![t].acks = @ \cup
       {[id |-> e.id, version |-> cm[t].stamp, deleted |-> e.deleted] : e \in cm[t].cur}]
  /\ Goto(t, "entries")

\* The entry is answered with an error: OVER_QUOTA, CONFLICT or TRANSIENT_ERROR.
EntryFails(t) == cm' = [cm EXCEPT ![t].cur = {}] /\ Goto(t, "entries")

\* The entry is answered with SUCCESS and t goes on at point.
EntrySucceeds(t, e, point) ==
  /\ cm' = [cm EXCEPT ![t].acks =
                        @ \cup {[id |-> e.id, version |-> cm[t].stamp, deleted |-> e.deleted]},
                      ![t].mtimes[TypeOf[e.id]] = cm[t].stamp]
  /\ Goto(t, point)

RowFor(t, e) ==
  [version |-> cm[t].stamp, mtime |-> cm[t].stamp, deleted |-> e.deleted, by |-> Dev(t)]

RejectOverQuota(t) ==
  /\ At(t, "create")
  /\ OverQuota(cm[t])
  /\ EntryFails(t)
  /\ Local(t)

PretendStored(t) ==
  /\ At(t, "create")
  /\ ~OverQuota(cm[t])
  /\ \E e \in cm[t].cur : Pretended(cm[t], e.id) /\ EntrySucceeds(t, e, "entries")
  /\ Local(t)

\* A conflict comes back without an error, so it is counted and acknowledged too.
InsertEntry(t) ==
  /\ At(t, "create")
  /\ ~OverQuota(cm[t])
  /\ \E e \in cm[t].cur : /\ ~Pretended(cm[t], e.id)
                          /\ InsertSyncEntity(e.id, RowFor(t, e))
                          /\ EntrySucceeds(t, e, "countUp")
  /\ UNCHANGED <<cacheVars, clientVars, clock, left, awaited, gu, evict, used>>

UpdateEntry(t) ==
  /\ At(t, "update")
  /\ \E e \in cm[t].cur :
       \/ /\ UpdateConflicts(e.id, e.base)
          /\ EntryFails(t)
          /\ UNCHANGED storeVars
       \/ /\ ~UpdateConflicts(e.id, e.base)
          /\ UpdateSyncEntity(e.id, RowFor(t, e))
          /\ EntrySucceeds(t, e,
               IF BecomesDeleted(e.id, e.deleted) THEN "countDown" ELSE "entries")
  /\ UNCHANGED <<cacheVars, clientVars, clock, left, awaited, gu, evict, used>>

\* The interim counter moves, and its total replaces the handler's copy.
CountEntry(t, point, subtract) ==
  /\ At(t, point)
  /\ \E e \in cm[t].cur :
       /\ IncrementInterimCount(CounterOf(e.id), subtract)
       /\ cm' = [cm EXCEPT ![t].fresh[CounterOf(e.id)] =
                             InterimAfter(CounterOf(e.id), subtract)]
  /\ Goto(t, "entries")
  /\ UNCHANGED <<storeVars, clientVars, clock, left, awaited, gu, evict, used>>

\* HasItem, InsertSyncEntity or UpdateSyncEntity fails: only this entry does.
EntryStoreError(t) ==
  /\ \/ At(t, "hasItem") \/ At(t, "update")
     \/ At(t, "create") /\ ~OverQuota(cm[t]) /\ \E e \in cm[t].cur : ~Pretended(cm[t], e.id)
  /\ Spend("storeError")
  /\ EntryFails(t)
  /\ UNCHANGED <<storeVars, cacheVars, clientVars, clock, awaited, gu, evict, used>>

(* After the last entry ----------------------------------------------------*)

DrainInterim(t, point, c, next) ==
  /\ At(t, point)
  /\ point = "entries" => cm[t].todo = {}
  /\ cm' = [cm EXCEPT ![t].fresh[c] = interim[c], ![t].cur = {}]
  /\ TakeInterimCount(c)
  /\ Goto(t, next)
  /\ UNCHANGED <<storeVars, clientVars, clock, left, awaited, gu, evict, used>>

\* Mutant: the mtimes of the types are not cached.
ForgetMtime(t, ty) == UNCHANGED cacheVars

\* typeMtimeMap, one type at a time in any order.
CacheMtime(t, ty) == SetTypeMtime(ty, cm[t].mtimes[ty])

CommittedTypes(t) == {ty \in Types : cm[t].mtimes[ty] # Miss}

SaveMtime(t) ==
  /\ At(t, "setMtime")
  /\ \E ty \in CommittedTypes(t) : /\ CacheMtime(t, ty)
                                   /\ cm' = [cm EXCEPT ![t].mtimes[ty] = Miss]
  /\ UNCHANGED <<storeVars, clientVars, clock, left, pc, awaited, gu, evict, used>>

\* UpdateClientItemCount; its failure is only logged.
FlushCounts(t) ==
  /\ At(t, "setMtime")
  /\ CommittedTypes(t) = {}
  /\ \/ UpdateClientItemCount(cm[t].counts, cm[t].fresh) /\ UNCHANGED left
     \/ Spend("storeError") /\ UNCHANGED storeVars
  /\ Goto(t, "reply")
  /\ UNCHANGED <<cacheVars, clientVars, clock, awaited, cm, gu, evict, used>>

CountsStoreError(t) == At(t, "count") /\ FailOnStoreError(t)

\* What the device of t knows of i after the response (one ack per entity).
Learned(t, i) ==
  LET new == {a \in cm[t].acks : a.id = i /\ a.version > known[Dev(t)][i].version}
  IN  IF new = {} THEN known[Dev(t)][i]
      ELSE LET a == CHOOSE b \in new : TRUE
           IN  [version |-> a.version, deleted |-> a.deleted, by |-> Dev(t)]

ReplyCommit(t) ==
  /\ At(t, "reply")
  /\ known' = IF awaited[t] THEN [known EXCEPT ![Dev(t)] = [i \in Ids |-> Learned(t, i)]]
                            ELSE known
  /\ Finish(t)
  /\ UNCHANGED <<storeVars, cacheVars, clock, left, token, used>>

CommitStep(t) ==
  \/ ReadCounts(t)
  \/ PeekInterim(t, "peekNormal", "normal", "peekHistory")
  \/ PeekInterim(t, "peekHistory", "history", "entries")
  \/ StartEntry(t)
  \/ CheckItem(t)
  \/ RejectOverQuota(t)
  \/ PretendStored(t)
  \/ InsertEntry(t)
  \/ UpdateEntry(t)
  \/ CountEntry(t, "countUp", FALSE)
  \/ CountEntry(t, "countDown", TRUE)
  \/ EntryStoreError(t)
  \/ DrainInterim(t, "entries", "normal", "drainHistory")
  \/ DrainInterim(t, "drainHistory", "history", "setMtime")
  \/ SaveMtime(t)
  \/ FlushCounts(t)
  \/ ReplyCommit(t)
  \/ CountsStoreError(t)
=============================================================================
