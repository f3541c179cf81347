------------------------------ MODULE SyncServer ------------------------------
(***************************************************************************)
(* The whole server for one chain: goroutines running the three handlers   *)
(* over the SQLite store and the memory cache, devices that send, wait and *)
(* give up, the clock, and process crashes.                                *)
(***************************************************************************)
EXTENDS CommitHandler, GetUpdatesHandler, ClearDataHandler

(* The environment ---------------------------------------------------------*)

Tick ==
  /\ clock < MaxClock
  /\ clock' = clock + 1
  /\ UNCHANGED <<storeVars, cacheVars, clientVars, left, pc, awaited, cm, gu, evict, used>>

\* The wall clock is set back, by an administrator or by NTP after a start without it.
SetBack ==
  /\ ClockGoesBack
  /\ clock' \in 1 .. (clock - 1)
  /\ UNCHANGED <<storeVars, cacheVars, clientVars, left, pc, awaited, cm, gu, evict, used>>

\* The device of t stops waiting; t runs on, its response is lost.
GiveUp(t) ==
  /\ ~At(t, "idle")
  /\ awaited[t]
  /\ Spend("giveUp")
  /\ awaited' = [awaited EXCEPT ![t] = FALSE]
  /\ UNCHANGED <<storeVars, cacheVars, clientVars, clock, pc, cm, gu, evict, used>>

\* A key's time to live passes.
Expire(ty) ==
  /\ typeMtime[ty] # Miss
  /\ Spend("expire")
  /\ DelTypeMtimes({ty})
  /\ UNCHANGED <<storeVars, clientVars, clock, pc, awaited, cm, gu, evict, used>>

\* The process dies and is started again: the tables survive, nothing else does.
Crash ==
  /\ Spend("crash")
  /\ CacheEmpty(typeMtime', interim')
  /\ pc' = [t \in Threads |-> "idle"]
  /\ awaited' = [t \in Threads |-> FALSE]
  /\ cm' = [t \in Threads |-> NoCommit]
  /\ gu' = [t \in Threads |-> NoGetUpdates]
  /\ evict' = [t \in Threads |-> {}]
  /\ UNCHANGED <<storeVars, clientVars, clock, used>>

\* The server waits for requests.
Quiet == \A t \in Threads : At(t, "idle")
AwaitRequests == Quiet /\ UNCHANGED vars

(* The specification -------------------------------------------------------*)

Send(t) == SendCommit(t) \/ SendGetUpdates(t) \/ SendClear(t)
Step(t) == CommitStep(t) \/ GetUpdatesStep(t) \/ ClearStep(t)

Next ==
  \/ \E t \in Threads : Send(t) \/ Step(t) \/ GiveUp(t)
  \/ \E ty \in Types : Expire(ty)
  \/ Tick
  \/ SetBack
  \/ Crash
  \/ AwaitRequests

Spec == Init /\ [][Next]_vars

\* A goroutine whose next call can run does run: the Go scheduler is fair, and no
\* call blocks for ever (busy_timeout turns a locked database into an error).
Fairness == \A t \in Threads : WF_vars(Step(t))
FairSpec == Spec /\ Fairness

(* Versions ----------------------------------------------------------------*)

\* What a device knows of a versioned entity is never ahead of its row, and a device
\* that knows the row's version knows its content: version numbers (wall-clock
\* stamps taken before the write, UpdateSyncEntity's comparison) identify content.
KnownVersionsAgree ==
  \A d \in Devices, i \in Ids : Versioned(i) /\ Stored(i) =>
    /\ known[d][i].version <= rows[i].version
    /\ known[d][i].version = rows[i].version =>
         known[d][i].deleted = rows[i].deleted /\ known[d][i].by = rows[i].by

\* A row of a versioned type is only ever replaced by a row with a larger version
\* (sync_entity.proto calls it monotonically increasing; UpdateSyncEntity writes
\* time.Now(), so it takes a clock that is not set back).
VersionsGrow ==
  [][\A i \in Ids : Versioned(i) /\ Stored(i) /\ rows'[i] \notin {rows[i], NoRow} =>
       rows'[i].version > rows[i].version]_vars

\* Whoever overwrites a versioned row has seen the version it overwrites, however
\* late its commit is processed: the commit handler never loses an update.
NoBlindOverwrite ==
  [][\A i \in Ids : Versioned(i) /\ Stored(i) /\ rows'[i] \notin {rows[i], NoRow} =>
       \E d \in Devices : rows'[i].by = d /\ known[d][i].version = rows[i].version]_vars

(* Unique tags -------------------------------------------------------------*)

Live(i) == Stored(i) /\ ~rows[i].deleted
HoldsTag(i) ==
  \/ ClientTagRow(i) # {} /\ Live(i)
  \/ TagOf[i] \in ServerTags /\ Stored(i)

\* unique_tags is an exact index: a tag is taken if and only if an entity that is
\* not deleted (or a root folder) has it, and no two of them share it.
TagsUnique ==
  /\ tagRows = {TagOf[i] : i \in {j \in Ids : HoldsTag(j)}}
  /\ \A i, j \in Ids : HoldsTag(i) /\ HoldsTag(j) /\ TagOf[i] = TagOf[j] => i = j

\* Concurrent new clients, failing calls and clearing leave either every root folder
\* in the store, each once, or none (InsertServerDefinedUniqueEntities).
FoldersAllOrNone ==
  \/ \A i \in Ids : Stored(i) => TagOf[i] \notin ServerTags
  \/ \A tag \in ServerTags : \E i \in Ids :
       /\ Stored(i) /\ TagOf[i] = tag
       /\ \A j \in Ids : Stored(j) /\ TagOf[j] = tag => j = i

(* Delivery ----------------------------------------------------------------*)

Delivered(d, i) == known[d][i].version >= rows[i].version

\* A device has received every row up to its progress marker: GetUpdatesForType will
\* not return them again.
DeliveredUpToToken ==
  \A d \in Devices, i \in Ids :
    Stored(i) /\ rows[i].mtime <= token[d][TypeOf[i]] => Delivered(d, i)

(* Commits and counts ------------------------------------------------------*)

\* An entity a device was told is committed, or received, is in the store until the
\* chain is cleared.
AckedIsStored ==
  ~disabled => \A d \in Devices, i \in Ids : known[d][i].version > 0 => Stored(i)

Committed(i) == Live(i) /\ TagOf[i] \notin ServerTags
CountOf(c) == Cardinality({i \in Ids : Committed(i) /\ CounterOf(i) = c})

\* Between requests, the counters of the table are the numbers of live entities and
\* the interim counters are zero.
CountsExact ==
  Quiet /\ ~disabled => \A c \in Counters : itemCounts[c] = CountOf(c) /\ interim[c] = 0

\* The store never holds more live entities than the quotas allow.
QuotaHeld ==
  CountOf("normal") + CountOf("history") <= MaxObjects /\ CountOf("history") <= MaxHistory

(* Clearing ----------------------------------------------------------------*)

\* Once the chain is disabled no row is written any more, rows only disappear: what
\* datastore.go says of DisableSyncChain.  commandHandler checks the marker once, so
\* a commit that was admitted before violates it.
DisabledIsFrozen ==
  [][disabled => \A i \in Ids : rows'[i] \in {rows[i], NoRow}]_vars

(* The abstract chain ------------------------------------------------------*)

\* The server implements SyncChain: handlers, tag table, cache, counters and faults
\* are hidden, the rows and the disabled marker are what remains.
Chain == INSTANCE SyncChain WITH rows <- rows, disabled <- disabled
ImplementsChain == Chain!Spec

(* Liveness ----------------------------------------------------------------*)

\* Every request is answered.
RequestsAnswered == \A t \in Threads : ~At(t, "idle") ~> At(t, "idle")
=============================================================================
