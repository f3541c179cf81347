----------------------------- MODULE DynamoChain -----------------------------
(***************************************************************************)
(* The handlers of command.go over DynamoStore: commits and new clients    *)
(* write, one device polls, and the chain is cleared.  Only what they do   *)
(* to the table is kept; the handlers themselves are in SyncServer.        *)
(* Requests of one millisecond have one stamp; the clock is not set back.  *)
(***************************************************************************)
EXTENDS DynamoStore

CONSTANTS
  Writers,    \* requests that write at the same time
  Idle,       \* a writer without a request, a device that reads nothing
  Polled,     \* the types the polling device has markers for
  NigoriTag,  \* the server tag that a new client looks for
  MaxCommits, \* bound: requests that write
  MaxTime     \* bound: the clock

\* The entities a request writes, the version its device read, its stamp.
Request ==
  [at: {"has", "insert", "update", "tag", "count"}, ids: SUBSET Ids, base: Nat, stamp: Nat,
   deleted: BOOLEAN]

\* The keys a GetUpdatesForType has found; observer: the items at that time.
Page == [keys: SUBSET Ids, type: Types, before: [Ids -> Item \cup {NoItem}]]

ASSUME ChainAssumption ==
  /\ Idle \notin Request \cup Page
  /\ Polled \subseteq Types
  /\ NigoriTag \in ServerTags
  /\ MaxCommits \in Nat
  /\ MaxTime \in Nat \ {0}

VARIABLES
  request,   \* the request of each writer
  used,      \* ids that were drawn
  token,     \* the polling device's progress markers
  received,  \* observer: the version it received last of each entity, 0 for none
  page,      \* the keys its GetUpdatesForType has found, with their type
  clear,     \* where the clear is
  seen,      \* the entities its query returned
  left,      \* the keys it has still to delete
  orphans,   \* observer: the tags whose entity time to live removed
  commits

chainVars == <<request, used, commits>>
readVars == <<token, received, page>>
clearVars == <<clear, seen, left>>
vars == <<tableVars, now, chainVars, readVars, clearVars, orphans>>

Clear == {"idle", "query", "delete", "succeeded", "failed", "panicked"}

TypeOK ==
  /\ TableTypeOK
  /\ request \in [Writers -> Request \cup {Idle}]
  /\ used \subseteq Ids
  /\ token \in [Types -> Nat]
  /\ received \in [Ids -> Nat]
  /\ page \in Page \cup {Idle}
  /\ clear \in Clear
  /\ seen \in [Ids -> Item \cup {NoItem}]
  /\ left \subseteq Keys
  /\ orphans \subseteq Tags
  /\ commits \in 0 .. MaxCommits

Init ==
  /\ TableInit
  /\ request = [w \in Writers |-> Idle]
  /\ used = {}
  /\ commits = 0
  /\ token = [ty \in Types |-> 0]
  /\ received = [i \in Ids |-> 0]
  /\ page = Idle
  /\ clear = "idle"
  /\ seen = [i \in Ids |-> NoItem]
  /\ left = {}
  /\ orphans = {}

(* Requests that write -----------------------------------------------------*)

\* A request is admitted while the chain is not disabled.
Receive(w, r) ==
  /\ request[w] = Idle
  /\ ~Disabled
  /\ commits < MaxCommits
  /\ commits' = commits + 1
  /\ request' = [request EXCEPT ![w] = r]
  /\ used' = used \cup r.ids
  /\ UNCHANGED <<tableVars, now, readVars, clearVars, orphans>>

\* A device commits a new entity, a change of one it knows, or one with a history id.
\* It knows a version not before the millisecond after the version's own.
CommitNew(w) ==
  \E i \in Ids \ (HistoryIds \cup used) :
    /\ TagOf[i] \notin ServerTags
    /\ Receive(w, [at |-> "insert", ids |-> {i}, base |-> 0, stamp |-> now, deleted |-> FALSE])

CommitChange(w) ==
  \E i \in Ids \ HistoryIds, deleted \in BOOLEAN :
    /\ Stored(i) /\ ~items[i].deleted /\ items[i].mtime < now
    /\ deleted => TagOf[i] \notin ServerTags
    /\ Receive(w, [at |-> "update", ids |-> {i}, base |-> items[i].mtime, stamp |-> now,
                   deleted |-> deleted])

CommitHistory(w) ==
  \E i \in HistoryIds :
    Receive(w, [at |-> "has", ids |-> {i}, base |-> 0, stamp |-> now, deleted |-> FALSE])

\* A new client, for which the root folders are made: one for every server tag, in
\* one millisecond.
NewClient(w) ==
  \E R \in SUBSET {i \in Ids \ used : TagOf[i] \in ServerTags} :
    /\ {TagOf[i] : i \in R} = ServerTags
    /\ \A i, j \in R : TagOf[i] = TagOf[j] => i = j
    /\ Receive(w, [at |-> "tag", ids |-> R, base |-> 0, stamp |-> now, deleted |-> FALSE])

At(w, c) == request[w] # Idle /\ request[w].at = c
Goto(w, c) == request' = [request EXCEPT ![w].at = c]
Done(w) == request' = [request EXCEPT ![w] = Idle]

CheckItem(w) ==
  /\ At(w, "has")
  /\ Goto(w, IF \E i \in request[w].ids : Stored(i) THEN "update" ELSE "insert")
  /\ UNCHANGED tableVars

HasServerTag(w) ==
  /\ At(w, "tag")
  /\ IF NigoriTag \in others THEN Done(w) ELSE Goto(w, "insert")
  /\ UNCHANGED tableVars

\* Root folders are not counted.
Insert(w) ==
  /\ At(w, "insert")
  /\ PutNew(request[w].ids, request[w].stamp)
  /\ IF \E i \in request[w].ids : TagOf[i] \in ServerTags THEN Done(w) ELSE Goto(w, "count")

Update(w) ==
  /\ At(w, "update")
  /\ \E i \in request[w].ids :
       UpdateSyncEntity(i, request[w].base, request[w].stamp, request[w].deleted)
  /\ Goto(w, "count")

\* The last call of a commit; its failure is logged.
Count(w) ==
  /\ At(w, "count")
  /\ UpdateClientItemCount \/ UNCHANGED tableVars
  /\ Done(w)

Write(w) ==
  /\ CheckItem(w) \/ HasServerTag(w) \/ Insert(w) \/ Update(w) \/ Count(w)
  /\ UNCHANGED <<now, used, commits, readVars, clearVars, orphans>>

(* The device that polls ---------------------------------------------------*)

Query(ty) ==
  /\ page = Idle
  /\ ~Disabled
  /\ Newer(ty, token[ty]) # {}
  /\ \E P \in Pages(ty, token[ty]) : page' = [keys |-> P, type |-> ty, before |-> items]
  /\ UNCHANGED <<tableVars, now, chainVars, token, received, clearVars, orphans>>

\* The largest mtime of the entities that are returned, which are sorted.
LastMtime(P) == {items[i].mtime : i \in {j \in P : \A k \in P : items[k].mtime <= items[j].mtime}}

\* The entities are read by their keys; the marker moves to the last of them and
\* stays where it is if all have expired.
Fetch ==
  /\ page # Idle
  /\ LET F == Fetched(page.keys) IN
     /\ received' = [i \in Ids |-> IF i \in F THEN items[i].mtime ELSE received[i]]
     /\ IF F = {} THEN UNCHANGED token
        ELSE \E m \in LastMtime(F) : token' = [token EXCEPT ![page.type] = m]
  /\ page' = Idle
  /\ UNCHANGED <<tableVars, now, chainVars, clearVars, orphans>>

(* Clearing the chain ------------------------------------------------------*)

\* handleClearServerDataRequest: disable, then ClearServerData.
Disable ==
  /\ clear = "idle"
  /\ DisableSyncChain
  /\ clear' = "query"
  /\ UNCHANGED <<now, chainVars, readVars, seen, left, orphans>>

Scan ==
  /\ clear = "query"
  /\ clear' = "delete"
  /\ seen' = items
  /\ left' = AllKeys
  /\ UNCHANGED <<tableVars, now, chainVars, readVars, orphans>>

\* Mutant: the loop ends before the last batch that is not full.
OnlyFullBatches(K) == Cardinality(K) < BatchSize

NothingLeft(K) == K = {}

\* One transaction; the first that fails ends the clear.
Delete ==
  /\ clear = "delete"
  /\ ~NothingLeft(left)
  /\ \E B \in Batches(left) :
       \/ /\ BatchPanics(B)
          /\ clear' = "panicked"
          /\ UNCHANGED <<tableVars, left>>
       \/ /\ ~BatchPanics(B)
          /\ BatchFails(B, seen)
          /\ clear' = "failed"
          /\ UNCHANGED <<tableVars, left>>
       \/ /\ ~BatchPanics(B)
          /\ ~BatchFails(B, seen)
          /\ DeleteBatch(B)
          /\ left' = left \ B
          /\ UNCHANGED clear
  /\ UNCHANGED <<now, chainVars, readVars, seen, orphans>>

Cleared ==
  /\ clear = "delete"
  /\ NothingLeft(left)
  /\ clear' = "succeeded"
  /\ UNCHANGED <<tableVars, now, chainVars, readVars, seen, left, orphans>>

(* The specification -------------------------------------------------------*)

HoldsTag(i) == Stored(i) /\ TagOf[i] # NoTag /\ ~items[i].deleted

RemoveExpired(i) ==
  /\ TimeToLive(i)
  /\ orphans' = IF HoldsTag(i) THEN orphans \cup {TagOf[i]} ELSE orphans
  /\ UNCHANGED <<now, chainVars, readVars, clearVars>>

Tick ==
  /\ now < MaxTime
  /\ now' = now + 1
  /\ UNCHANGED <<tableVars, chainVars, readVars, clearVars, orphans>>

Next ==
  \/ \E w \in Writers :
       CommitNew(w) \/ CommitChange(w) \/ CommitHistory(w) \/ NewClient(w) \/ Write(w)
  \/ \E ty \in Polled : Query(ty)
  \/ Fetch
  \/ Disable \/ Scan \/ Delete \/ Cleared
  \/ \E i \in Ids : RemoveExpired(i)
  \/ Tick

Spec == Init /\ [][Next]_vars

(* Properties --------------------------------------------------------------*)

\* Until the chain is disabled, the tag items are an exact index of the entities that
\* have a tag and are not deleted, and no two of these share one, whatever
\* commits and new clients race: every transaction writes both items or none.
\* The one thing that leaves a tag item behind is time to live, which knows nothing
\* of the tag item of a directive it removes: that tag is never free again.
TagItemsExact ==
  ~Disabled =>
    /\ others \cap Tags = {TagOf[i] : i \in {j \in Ids : HoldsTag(j)}} \cup orphans
    /\ \A i \in Ids : HoldsTag(i) => TagOf[i] \notin orphans
    /\ \A i, j \in Ids : HoldsTag(i) /\ HoldsTag(j) /\ TagOf[i] = TagOf[j] => i = j

\* Whether what is stored of i is what the clear's query saw of it.  A history item has
\* no version and is known by its Mtime only.
IsAsSeen(i) ==
  Stored(i) /\ seen[i] # NoItem /\
    IF i \in HistoryIds THEN items[i].mtime = seen[i].mtime ELSE items[i] = seen[i]

\* An entity disappears only in the version the clear has read, or when it has
\* expired: a commit that is under way while the chain is cleared is not deleted
\* unseen ("Fail delete if race condition detected").
NoBlindDelete ==
  [][\A i \in Ids : Stored(i) /\ items'[i] = NoItem =>
       Expired(i) \/ (clear = "delete" /\ IsAsSeen(i))]_vars

\* A clear that succeeds leaves no entity as its query has seen it, except that a
\* history id may be put once more by a request of the same millisecond.
ClearedIsGone == clear = "succeeded" => \A i \in Ids \ HistoryIds : ~IsAsSeen(i)

\* The marker has passed i, and the device has not received what is stored of it.
Skipped(i) ==
  /\ Stored(i) /\ ~Expired(i)
  /\ items[i].mtime <= token[TypeOf(i)]
  /\ received[i] # items[i].mtime

\* The page that is read loses i: i was written after the query, an entity of the page
\* was, and takes the marker along, or the page ends within the millisecond of i.
PageLoses(i) ==
  /\ page # Idle
  /\ \/ items[i] # page.before[i]
     \/ \E j \in Fetched(page.keys) :
          \/ items[j] # page.before[j] /\ items[j].mtime >= items[i].mtime
          \/ items[j].mtime = items[i].mtime

\* However commits, polls, expiry and a clear interleave, the marker passes an entity
\* the device has not received in one of these ways only: the entity is written
\* with a stamp the marker has passed, or a page loses it.
OnlyTheseAreSkipped ==
  [][\A i \in Ids : ~Skipped(i) /\ Skipped(i)' => items'[i] # items[i] \/ PageLoses(i)]_vars
=============================================================================
