-------------------------- MODULE GetUpdatesHandler --------------------------
(***************************************************************************)
(* handleGetUpdatesRequest: a new client is checked against the device     *)
(* limit and gets the server-defined root folders created; then each       *)
(* progress marker is answered with the rows newer than its token, up to   *)
(* the batch size, and the mtime the answer reaches is cached.             *)
(***************************************************************************)
EXTENDS ServerState

CONSTANT OriginsSent   \* bound: the origins of the requests devices send

ASSUME OriginsAssumption == OriginsSent \subseteq Origins

\* A device asks for some types, each from the token it holds (external).
SendGetUpdates(t) ==
  \E origin \in OriginsSent : \E S \in SUBSET Types :
    /\ S # {}
    /\ Spend("getUpdates")
    /\ Admit(t, IF origin = "NEW_CLIENT" THEN "devices" ELSE "markers")
    /\ gu' = [gu EXCEPT ![t].origin = origin, ![t].todo = S, ![t].tok = token[Dev(t)]]
    /\ UNCHANGED <<storeVars, cacheVars, clientVars, clock, cm, evict, used>>

\* Steps that change only the locals of t.
LocalGU(t) ==
  UNCHANGED <<storeVars, cacheVars, clientVars, clock, left, awaited, cm, evict, used>>

(* The device limit --------------------------------------------------------*)

HasReachedDeviceLimit(n) == n >= MaxDevices

\* The loop reads the page at token 0 again as long as changes remain.
MoreDevices == ChangesRemain(DeviceInfoType, 0, MaxGUBatch)

\* One round of the loop; the limit answers THROTTLED.
CountDevices(t) ==
  /\ At(t, "devices")
  /\ \E P \in Pages(DeviceInfoType, 0, MaxGUBatch) :
       LET active == gu[t].active + Cardinality({i \in P : ~rows[i].deleted}) IN
       IF HasReachedDeviceLimit(active)
         THEN Fail(t) /\ UNCHANGED left
         ELSE /\ gu' = [gu EXCEPT ![t].active = active]
              /\ Goto(t, IF MoreDevices THEN "devices" ELSE "hasTag")
              /\ LocalGU(t)

(* The root folders --------------------------------------------------------*)

\* InsertServerDefinedUniqueEntities looks for the nigori tag only.
CheckFolders(t) ==
  /\ At(t, "hasTag")
  /\ Goto(t, IF HasServerDefinedUniqueTag(NigoriTag) THEN "markers" ELSE "makeFolders")
  /\ UNCHANGED gu
  /\ LocalGU(t)

\* A fresh id for each server tag.
FolderIds ==
  {R \in SUBSET (RootIds \ used) :
     /\ \A i, j \in R : TagOf[i] = TagOf[j] => i = j
     /\ ServerTags = {TagOf[i] : i \in R}}

\* The entities are made one after the other, within microseconds: in one millisecond.
MakeFolders(t) ==
  /\ At(t, "makeFolders")
  /\ \E R \in FolderIds :
       /\ gu' = [gu EXCEPT ![t].folders = R, ![t].stamp = clock]
       /\ used' = used \cup R
  /\ Stamped
  /\ Goto(t, "insertFolders")
  /\ UNCHANGED <<storeVars, cacheVars, clientVars, left, awaited, cm, evict>>

FolderRow(t) ==
  [version |-> 1, mtime |-> gu[t].stamp, deleted |-> FALSE, by |-> Server]

\* A constraint failure makes the request fail, another goroutine was faster.
InsertFolders(t) ==
  /\ At(t, "insertFolders")
  /\ \/ /\ ServerTagsConflict(gu[t].folders)
        /\ Fail(t)
        /\ UNCHANGED left
     \/ /\ ~ServerTagsConflict(gu[t].folders)
        /\ InsertSyncEntitiesWithServerTags(gu[t].folders, FolderRow(t))
        /\ Goto(t, "markers")
        /\ UNCHANGED <<cacheVars, clientVars, clock, left, awaited, cm, gu, evict, used>>

(* Progress markers --------------------------------------------------------*)

BatchFull(t) == Cardinality(gu[t].got) >= MaxGUBatch

\* A poll whose cached mtime is not newer than the token reads nothing.
ShortCircuit(t, ty) ==
  gu[t].origin = "PERIODIC" /\ ~IsTypeMtimeUpdated(ty, gu[t].tok[ty])

\* The next marker, in the order of the message: skipped or to be queried.
StartMarker(t) ==
  /\ At(t, "markers")
  /\ \E ty \in gu[t].todo :
       LET skip == BatchFull(t) \/ ShortCircuit(t, ty) IN
       /\ gu' = [gu EXCEPT ![t].todo = @ \ {ty}, ![t].cur = IF skip THEN {} ELSE {ty}]
       /\ Goto(t, IF skip THEN "markers" ELSE "query")
  /\ LocalGU(t)

\* The new client must find the nigori root folder.
NigoriNotReady(t, ty, P) ==
  gu[t].origin = "NEW_CLIENT" /\ ty = NigoriType /\ gu[t].tok[ty] = 0 /\ P = {}

\* Mutant: the marker of a type without rows to send carries no token.
NextTokenUnset(t, ty, P) ==
  IF P = {} THEN {Miss}
  ELSE {m \in {rows[i].mtime : i \in P} : \A i \in P : rows[i].mtime <= m}

\* The token becomes the mtime of the last row sent, if any; the set has one value.
NextToken(t, ty, P) ==
  IF P = {} THEN {gu[t].tok[ty]}
  ELSE {m \in {rows[i].mtime : i \in P} : \A i \in P : rows[i].mtime <= m}

UpdateOf(i) ==
  [id |-> i, version |-> rows[i].version, deleted |-> rows[i].deleted, by |-> rows[i].by]

\* changesRemaining is never reset, so one truncated type keeps every later type of
\* the request out of the cache.
QueryType(t) ==
  /\ At(t, "query")
  /\ \E ty \in gu[t].cur :
       LET size == MaxGUBatch - Cardinality(gu[t].got) IN
       \E P \in Pages(ty, gu[t].tok[ty], size) : \E next \in NextToken(t, ty, P) :
         LET remaining == gu[t].remaining \/ ChangesRemain(ty, gu[t].tok[ty], size) IN
         IF NigoriNotReady(t, ty, P)
           THEN Fail(t) /\ UNCHANGED left
           ELSE /\ gu' = [gu EXCEPT ![t].got = @ \cup {UpdateOf(i) : i \in P},
                                    ![t].tok[ty] = next,
                                    ![t].remaining = remaining]
                /\ Goto(t, IF remaining THEN "markers" ELSE "cacheSet")
                /\ LocalGU(t)

CacheToken(t) ==
  /\ At(t, "cacheSet")
  /\ \E ty \in gu[t].cur : SetTypeMtime(ty, gu[t].tok[ty])
  /\ Goto(t, "markers")
  /\ UNCHANGED <<storeVars, clientVars, clock, left, awaited, cm, gu, evict, used>>

\* What the device of t knows of i after the response.
LearnedUpdate(t, i) ==
  LET new == {u \in gu[t].got : u.id = i /\ u.version > known[Dev(t)][i].version}
  IN  IF new = {} THEN known[Dev(t)][i]
      ELSE LET u == CHOOSE v \in new : TRUE
           IN  [version |-> u.version, deleted |-> u.deleted, by |-> u.by]

ReplyGetUpdates(t) ==
  /\ At(t, "markers")
  /\ gu[t].todo = {}
  /\ IF awaited[t]
       THEN /\ known' = [known EXCEPT ![Dev(t)] = [i \in Ids |-> LearnedUpdate(t, i)]]
            /\ token' = [token EXCEPT ![Dev(t)] = gu[t].tok]
       ELSE UNCHANGED clientVars
  /\ Finish(t)
  /\ UNCHANGED <<storeVars, cacheVars, clock, left, used>>

GetUpdatesStoreError(t) ==
  /\ pc[t] \in {"devices", "hasTag", "insertFolders", "query"}
  /\ FailOnStoreError(t)

GetUpdatesStep(t) ==
  \/ CountDevices(t)
  \/ CheckFolders(t)
  \/ MakeFolders(t)
  \/ InsertFolders(t)
  \/ StartMarker(t)
  \/ QueryType(t)
  \/ CacheToken(t)
  \/ ReplyGetUpdates(t)
  \/ GetUpdatesStoreError(t)
=============================================================================
