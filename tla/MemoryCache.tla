----------------------------- MODULE MemoryCache -----------------------------
(***************************************************************************)
(* memory_cache.go under cache.go: one mutex-protected map that holds, for *)
(* a chain, the last mtime seen of each data type (with a time to live)    *)
(* and the two interim item counters (without one).                        *)
(***************************************************************************)
EXTENDS SyncData

VARIABLES
  typeMtime,  \* clientID#dataType keys; Miss when absent
  interim     \* clientID#interim_... keys; an absent counter reads as 0

cacheVars == <<typeMtime, interim>>

CacheTypeOK ==
  /\ typeMtime \in [Types -> Nat \cup {Miss}]
  /\ interim \in Counts

\* A new process starts with an empty map.
CacheEmpty(mtimes, counts) ==
  /\ mtimes = [ty \in Types |-> Miss]
  /\ counts = NoCounts

CacheInit == CacheEmpty(typeMtime, interim)

\* Set overwrites, whatever the key held.
SetTypeMtime(ty, mtime) ==
  /\ typeMtime' = [typeMtime EXCEPT ![ty] = mtime]
  /\ UNCHANGED interim

\* FALSE only if the cached mtime is not newer than the client's token.
IsTypeMtimeUpdated(ty, tok) == typeMtime[ty] = Miss \/ typeMtime[ty] > tok

\* Incr, and the total it returns.
InterimAfter(c, subtract) == interim[c] + (IF subtract THEN -1 ELSE 1)
IncrementInterimCount(c, subtract) ==
  /\ interim' = [interim EXCEPT ![c] = InterimAfter(c, subtract)]
  /\ UNCHANGED typeMtime

\* Mutant: the counter is read but stays in the cache.
ReadInterimCount(c) == UNCHANGED cacheVars

\* Get with deleteAfterGet.
TakeInterimCount(c) ==
  /\ interim' = [interim EXCEPT ![c] = 0]
  /\ UNCHANGED typeMtime

\* Del of the given type keys, and expiry of one of them.
DelTypeMtimes(tys) ==
  /\ typeMtime' = [ty \in Types |-> IF ty \in tys THEN Miss ELSE typeMtime[ty]]
  /\ UNCHANGED interim
=============================================================================
