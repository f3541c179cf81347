--------------------------- MODULE ClearDataHandler ---------------------------
(***************************************************************************)
(* handleClearServerDataRequest: the chain is disabled, its rows are read, *)
(* then deleted in one transaction, and the mtime keys of the types of the *)
(* rows that were read are dropped from the cache.                         *)
(***************************************************************************)
EXTENDS ServerState

SendClear(t) ==
  /\ Spend("clear")
  /\ Admit(t, "disable")
  /\ UNCHANGED <<storeVars, cacheVars, clientVars, clock, cm, gu, evict, used>>

Disable(t) ==
  /\ At(t, "disable")
  /\ DisableSyncChain
  /\ Goto(t, "scan")
  /\ UNCHANGED <<cacheVars, clientVars, clock, left, awaited, cm, gu, evict, used>>

\* The SELECT of ClearServerData, outside its transaction.
Scan(t) ==
  /\ At(t, "scan")
  /\ evict' = [evict EXCEPT ![t] = StoredTypes]
  /\ Goto(t, "wipe")
  /\ UNCHANGED <<storeVars, cacheVars, clientVars, clock, left, awaited, cm, gu, used>>

Wipe(t) ==
  /\ At(t, "wipe")
  /\ ClearServerData
  /\ Goto(t, "evict")
  /\ UNCHANGED <<cacheVars, clientVars, clock, left, awaited, cm, gu, evict, used>>

EvictAndReply(t) ==
  /\ At(t, "evict")
  /\ DelTypeMtimes(evict[t])
  /\ Finish(t)
  /\ UNCHANGED <<storeVars, clientVars, clock, left, used>>

ClearStoreError(t) == pc[t] \in {"disable", "scan", "wipe"} /\ FailOnStoreError(t)

ClearStep(t) ==
  \/ Disable(t)
  \/ Scan(t)
  \/ Wipe(t)
  \/ EvictAndReply(t)
  \/ ClearStoreError(t)
=============================================================================
