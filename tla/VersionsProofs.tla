---------------------------- MODULE VersionsProofs ----------------------------
(***************************************************************************)
(* Why version numbers can be trusted: VersionsInv is inductive, and it    *)
(* implies KnownVersionsAgree, VersionsGrow and NoBlindOverwrite for any   *)
(* number of devices and concurrent requests.  The one assumption on the   *)
(* environment is that a device does not commit on a version within the    *)
(* millisecond the server gave it.                                         *)
(***************************************************************************)
EXTENDS ServerInvariants, SyncServerProofs

(* Steps that tell nothing new --------------------------------------------- *)

\* Goroutine t draws no uuid, stamps no entry, and learns of no version.
AddsNothing(t) ==
  /\ cm'[t].todo \subseteq cm[t].todo
  /\ cm'[t].acks \subseteq cm[t].acks
  /\ gu'[t].got \subseteq gu[t].got
  /\ pc'[t] \in Unwritten =>
       pc'[t] = pc[t] /\ cm'[t].cur = cm[t].cur /\ cm'[t].stamp = cm[t].stamp
  /\ pc'[t] = "insertFolders" => pc[t] = "insertFolders" /\ gu'[t].folders = gu[t].folders

\* Rows may only disappear, devices learn nothing, and no goroutine adds anything.
NothingNew ==
  /\ \A i \in Ids : rows'[i] = rows[i] \/ rows'[i] = NoRow
  /\ known' = known
  /\ used' = used
  /\ (ClockGoesBack \/ clock' >= clock)
  /\ \A t \in Threads : AddsNothing(t)

\* All goroutines but t stay where they are.
OthersWait(t) ==
  \A u \in Threads \ {t} : pc'[u] = pc[u] /\ cm'[u] = cm[u] /\ gu'[u] = gu[u]

LEMMA WaitersAddNothing ==
  ASSUME NEW t \in Threads, OthersWait(t)
  PROVE  \A u \in Threads \ {t} : AddsNothing(u)
BY DEF OthersWait, AddsNothing

\* Without a new uuid, the uuids still to be written only get fewer.
LEMMA DrawnShrinks ==
  ASSUME NEW t \in Threads, AddsNothing(t)
  PROVE  /\ ToCreate(t)' \subseteq ToCreate(t)
         /\ Creating(t)' \subseteq Creating(t)
         /\ ToPlant(t)' \subseteq ToPlant(t)
         /\ Drawn(t)' \subseteq Drawn(t)
<1>1. ToCreate(t)' \subseteq ToCreate(t)
  BY DEF AddsNothing, ToCreate, Versioned
<1>2. Creating(t)' \subseteq Creating(t)
  BY DEF AddsNothing, Creating, Versioned, Unwritten
<1>3. ToPlant(t)' \subseteq ToPlant(t)
  BY DEF AddsNothing, ToPlant
<1> QED
  BY <1>1, <1>2, <1>3 DEF Drawn

LEMMA NothingNewKeeps ==
  ASSUME TypeOK, TypeOK', VersionsInv, ~ClockGoesBack, NothingNew
  PROVE  VersionsInv'
<1>1. \A t \in Threads : /\ ToCreate(t)' \subseteq ToCreate(t)
                         /\ Creating(t)' \subseteq Creating(t)
                         /\ ToPlant(t)' \subseteq ToPlant(t)
                         /\ Drawn(t)' \subseteq Drawn(t)
  BY DrawnShrinks DEF NothingNew
<1>2. \A i \in Ids : Stored(i)' => Stored(i) /\ rows'[i] = rows[i]
  BY DEF NothingNew, Stored
<1>3. \A i \in Ids : Blank(i) => Blank(i)'
  BY <1>2 DEF Blank, NothingNew, AddsNothing
<1>4. DrawnOnce'
  <2>1. \A t, u \in Threads : t # u => (Drawn(t) \cap Drawn(u) = {})'
    BY <1>1 DEF VersionsInv, DrawnOnce
  <2>2. \A t \in Threads :
          /\ (ToCreate(t) \cap Creating(t) = {})'
          /\ (ToCreate(t) \cap ToPlant(t) = {})'
    BY <1>1 DEF VersionsInv, DrawnOnce
  <2>3. \A t \in Threads : \A e, f \in cm'[t].todo : e.id = f.id => e = f
    BY DEF VersionsInv, DrawnOnce, NothingNew, AddsNothing
  <2> QED
    BY <2>1, <2>2, <2>3 DEF DrawnOnce
<1>5. DrawnIsUsed'
  BY <1>1 DEF VersionsInv, DrawnIsUsed, NothingNew, Versioned
<1>6. DrawnIsBlank'
  <2>1. \A t \in Threads : Drawn(t) \subseteq Ids
    BY DEF VersionsInv, DrawnIsUsed, TypeOK, StateTypeOK
  <2> QED
    BY <1>1, <1>3, <2>1 DEF VersionsInv, DrawnIsBlank
<1>7. UnusedIsBlank'
  BY <1>3 DEF VersionsInv, UnusedIsBlank, NothingNew, Versioned
<1>8. \A i \in Ids : \A version, deleted, by :
        Agrees(i, version, deleted, by) => Agrees(i, version, deleted, by)'
  BY <1>2 DEF Agrees
<1>9. KnownVersionsAgree'
  BY <1>2 DEF VersionsInv, KnownVersionsAgree, NothingNew, Versioned
<1>10. AcksAgree'
  <2>1. \A t \in Threads : \A a \in cm[t].acks : a.id \in Ids
    BY CommitLocals DEF Ack
  <2> QED
    BY <1>8, <2>1 DEF VersionsInv, AcksAgree, NothingNew, AddsNothing, Versioned
<1>11. UpdatesAgree'
  <2>1. \A t \in Threads : \A u \in gu[t].got : u.id \in Ids
    BY GetUpdatesLocals DEF Update
  <2> QED
    BY <1>8, <2>1 DEF VersionsInv, UpdatesAgree, NothingNew, AddsNothing, Versioned
<1>12. BasesKnown'
  <2>1. \A d \in Devices, e \in Entry : Based(d, e) => Based(d, e)'
    BY DEF Based, NothingNew
  <2> QED
    BY <2>1, CommitLocals, DevType
    DEF VersionsInv, BasesKnown, NothingNew, AddsNothing, Versioned, Unwritten
<1>13. StampsGrow'
  <2>1. clock \in Nat /\ clock' \in Nat
    BY DEF TypeOK, StateTypeOK
  <2>2. \A t \in Threads : \A e \in cm[t].todo \cup cm[t].cur : e.base \in Nat
    BY CommitLocals DEF Entry
  <2>3. \A t \in Threads : \A e \in cm'[t].todo : e.base < clock'
    BY <2>1, <2>2 DEF VersionsInv, StampsGrow, NothingNew, AddsNothing
  <2>4. \A t \in Threads :
          pc'[t] \in Unwritten => \A e \in cm'[t].cur : e.base < cm'[t].stamp
    BY DEF VersionsInv, StampsGrow, NothingNew, AddsNothing
  <2> QED
    BY <2>1, <2>3, <2>4 DEF VersionsInv, StampsGrow, NothingNew
<1>14. LookedUp'
  BY DEF VersionsInv, LookedUp, NothingNew, AddsNothing, Versioned, Unwritten
<1> QED
  BY <1>4, <1>5, <1>6, <1>7, <1>9, <1>10, <1>11, <1>12, <1>13, <1>14 DEF VersionsInv

(* Which steps those are ---------------------------------------------------- *)

\* A goroutine that ends adds nothing.
LEMMA FinishAddsNothing ==
  ASSUME TypeOK, NEW t \in Threads, Finish(t)
  PROVE  OthersWait(t) /\ \A u \in Threads : AddsNothing(u)
<1>1. OthersWait(t)
  BY DEF Finish, Goto, OthersWait, TypeOK, StateTypeOK
<1>2. pc'[t] = "idle" /\ cm'[t] = NoCommit /\ gu'[t] = NoGetUpdates
  BY DEF Finish, Goto, TypeOK, StateTypeOK
<1>3. AddsNothing(t)
  BY <1>2 DEF AddsNothing, NoCommit, NoGetUpdates, Unwritten
<1> QED
  BY <1>1, <1>3, WaitersAddNothing

\* A step of t that keeps rows, known, used and the clock, and leaves of its locals
\* what matters.
LEMMA QuietStep ==
  ASSUME TypeOK, NEW t \in Threads, OthersWait(t), AddsNothing(t),
         rows' = rows, known' = known, used' = used, clock' = clock
  PROVE  NothingNew
<1>1. \A u \in Threads : AddsNothing(u)
  BY WaitersAddNothing
<1>2. clock' >= clock
  BY DEF TypeOK, StateTypeOK
<1> QED
  BY <1>1, <1>2 DEF NothingNew

LEMMA FailAddsNothing ==
  ASSUME TypeOK, NEW t \in Threads, Fail(t)
  PROVE  NothingNew
BY FinishAddsNothing, QuietStep DEF Fail, storeVars, clientVars

LEMMA EntryFailsAddsNothing ==
  ASSUME TypeOK, NEW t \in Threads, EntryFails(t), gu' = gu,
         rows' = rows, known' = known, used' = used, clock' = clock
  PROVE  NothingNew
<1>1. pc'[t] = "entries" /\ cm'[t].todo = cm[t].todo /\ cm'[t].acks = cm[t].acks
  BY CommitLocals DEF EntryFails, Goto, TypeOK, StateTypeOK, CommitWork
<1>2. OthersWait(t)
  BY CommitLocals DEF EntryFails, Goto, OthersWait, TypeOK, StateTypeOK
<1>3. AddsNothing(t)
  BY <1>1 DEF AddsNothing, Unwritten
<1> QED
  BY <1>2, <1>3, QuietStep

\* The steps of the commit handler that only count, cache or fail.
CommitAside(t) ==
  \/ ReadCounts(t)
  \/ PeekInterim(t, "peekNormal", "normal", "peekHistory")
  \/ PeekInterim(t, "peekHistory", "history", "entries")
  \/ RejectOverQuota(t)
  \/ CountEntry(t, "countUp", FALSE)
  \/ CountEntry(t, "countDown", TRUE)
  \/ EntryStoreError(t)
  \/ DrainInterim(t, "entries", "normal", "drainHistory")
  \/ DrainInterim(t, "drainHistory", "history", "setMtime")
  \/ SaveMtime(t)
  \/ FlushCounts(t)
  \/ CountsStoreError(t)

LEMMA CommitAsideAddsNothing ==
  ASSUME TypeOK, NEW t \in Threads, CommitAside(t)
  PROVE  NothingNew
<1> USE CommitLocals DEF OthersWait, AddsNothing, Goto, Unwritten, CommitWork
<1>1. CASE ReadCounts(t)
  BY <1>1, QuietStep DEF ReadCounts, Local, storeVars, clientVars, TypeOK, StateTypeOK
<1>2. ASSUME NEW point, NEW c, NEW next \in {"peekHistory", "entries"},
             PeekInterim(t, point, c, next)
      PROVE  NothingNew
  BY <1>2, QuietStep DEF PeekInterim, Local, storeVars, clientVars, TypeOK, StateTypeOK
<1>3. CASE RejectOverQuota(t)
  BY <1>3, EntryFailsAddsNothing DEF RejectOverQuota, Local, storeVars, clientVars
<1>4. ASSUME NEW point, NEW subtract, CountEntry(t, point, subtract)
      PROVE  NothingNew
  <2>1. PICK c, x : cm' = [cm EXCEPT ![t].fresh[c] = x]
    BY <1>4 DEF CountEntry
  <2>2. pc' = [pc EXCEPT ![t] = "entries"] /\ pc \in [Threads -> Points]
    BY <1>4 DEF CountEntry, TypeOK, StateTypeOK
  <2>3. rows' = rows /\ known' = known /\ used' = used /\ clock' = clock /\ gu' = gu
    BY <1>4 DEF CountEntry, storeVars, clientVars
  <2>4. cm'[t].todo = cm[t].todo /\ cm'[t].acks = cm[t].acks
    BY <2>1
  <2>5. OthersWait(t)
    BY <2>1, <2>2, <2>3
  <2>6. AddsNothing(t)
    BY <2>2, <2>3, <2>4
  <2> QED
    BY <2>3, <2>5, <2>6, QuietStep
<1>5. CASE EntryStoreError(t)
  BY <1>5, EntryFailsAddsNothing DEF EntryStoreError, storeVars, clientVars
<1>6. ASSUME NEW point, NEW c, NEW next \in {"drainHistory", "setMtime"},
             DrainInterim(t, point, c, next)
      PROVE  NothingNew
  BY <1>6, QuietStep DEF DrainInterim, storeVars, clientVars, TypeOK, StateTypeOK
<1>7. CASE SaveMtime(t)
  <2>1. PICK ty : cm' = [cm EXCEPT ![t].mtimes[ty] = Miss]
    BY <1>7 DEF SaveMtime
  <2>2. /\ rows' = rows /\ known' = known /\ used' = used /\ clock' = clock /\ gu' = gu
        /\ pc' = pc /\ pc[t] = "setMtime"
    BY <1>7 DEF SaveMtime, At, storeVars, clientVars
  <2>3. cm'[t].todo = cm[t].todo /\ cm'[t].acks = cm[t].acks
    BY <2>1
  <2>4. OthersWait(t) /\ AddsNothing(t)
    BY <2>1, <2>2, <2>3
  <2> QED
    BY <2>2, <2>4, QuietStep
<1>8. CASE FlushCounts(t)
  BY <1>8, QuietStep
  DEF FlushCounts, UpdateClientItemCount, storeVars, clientVars, TypeOK, StateTypeOK
<1>9. CASE CountsStoreError(t)
  BY <1>9, FailAddsNothing DEF CountsStoreError, FailOnStoreError
<1> QED
  BY <1>1, <1>2, <1>3, <1>4, <1>5, <1>6, <1>7, <1>8, <1>9 DEF CommitAside

\* The steps of the other handlers that draw, read or write no version.
OtherAside(t) ==
  \/ SendGetUpdates(t)
  \/ CountDevices(t)
  \/ CheckFolders(t)
  \/ StartMarker(t)
  \/ CacheToken(t)
  \/ GetUpdatesStoreError(t)
  \/ SendClear(t)
  \/ ClearStep(t)

LEMMA OtherAsideAddsNothing ==
  ASSUME TypeOK, NEW t \in Threads, OtherAside(t)
  PROVE  NothingNew
<1> USE GetUpdatesLocals DEF OthersWait, AddsNothing, Goto, Unwritten, GetUpdatesWork
<1>1. CASE SendGetUpdates(t)
  <2>1. PICK origin \in OriginsSent, S \in SUBSET Types :
          gu' = [gu EXCEPT ![t].origin = origin, ![t].todo = S, ![t].tok = token[Dev(t)]]
    BY <1>1 DEF SendGetUpdates
  <2>2. rows' = rows /\ known' = known /\ used' = used /\ clock' = clock /\ cm' = cm
    BY <1>1 DEF SendGetUpdates, storeVars, clientVars
  <2>3. /\ \A u \in Threads \ {t} : pc'[u] = pc[u]
        /\ pc'[t] \in {"devices", "markers"}
    BY <1>1 DEF SendGetUpdates, Admit, TypeOK, StateTypeOK
  <2>4. gu'[t].got = gu[t].got /\ \A u \in Threads \ {t} : gu'[u] = gu[u]
    BY <2>1
  <2>5. OthersWait(t) /\ AddsNothing(t)
    BY <2>2, <2>3, <2>4
  <2> QED
    BY <2>2, <2>5, QuietStep
<1>2. CASE CountDevices(t)
  <2>1. CASE Fail(t)
    BY <2>1, FailAddsNothing
  <2>2. CASE /\ \E n : gu' = [gu EXCEPT ![t].active = n]
             /\ Goto(t, IF MoreDevices THEN "devices" ELSE "hasTag")
             /\ LocalGU(t)
    <3>1. rows' = rows /\ known' = known /\ used' = used /\ clock' = clock /\ cm' = cm
      BY <2>2 DEF LocalGU, storeVars, clientVars
    <3>2. /\ \A u \in Threads \ {t} : pc'[u] = pc[u]
          /\ pc'[t] \in {"devices", "hasTag"}
      BY <2>2 DEF TypeOK, StateTypeOK
    <3>3. gu'[t].got = gu[t].got /\ \A u \in Threads \ {t} : gu'[u] = gu[u]
      BY <2>2
    <3>4. OthersWait(t) /\ AddsNothing(t)
      BY <3>1, <3>2, <3>3
    <3> QED
      BY <3>1, <3>4, QuietStep
  <2> QED
    BY <1>2, <2>1, <2>2 DEF CountDevices
<1>3. CASE CheckFolders(t)
  BY <1>3, QuietStep DEF CheckFolders, LocalGU, storeVars, clientVars, TypeOK, StateTypeOK
<1>4. CASE StartMarker(t)
  <2>1. /\ \E todo, cur : gu' = [gu EXCEPT ![t].todo = todo, ![t].cur = cur]
        /\ Goto(t, "markers") \/ Goto(t, "query")
        /\ LocalGU(t)
    BY <1>4 DEF StartMarker
  <2>2. rows' = rows /\ known' = known /\ used' = used /\ clock' = clock /\ cm' = cm
    BY <2>1 DEF LocalGU, storeVars, clientVars
  <2>3. /\ \A u \in Threads \ {t} : pc'[u] = pc[u]
        /\ pc'[t] \in {"markers", "query"}
    BY <2>1 DEF TypeOK, StateTypeOK
  <2>4. gu'[t].got = gu[t].got /\ \A u \in Threads \ {t} : gu'[u] = gu[u]
    BY <2>1
  <2>5. OthersWait(t) /\ AddsNothing(t)
    BY <2>2, <2>3, <2>4
  <2> QED
    BY <2>2, <2>5, QuietStep
<1>5. CASE CacheToken(t)
  BY <1>5, QuietStep DEF CacheToken, storeVars, clientVars, TypeOK, StateTypeOK
<1>6. CASE GetUpdatesStoreError(t)
  BY <1>6, FailAddsNothing DEF GetUpdatesStoreError, FailOnStoreError
<1>7. CASE SendClear(t)
  BY <1>7, QuietStep DEF SendClear, Admit, storeVars, clientVars, TypeOK, StateTypeOK
<1>8. CASE Disable(t) \/ Scan(t)
  BY <1>8, QuietStep
  DEF Disable, DisableSyncChain, Scan, storeVars, clientVars, TypeOK, StateTypeOK
<1>9. CASE Wipe(t)
  <2>1. OthersWait(t) /\ AddsNothing(t)
    BY <1>9 DEF Wipe, TypeOK, StateTypeOK
  <2>2. \A i \in Ids : rows'[i] = NoRow
    BY <1>9 DEF Wipe, ClearServerData
  <2>3. known' = known /\ used' = used /\ clock' = clock /\ clock' >= clock
    BY <1>9 DEF Wipe, clientVars, TypeOK, StateTypeOK
  <2>4. \A u \in Threads : AddsNothing(u)
    BY <2>1, WaitersAddNothing
  <2> QED
    BY <2>2, <2>3, <2>4 DEF NothingNew
<1>10. CASE EvictAndReply(t)
  BY <1>10, FinishAddsNothing, QuietStep DEF EvictAndReply, storeVars, clientVars
<1>11. CASE ClearStoreError(t)
  BY <1>11, FailAddsNothing DEF ClearStoreError, FailOnStoreError
<1> QED
  BY <1>1, <1>2, <1>3, <1>4, <1>5, <1>6, <1>7, <1>8, <1>9, <1>10, <1>11
  DEF OtherAside, ClearStep

\* The steps of the environment.
LEMMA EnvironmentAddsNothing ==
  ASSUME TypeOK,
         \/ Tick \/ SetBack \/ Crash \/ AwaitRequests \/ UNCHANGED vars
         \/ \E t \in Threads : GiveUp(t)
         \/ \E ty \in Types : Expire(ty)
  PROVE  NothingNew
<1>1. \/ rows' = rows /\ known' = known /\ used' = used
         /\ pc' = pc /\ cm' = cm /\ gu' = gu
         /\ (ClockGoesBack \/ clock' >= clock)
      \/ Crash
  <2>1. clock \in Nat
    BY DEF TypeOK, StateTypeOK
  <2>2. CASE Tick \/ SetBack
    BY <2>1, <2>2 DEF Tick, SetBack, storeVars, clientVars
  <2>3. CASE AwaitRequests \/ UNCHANGED vars
    BY <2>1, <2>3 DEF AwaitRequests, vars
  <2>4. ASSUME NEW t \in Threads, GiveUp(t)
        PROVE  rows' = rows /\ known' = known /\ used' = used
               /\ pc' = pc /\ cm' = cm /\ gu' = gu
               /\ (ClockGoesBack \/ clock' >= clock)
    BY <2>1, <2>4 DEF GiveUp, storeVars, clientVars
  <2>5. ASSUME NEW ty \in Types, Expire(ty)
        PROVE  rows' = rows /\ known' = known /\ used' = used
               /\ pc' = pc /\ cm' = cm /\ gu' = gu
               /\ (ClockGoesBack \/ clock' >= clock)
    BY <2>1, <2>5 DEF Expire, storeVars, clientVars
  <2> QED
    BY <2>2, <2>3, <2>4, <2>5
<1>2. CASE Crash
  <2>1. \A t \in Threads :
          pc'[t] = "idle" /\ cm'[t] = NoCommit /\ gu'[t] = NoGetUpdates
    BY <1>2 DEF Crash
  <2>2. \A t \in Threads : AddsNothing(t)
    BY <2>1 DEF AddsNothing, NoCommit, NoGetUpdates, Unwritten
  <2>3. rows' = rows /\ known' = known /\ used' = used /\ clock' = clock /\ clock' >= clock
    BY <1>2 DEF Crash, storeVars, clientVars, TypeOK, StateTypeOK
  <2> QED
    BY <2>2, <2>3 DEF NothingNew
<1>3. CASE rows' = rows /\ known' = known /\ used' = used
           /\ pc' = pc /\ cm' = cm /\ gu' = gu
           /\ (ClockGoesBack \/ clock' >= clock)
  BY <1>3 DEF NothingNew, AddsNothing
<1> QED
  BY <1>1, <1>2, <1>3

(* Steps of the commit handler --------------------------------------------- *)

LEMMA SendCommitKeeps ==
  ASSUME TypeOK, TypeOK', VersionsInv, RoundTrip >= 1, ~ClockGoesBack, NEW t \in Threads, SendCommit(t)
  PROVE  VersionsInv'
<1> DEFINE d == Dev(t)
           Msg(S, dead) == {[id |-> i, base |-> known[d][i].version, deleted |-> i \in dead] : i \in S}
<1>1. PICK S \in SUBSET {i \in Ids : CanCreate(d, i) \/ CanUpdate(d, i)} :
        \E dead \in SUBSET {i \in S : CanDelete(d, i)} :
          /\ Admit(t, "count")
          /\ cm' = [cm EXCEPT ![t].todo = Msg(S, dead)]
          /\ used' = used \cup {i \in S : Versioned(i)}
          /\ UNCHANGED <<storeVars, cacheVars, clientVars, clock, gu, evict>>
  BY DEF SendCommit
<1>2. PICK dead \in SUBSET {i \in S : CanDelete(d, i)} :
          /\ Admit(t, "count")
          /\ cm' = [cm EXCEPT ![t].todo = Msg(S, dead)]
          /\ used' = used \cup {i \in S : Versioned(i)}
          /\ UNCHANGED <<storeVars, cacheVars, clientVars, clock, gu, evict>>
  BY <1>1
<1>3. rows' = rows /\ known' = known /\ clock' = clock /\ gu' = gu
  BY <1>2 DEF storeVars, clientVars
<1>4. /\ pc'[t] = "count"
      /\ cm'[t].todo = Msg(S, dead)
      /\ cm'[t].acks = cm[t].acks
      /\ OthersWait(t)
  BY <1>2, <1>3, CommitLocals DEF Admit, Goto, OthersWait, TypeOK, StateTypeOK
<1>5. \A e \in cm'[t].todo : /\ e.id \in S /\ e.base = known[d][e.id].version
                             /\ e.deleted = (e.id \in dead)
  BY <1>4
<1>6. d \in Devices /\ clock \in Nat /\ clock >= 1 /\ S \subseteq Ids
      /\ \A i \in Ids : known[d][i].version \in Nat
  BY DevType DEF TypeOK, StateTypeOK, Known, VersionsInv, StampsGrow
<1> HIDE DEF d, Msg
\* The entities to create are unheard of.
<1>7. \A i \in ToCreate(t)' : i \in Ids \ used /\ Versioned(i) /\ i \in S
  BY <1>1, <1>5, <1>6 DEF ToCreate, CanCreate, CanUpdate, Versioned
<1>8. Drawn(t)' = ToCreate(t)' /\ Creating(t)' = {} /\ ToPlant(t)' = {}
  BY <1>4 DEF Drawn, Creating, ToPlant
<1>9. \A u \in Threads \ {t} : Drawn(u)' = Drawn(u)
  BY <1>4 DEF OthersWait, Drawn, ToCreate, Creating, ToPlant, Versioned
<1>10. \A i \in Ids : Blank(i)' = Blank(i)
  BY <1>3, <1>4 DEF Blank, OthersWait, Stored
<1>11. DrawnOnce'
  <2>1. \A u \in Threads \ {t} : Drawn(t)' \cap Drawn(u)' = {}
    BY <1>7, <1>8, <1>9 DEF VersionsInv, DrawnIsUsed
  <2>2. \A e, f \in cm'[t].todo : e.id = f.id => e = f
    BY <1>4 DEF Msg
  <2> QED
    BY <1>4, <1>8, <1>9, <2>1, <2>2
    DEF VersionsInv, DrawnOnce, OthersWait, ToCreate, Creating, ToPlant, Versioned
<1>12. DrawnIsUsed'
  BY <1>2, <1>7, <1>8, <1>9 DEF VersionsInv, DrawnIsUsed, Versioned
<1>13. DrawnIsBlank'
  BY <1>7, <1>8, <1>9, <1>10 DEF VersionsInv, DrawnIsBlank, DrawnIsUsed, UnusedIsBlank, TypeOK, StateTypeOK
<1>14. UnusedIsBlank'
  BY <1>2, <1>10 DEF VersionsInv, UnusedIsBlank, Versioned
<1>15. KnownVersionsAgree'
  BY <1>3 DEF VersionsInv, KnownVersionsAgree, Stored, Versioned
<1>16. AcksAgree'
  BY <1>3, <1>4 DEF VersionsInv, AcksAgree, OthersWait, Agrees, Stored, Versioned
<1>17. UpdatesAgree'
  BY <1>3 DEF VersionsInv, UpdatesAgree, Agrees, Stored, Versioned
<1>18. BasesKnown'
  <2>1. \A e \in cm'[t].todo : Versioned(e.id) /\ e.base # 0 => Based(d, e)'
    BY <1>1, <1>3, <1>5, <1>6 DEF Based, CanCreate, CanUpdate
  <2>2. \A u \in Threads, e \in Entry : Based(Dev(u), e)' = Based(Dev(u), e)
    BY <1>3 DEF Based
  <2> QED
    BY <1>4, <2>1, <2>2, CommitLocals DEF VersionsInv, BasesKnown, OthersWait, Versioned, d
<1>19. StampsGrow'
  <2>1. \A e \in cm'[t].todo : e.base < clock
    BY <1>1, <1>5, <1>6, BoundAssumption DEF CanCreate, CanUpdate
  <2> QED
    BY <1>3, <1>4, <2>1 DEF VersionsInv, StampsGrow, OthersWait, Unwritten
<1>20. LookedUp'
  BY <1>4 DEF VersionsInv, LookedUp, OthersWait, Versioned
<1> QED
  BY <1>11, <1>12, <1>13, <1>14, <1>15, <1>16, <1>17, <1>18, <1>19, <1>20 DEF VersionsInv

LEMMA StartEntryKeeps ==
  ASSUME TypeOK, TypeOK', VersionsInv, NEW t \in Threads, StartEntry(t)
  PROVE  VersionsInv'
<1>1. PICK e \in cm[t].todo :
        /\ cm' = [cm EXCEPT ![t].todo = @ \ {e}, ![t].cur = {e}, ![t].stamp = clock]
        /\ Goto(t, CASE ~Versioned(e.id) -> "hasItem"
                     [] Versioned(e.id) /\ e.base # 0 -> "update"
                     [] OTHER -> "create")
  BY DEF StartEntry
<1>2. rows' = rows /\ known' = known /\ used' = used /\ gu' = gu /\ pc[t] = "entries"
  BY DEF StartEntry, At, storeVars, clientVars
<1>3. clock \in Nat /\ clock' \in Nat /\ clock' >= clock
  BY BoundAssumption DEF StartEntry, Stamped, TypeOK, StateTypeOK
<1>4. /\ cm'[t].todo = cm[t].todo \ {e}
      /\ cm'[t].cur = {e}
      /\ cm'[t].stamp = clock
      /\ cm'[t].acks = cm[t].acks
      /\ \A u \in Threads \ {t} : cm'[u] = cm[u]
  BY <1>1, CommitLocals
<1>5. /\ \A u \in Threads \ {t} : pc'[u] = pc[u]
      /\ \/ pc'[t] = "hasItem" /\ ~Versioned(e.id)
         \/ pc'[t] = "update" /\ Versioned(e.id) /\ e.base # 0
         \/ pc'[t] = "create" /\ Versioned(e.id) /\ e.base = 0
  <2> DEFINE next == CASE ~Versioned(e.id) -> "hasItem"
                       [] Versioned(e.id) /\ e.base # 0 -> "update"
                       [] OTHER -> "create"
  <2>1. pc' = [pc EXCEPT ![t] = next]
    BY <1>1 DEF Goto
  <2>2. \/ next = "hasItem" /\ ~Versioned(e.id)
        \/ next = "update" /\ Versioned(e.id) /\ e.base # 0
        \/ next = "create" /\ Versioned(e.id) /\ e.base = 0
    <3>1. CASE ~Versioned(e.id)
      BY <3>1
    <3>2. CASE Versioned(e.id) /\ e.base # 0
      BY <3>2
    <3>3. CASE Versioned(e.id) /\ e.base = 0
      BY <3>3
    <3> QED
      BY <3>1, <3>2, <3>3
  <2> HIDE DEF next
  <2>3. pc'[t] = next /\ \A u \in Threads \ {t} : pc'[u] = pc[u]
    BY <2>1 DEF TypeOK, StateTypeOK
  <2> QED
    BY <2>2, <2>3
<1>6. OthersWait(t)
  BY <1>2, <1>4, <1>5 DEF OthersWait
\* The entry leaves the list, and its uuid is the one being written, if it is new.
<1>7. /\ ToCreate(t)' \subseteq ToCreate(t)
      /\ Creating(t)' \subseteq ToCreate(t)
      /\ Creating(t)' \cap ToCreate(t)' = {}
      /\ ToPlant(t)' = {}
  <2>1. ToCreate(t)' \subseteq ToCreate(t)
    BY <1>4 DEF ToCreate, Versioned
  <2>2. Creating(t)' \subseteq ToCreate(t)
    BY <1>4, <1>5 DEF ToCreate, Creating, Versioned
  <2>3. Creating(t)' \cap ToCreate(t)' = {}
    BY <1>4, <1>5 DEF ToCreate, Creating, VersionsInv, DrawnOnce
  <2> QED
    BY <1>5, <2>1, <2>2, <2>3 DEF ToPlant
<1>8. \A u \in Threads : Drawn(u)' \subseteq Drawn(u)
  <2>1. Drawn(t)' \subseteq Drawn(t)
    BY <1>7 DEF Drawn
  <2>2. \A u \in Threads \ {t} : AddsNothing(u)
    BY <1>6, WaitersAddNothing
  <2> QED
    BY <2>1, <2>2, DrawnShrinks
<1>9. \A i \in Ids : Blank(i)' = Blank(i)
  BY <1>2, <1>4 DEF Blank, Stored
<1>10. DrawnOnce'
  <2>1. \A u, w \in Threads : u # w => (Drawn(u) \cap Drawn(w) = {})'
    BY <1>8 DEF VersionsInv, DrawnOnce
  <2>2. \A u \in Threads \ {t} :
          /\ (ToCreate(u) \cap Creating(u) = {})'
          /\ (ToCreate(u) \cap ToPlant(u) = {})'
          /\ \A f, g \in cm'[u].todo : f.id = g.id => f = g
    BY <1>6 DEF VersionsInv, DrawnOnce, OthersWait, ToCreate, Creating, ToPlant, Versioned
  <2>3. \A f, g \in cm'[t].todo : f.id = g.id => f = g
    BY <1>4 DEF VersionsInv, DrawnOnce
  <2> QED
    BY <1>7, <2>1, <2>2, <2>3 DEF DrawnOnce
<1>11. DrawnIsUsed'
  BY <1>2, <1>8 DEF VersionsInv, DrawnIsUsed, Versioned
<1>12. DrawnIsBlank'
  <2>1. \A u \in Threads : Drawn(u) \subseteq Ids
    BY DEF VersionsInv, DrawnIsUsed, TypeOK, StateTypeOK
  <2> QED
    BY <1>8, <1>9, <2>1 DEF VersionsInv, DrawnIsBlank
<1>13. UnusedIsBlank'
  BY <1>2, <1>9 DEF VersionsInv, UnusedIsBlank, Versioned
<1>14. KnownVersionsAgree'
  BY <1>2 DEF VersionsInv, KnownVersionsAgree, Stored, Versioned
<1>15. AcksAgree'
  BY <1>2, <1>4 DEF VersionsInv, AcksAgree, Agrees, Stored, Versioned
<1>16. UpdatesAgree'
  BY <1>2 DEF VersionsInv, UpdatesAgree, Agrees, Stored, Versioned
<1>17. BasesKnown'
  <2>1. \A u \in Threads, f \in Entry : Based(Dev(u), f)' = Based(Dev(u), f)
    BY <1>2 DEF Based
  <2>2. Versioned(e.id) /\ e.base # 0 => Based(Dev(t), e)
    BY DEF VersionsInv, BasesKnown
  <2>3. \A f \in cm'[t].cur : Versioned(f.id) /\ pc'[t] = "update" => Based(Dev(t), f)'
    BY <1>4, <1>5, <2>1, <2>2, CommitLocals
  <2>4. \A f \in cm'[t].todo : Versioned(f.id) /\ f.base # 0 => Based(Dev(t), f)'
    BY <1>4, <2>1, CommitLocals DEF VersionsInv, BasesKnown
  <2> QED
    BY <1>6, <2>1, <2>3, <2>4, CommitLocals DEF VersionsInv, BasesKnown, OthersWait, Versioned
<1>18. StampsGrow'
  <2>1. e.base < clock
    BY DEF VersionsInv, StampsGrow
  <2>2. \A u \in Threads : \A f \in cm'[u].todo : f.base \in Nat /\ f.base < clock
    BY <1>4, CommitLocals DEF VersionsInv, StampsGrow, Entry
  <2>3. \A u \in Threads : \A f \in cm'[u].todo : f.base < clock'
    BY <1>3, <2>2
  <2>4. \A u \in Threads :
          pc'[u] \in Unwritten => \A f \in cm'[u].cur : f.base < cm'[u].stamp
    BY <1>4, <1>5, <2>1 DEF VersionsInv, StampsGrow
  <2> QED
    BY <1>3, <2>3, <2>4 DEF VersionsInv, StampsGrow
<1>19. LookedUp'
  BY <1>4, <1>5 DEF VersionsInv, LookedUp, Versioned
<1> QED
  BY <1>10, <1>11, <1>12, <1>13, <1>14, <1>15, <1>16, <1>17, <1>18, <1>19 DEF VersionsInv

LEMMA CheckItemKeeps ==
  ASSUME TypeOK, TypeOK', VersionsInv, NEW t \in Threads, CheckItem(t)
  PROVE  VersionsInv'
<1>1. /\ rows' = rows /\ known' = known /\ used' = used /\ gu' = gu /\ cm' = cm
      /\ clock' = clock /\ pc[t] = "hasItem"
  BY DEF CheckItem, Local, At, storeVars, clientVars
<1>2. pc'[t] \in {"update", "create"} /\ \A u \in Threads \ {t} : pc'[u] = pc[u]
  BY DEF CheckItem, Goto, TypeOK, StateTypeOK
<1>3. \A e \in cm[t].cur : ~Versioned(e.id)
  BY <1>1 DEF VersionsInv, LookedUp
\* A history item is not a uuid that was drawn.
<1>4. \A u \in Threads : /\ ToCreate(u)' = ToCreate(u)
                         /\ Creating(u)' = Creating(u)
                         /\ ToPlant(u)' = ToPlant(u)
  BY <1>1, <1>2, <1>3 DEF ToCreate, Creating, ToPlant, Versioned
<1>5. \A u \in Threads : Drawn(u)' = Drawn(u)
  BY <1>4 DEF Drawn
<1>6. \A i : Blank(i)' = Blank(i)
  BY <1>1 DEF Blank, Stored
<1>7. DrawnOnce'
  BY <1>1, <1>4, <1>5 DEF VersionsInv, DrawnOnce
<1>8. DrawnIsUsed' /\ DrawnIsBlank' /\ UnusedIsBlank'
  BY <1>1, <1>5, <1>6 DEF VersionsInv, DrawnIsUsed, DrawnIsBlank, UnusedIsBlank, Versioned
<1>9. KnownVersionsAgree' /\ AcksAgree' /\ UpdatesAgree'
  BY <1>1
  DEF VersionsInv, KnownVersionsAgree, AcksAgree, UpdatesAgree, Agrees, Stored, Versioned
<1>10. BasesKnown'
  BY <1>1, <1>2, <1>3 DEF VersionsInv, BasesKnown, Based, Versioned
<1>11. StampsGrow'
  BY <1>1, <1>2 DEF VersionsInv, StampsGrow, Unwritten
<1>12. LookedUp'
  BY <1>1, <1>2 DEF VersionsInv, LookedUp, Versioned
<1> QED
  BY <1>7, <1>8, <1>9, <1>10, <1>11, <1>12 DEF VersionsInv

\* All that is known of i, or will be told of it, is older than version.
Outdates(version, i) ==
  /\ \A d \in Devices : known[d][i].version < version
  /\ \A u \in Threads : /\ \A a \in cm[u].acks : a.id = i => a.version < version
                        /\ \A x \in gu[u].got : x.id = i => x.version < version

\* An entry is acknowledged: its row is written, or, if there is none, is not.
LEMMA EntrySucceedsKeeps ==
  ASSUME TypeOK, TypeOK', VersionsInv, NEW t \in Threads,
         NEW e \in cm[t].cur,
         NEW point \in {"entries", "countUp", "countDown"},
         EntrySucceeds(t, e, point),
         \/ rows' = rows /\ (Versioned(e.id) => ~Stored(e.id))
         \/ rows' = [rows EXCEPT ![e.id] = RowFor(t, e)],
         Versioned(e.id) => /\ Outdates(cm[t].stamp, e.id)
                            /\ e.id \in used
                            /\ e.id \notin ToCreate(t)
                            /\ \A u \in Threads \ {t} : e.id \notin Drawn(u),
         known' = known, used' = used, gu' = gu, clock' = clock
  PROVE  VersionsInv'
<1> DEFINE ack == [id |-> e.id, version |-> cm[t].stamp, deleted |-> e.deleted]
<1>1. /\ cm'[t].todo = cm[t].todo
      /\ cm'[t].acks = cm[t].acks \cup {ack}
      /\ \A u \in Threads \ {t} : cm'[u] = cm[u]
  BY CommitLocals DEF EntrySucceeds
<1>2. pc'[t] = point /\ \A u \in Threads \ {t} : pc'[u] = pc[u]
  BY DEF EntrySucceeds, Goto, TypeOK, StateTypeOK
<1>3. OthersWait(t)
  BY <1>1, <1>2 DEF OthersWait
<1>4. e.id \in Ids /\ cm[t].stamp \in Nat /\ t \in Threads /\ Dev(t) \in Devices
  BY CommitLocals, DevType DEF Entry, CommitWork
<1>5. /\ \A i \in Ids \ {e.id} : rows'[i] = rows[i]
      /\ Versioned(e.id) /\ Stored(e.id)' => rows'[e.id] = RowFor(t, e)
  BY <1>4 DEF TypeOK, StoreTypeOK, Stored, Versioned
<1>6. /\ RowFor(t, e).version = cm[t].stamp
      /\ RowFor(t, e).deleted = e.deleted
      /\ RowFor(t, e).by = Dev(t)
  BY DEF RowFor
<1>7. /\ ack.id = e.id /\ ack.version = cm[t].stamp /\ ack.deleted = e.deleted
  OBVIOUS
<1> HIDE DEF ack
<1>8. /\ ToCreate(t)' = ToCreate(t) /\ Creating(t)' = {} /\ ToPlant(t)' = {}
      /\ \A u \in Threads \ {t} : /\ ToCreate(u)' = ToCreate(u)
                                  /\ Creating(u)' = Creating(u)
                                  /\ ToPlant(u)' = ToPlant(u)
  BY <1>1, <1>2, <1>3 DEF OthersWait, ToCreate, Creating, ToPlant, Versioned
<1>9. /\ \A u \in Threads : Drawn(u)' \subseteq Drawn(u)
      /\ Drawn(t)' = ToCreate(t)
  BY <1>8 DEF Drawn
<1>10. \A i \in Ids \ {e.id} : Blank(i)' = Blank(i)
  <2>1. \A i \in Ids \ {e.id} : (\A a \in cm'[t].acks : a.id # i) <=> (\A a \in cm[t].acks : a.id # i)
    BY <1>1, <1>7
  <2>2. \A i \in Ids \ {e.id} : Stored(i)' = Stored(i)
    BY <1>5 DEF Stored
  <2> QED
    BY <1>1, <2>1, <2>2 DEF Blank
<1>11. DrawnOnce'
  BY <1>1, <1>3, <1>8, <1>9 DEF VersionsInv, DrawnOnce, OthersWait
<1>12. DrawnIsUsed'
  BY <1>9 DEF VersionsInv, DrawnIsUsed, Versioned
<1>13. DrawnIsBlank'
  <2>1. \A u \in Threads : \A i \in Drawn(u)' : i \in Ids /\ Versioned(i) /\ i \in Drawn(u)
    BY <1>9 DEF VersionsInv, DrawnIsUsed, TypeOK, StateTypeOK
  <2>2. \A u \in Threads : \A i \in Drawn(u)' : i # e.id
    BY <1>9, <2>1
  <2> QED
    BY <1>10, <2>1, <2>2 DEF VersionsInv, DrawnIsBlank
<1>14. UnusedIsBlank'
  BY <1>10 DEF VersionsInv, UnusedIsBlank, Versioned
\* Whoever knows another version of the entity knows an older one.
<1>15. KnownVersionsAgree'
  <2>1. ASSUME NEW d \in Devices, Versioned(e.id), Stored(e.id)'
        PROVE  known[d][e.id].version < rows'[e.id].version
    BY <1>5, <1>6, <2>1 DEF Outdates
  <2>2. \A d \in Devices : known[d][e.id].version \in Nat
    BY <1>4 DEF TypeOK, StateTypeOK, Known
  <2>3. ASSUME NEW d \in Devices, Versioned(e.id), Stored(e.id)'
        PROVE  /\ known[d][e.id].version <= rows'[e.id].version
               /\ known[d][e.id].version # rows'[e.id].version
    BY <1>4, <1>5, <1>6, <2>1, <2>2, <2>3
  <2>4. \A i \in Ids \ {e.id} : Stored(i)' = Stored(i)
    BY <1>5 DEF Stored
  <2> QED
    BY <1>5, <2>3, <2>4 DEF VersionsInv, KnownVersionsAgree, Versioned
<1>16. \A i \in Ids \ {e.id} : \A version, deleted, by :
         Agrees(i, version, deleted, by) => Agrees(i, version, deleted, by)'
  BY <1>5 DEF Agrees, Stored
<1>17. ASSUME NEW version \in Nat, NEW deleted, NEW by,
              Versioned(e.id), version < cm[t].stamp
       PROVE  Agrees(e.id, version, deleted, by)'
  BY <1>4, <1>5, <1>6, <1>17 DEF Agrees
<1>18. AcksAgree'
  <2>1. \A u \in Threads : \A a \in cm[u].acks : a.id \in Ids /\ a.version \in Nat
    BY CommitLocals DEF Ack
  <2>2. ASSUME NEW u \in Threads, NEW a \in cm[u].acks, Versioned(a.id)
        PROVE  Agrees(a.id, a.version, a.deleted, Dev(u))'
    BY <1>16, <1>17, <2>1, <2>2 DEF VersionsInv, AcksAgree, Outdates
  <2>3. ASSUME NEW a \in cm'[t].acks, a \notin cm[t].acks, Versioned(a.id)
        PROVE  Agrees(a.id, a.version, a.deleted, Dev(t))'
    <3>1. a.id = e.id /\ a.version = cm[t].stamp /\ a.deleted = e.deleted
      BY <1>1, <1>7, <2>3
    <3>2. Stored(a.id)' => rows'[a.id] = RowFor(t, e)
      BY <1>5, <2>3, <3>1
    <3> QED
      BY <1>4, <1>6, <3>1, <3>2 DEF Agrees
  <2> QED
    BY <1>1, <2>2, <2>3 DEF AcksAgree, Versioned
<1>19. UpdatesAgree'
  <2>1. \A u \in Threads : \A x \in gu[u].got : x.id \in Ids /\ x.version \in Nat
    BY GetUpdatesLocals DEF Update
  <2>2. ASSUME NEW u \in Threads, NEW x \in gu[u].got, Versioned(x.id)
        PROVE  Agrees(x.id, x.version, x.deleted, x.by)'
    BY <1>16, <1>17, <2>1, <2>2 DEF VersionsInv, UpdatesAgree, Outdates
  <2> QED
    BY <2>2 DEF UpdatesAgree, Versioned
<1>20. BasesKnown'
  <2>1. \A u \in Threads : \A f : Based(Dev(u), f)' = Based(Dev(u), f)
    BY DEF Based
  <2> QED
    BY <1>1, <1>2, <1>3, <2>1 DEF VersionsInv, BasesKnown, OthersWait, Versioned
<1>21. StampsGrow'
  BY <1>1, <1>2, <1>3 DEF VersionsInv, StampsGrow, OthersWait, Unwritten
<1>22. LookedUp'
  BY <1>2, <1>3 DEF VersionsInv, LookedUp, OthersWait, Versioned
<1> QED
  BY <1>11, <1>12, <1>13, <1>14, <1>15, <1>18, <1>19, <1>20, <1>21, <1>22 DEF VersionsInv

\* A new uuid is outdated by any stamp.
LEMMA CreatingIsFresh ==
  ASSUME TypeOK, VersionsInv, NEW t \in Threads, pc[t] = "create",
         NEW e \in cm[t].cur, Versioned(e.id)
  PROVE  /\ ~Stored(e.id)
         /\ Outdates(cm[t].stamp, e.id)
         /\ e.id \in used
         /\ e.id \notin ToCreate(t)
         /\ \A u \in Threads \ {t} : e.id \notin Drawn(u)
<1>1. e.id \in Creating(t) /\ e.id \in Drawn(t)
  BY DEF Creating, Drawn
<1>2. e.base \in Nat /\ cm[t].stamp \in Nat /\ e.base < cm[t].stamp
  BY CommitLocals DEF VersionsInv, StampsGrow, Unwritten, CommitWork, Entry
<1>3. Blank(e.id)
  BY <1>1 DEF VersionsInv, DrawnIsBlank
<1>4. Outdates(cm[t].stamp, e.id)
  BY <1>2, <1>3 DEF Blank, Outdates
<1>5. e.id \in used /\ e.id \notin ToCreate(t)
  BY <1>1 DEF VersionsInv, DrawnIsUsed, DrawnOnce
<1>6. \A u \in Threads \ {t} : e.id \notin Drawn(u)
  BY <1>1 DEF VersionsInv, DrawnOnce
<1> QED
  BY <1>3, <1>4, <1>5, <1>6 DEF Blank

LEMMA PretendStoredKeeps ==
  ASSUME TypeOK, TypeOK', VersionsInv, NEW t \in Threads, PretendStored(t)
  PROVE  VersionsInv'
<1>1. PICK e \in cm[t].cur : EntrySucceeds(t, e, "entries")
  BY DEF PretendStored
<1>2. /\ pc[t] = "create" /\ rows' = rows /\ known' = known /\ used' = used
      /\ gu' = gu /\ clock' = clock
  BY DEF PretendStored, At, Local, storeVars, clientVars
<1> QED
  BY <1>1, <1>2, CreatingIsFresh, EntrySucceedsKeeps

LEMMA InsertEntryKeeps ==
  ASSUME TypeOK, TypeOK', VersionsInv, NEW t \in Threads, InsertEntry(t)
  PROVE  VersionsInv'
<1>1. PICK e \in cm[t].cur : /\ InsertSyncEntity(e.id, RowFor(t, e))
                             /\ EntrySucceeds(t, e, "countUp")
  BY DEF InsertEntry
<1>2. /\ pc[t] = "create" /\ known' = known /\ used' = used /\ gu' = gu /\ clock' = clock
  BY DEF InsertEntry, At, clientVars
<1>3. Versioned(e.id) => ~Stored(e.id)
  BY <1>2, CreatingIsFresh
<1>4. \/ rows' = rows /\ (Versioned(e.id) => ~Stored(e.id))
      \/ rows' = [rows EXCEPT ![e.id] = RowFor(t, e)]
  BY <1>1, <1>3 DEF InsertSyncEntity, storeVars
<1> QED
  BY <1>1, <1>2, <1>4, CreatingIsFresh, EntrySucceedsKeeps

\* The row an update replaces has the version the update is based on.
LEMMA UpdatedIsKnown ==
  ASSUME TypeOK, VersionsInv, NEW t \in Threads, pc[t] = "update",
         NEW e \in cm[t].cur, ~UpdateConflicts(e.id, e.base), Versioned(e.id)
  PROVE  /\ Stored(e.id)
         /\ rows[e.id].version = e.base
         /\ known[Dev(t)][e.id].version = e.base
         /\ e.base < cm[t].stamp
<1>1. e.id \in Ids /\ e.base \in Nat /\ e \in Entry
  BY CommitLocals DEF Entry
<1>2. Stored(e.id) /\ rows[e.id].version = e.base
  BY DEF UpdateConflicts
<1>3. Dev(t) \in Devices /\ known[Dev(t)][e.id].version \in Nat
  BY <1>1, DevType DEF TypeOK, StateTypeOK, Known
<1>4. e.base <= known[Dev(t)][e.id].version
  BY DEF VersionsInv, BasesKnown, Based
<1>5. known[Dev(t)][e.id].version <= rows[e.id].version
  BY <1>1, <1>2, <1>3 DEF VersionsInv, KnownVersionsAgree
<1>6. e.base < cm[t].stamp
  BY DEF VersionsInv, StampsGrow, Unwritten
<1> QED
  BY <1>1, <1>2, <1>3, <1>4, <1>5, <1>6

LEMMA UpdateEntryKeeps ==
  ASSUME TypeOK, TypeOK', VersionsInv, ~ClockGoesBack, NEW t \in Threads, UpdateEntry(t)
  PROVE  VersionsInv'
<1>1. /\ pc[t] = "update" /\ known' = known /\ used' = used /\ gu' = gu /\ clock' = clock
  BY DEF UpdateEntry, At, clientVars
<1>2. CASE EntryFails(t) /\ UNCHANGED storeVars
  BY <1>1, <1>2, EntryFailsAddsNothing, NothingNewKeeps DEF storeVars
<1>3. ASSUME NEW e \in cm[t].cur, NEW point \in {"entries", "countDown"},
             ~UpdateConflicts(e.id, e.base),
             rows' = [rows EXCEPT ![e.id] = RowFor(t, e)],
             EntrySucceeds(t, e, point)
      PROVE  VersionsInv'
  <2>1. CASE ~Versioned(e.id)
    BY <1>1, <1>3, <2>1, EntrySucceedsKeeps
  <2>2. CASE Versioned(e.id)
    <3>1. e.id \in Ids /\ e.base \in Nat /\ cm[t].stamp \in Nat
      BY CommitLocals DEF Entry, CommitWork
    <3>2. /\ Stored(e.id)
          /\ rows[e.id].version = e.base
          /\ e.base < cm[t].stamp
      BY <1>1, <1>3, <2>2, UpdatedIsKnown
    <3>3. \A d \in Devices : known[d][e.id].version < cm[t].stamp
      <4>1. \A d \in Devices : /\ known[d][e.id].version \in Nat
                               /\ known[d][e.id].version <= rows[e.id].version
        BY <2>2, <3>1, <3>2 DEF VersionsInv, KnownVersionsAgree, TypeOK, StateTypeOK, Known
      <4> QED
        BY <3>1, <3>2, <4>1
    <3>4. \A u \in Threads : \A a \in cm[u].acks : a.id = e.id => a.version < cm[t].stamp
      <4>1. ASSUME NEW u \in Threads, NEW a \in cm[u].acks, a.id = e.id
            PROVE  a.version \in Nat /\ a.version <= rows[e.id].version
        BY <2>2, <3>2, <4>1, CommitLocals DEF VersionsInv, AcksAgree, Agrees, Ack
      <4> QED
        BY <3>1, <3>2, <4>1
    <3>5. \A u \in Threads : \A x \in gu[u].got : x.id = e.id => x.version < cm[t].stamp
      <4>1. ASSUME NEW u \in Threads, NEW x \in gu[u].got, x.id = e.id
            PROVE  x.version \in Nat /\ x.version <= rows[e.id].version
        BY <2>2, <3>2, <4>1, GetUpdatesLocals DEF VersionsInv, UpdatesAgree, Agrees, Update
      <4> QED
        BY <3>1, <3>2, <4>1
    <3>6. \A u \in Threads : e.id \notin Drawn(u)
      BY <3>2 DEF VersionsInv, DrawnIsBlank, Blank
    <3>7. e.id \in used /\ e.id \notin ToCreate(t)
      BY <2>2, <3>1, <3>2, <3>6 DEF VersionsInv, UnusedIsBlank, Blank, Drawn
    <3>8. Outdates(cm[t].stamp, e.id)
      BY <3>3, <3>4, <3>5 DEF Outdates
    <3> QED
      BY <1>1, <1>3, <3>6, <3>7, <3>8, EntrySucceedsKeeps
  <2> QED
    BY <2>1, <2>2
<1>4. CASE \E e \in cm[t].cur :
             /\ ~UpdateConflicts(e.id, e.base)
             /\ UpdateSyncEntity(e.id, RowFor(t, e))
             /\ EntrySucceeds(t, e,
                  IF BecomesDeleted(e.id, e.deleted) THEN "countDown" ELSE "entries")
  <2>1. PICK e \in cm[t].cur :
             /\ ~UpdateConflicts(e.id, e.base)
             /\ UpdateSyncEntity(e.id, RowFor(t, e))
             /\ EntrySucceeds(t, e,
                  IF BecomesDeleted(e.id, e.deleted) THEN "countDown" ELSE "entries")
    BY <1>4
  <2>2. rows' = [rows EXCEPT ![e.id] = RowFor(t, e)]
    BY <2>1 DEF UpdateSyncEntity
  <2>3. CASE BecomesDeleted(e.id, e.deleted)
    <3>1. EntrySucceeds(t, e, "countDown")
      BY <2>1, <2>3
    <3> QED
      BY <1>3, <2>1, <2>2, <3>1
  <2>4. CASE ~BecomesDeleted(e.id, e.deleted)
    <3>1. EntrySucceeds(t, e, "entries")
      BY <2>1, <2>4
    <3> QED
      BY <1>3, <2>1, <2>2, <3>1
  <2> QED
    BY <2>3, <2>4
<1> QED
  BY <1>2, <1>4 DEF UpdateEntry

(* Responses ---------------------------------------------------------------- *)

\* A goroutine ends and its device learns of versions that agree with the rows.
LEMMA LearningKeeps ==
  ASSUME TypeOK, TypeOK', VersionsInv, NEW t \in Threads, Finish(t),
         rows' = rows, used' = used, clock' = clock,
         \A d \in Devices \ {Dev(t)} : known'[d] = known[d],
         \A i \in Ids :
           LET k == known'[Dev(t)][i] IN
           \/ k = known[Dev(t)][i]
           \/ /\ ~Blank(i)
              /\ k.version > known[Dev(t)][i].version
              /\ Versioned(i) => Agrees(i, k.version, k.deleted, k.by)
  PROVE  VersionsInv'
<1> DEFINE d == Dev(t)
<1>1. d \in Devices
  BY DevType
<1>2. OthersWait(t) /\ \A u \in Threads : AddsNothing(u)
  BY FinishAddsNothing
<1>3. \A u \in Threads : /\ ToCreate(u)' \subseteq ToCreate(u)
                         /\ Creating(u)' \subseteq Creating(u)
                         /\ ToPlant(u)' \subseteq ToPlant(u)
                         /\ Drawn(u)' \subseteq Drawn(u)
  BY <1>2, DrawnShrinks
<1>4. \A i \in Ids : Blank(i) => Blank(i)'
  <2>1. ASSUME NEW i \in Ids, Blank(i)
        PROVE  \A c \in Devices : known'[c][i].version = 0
    BY <1>1, <2>1 DEF Blank
  <2> QED
    BY <1>2, <2>1 DEF Blank, AddsNothing, Stored
<1>5. DrawnOnce'
  <2>1. \A u, w \in Threads : u # w => (Drawn(u) \cap Drawn(w) = {})'
    BY <1>3 DEF VersionsInv, DrawnOnce
  <2>2. \A u \in Threads :
          /\ (ToCreate(u) \cap Creating(u) = {})'
          /\ (ToCreate(u) \cap ToPlant(u) = {})'
          /\ \A e, f \in cm'[u].todo : e.id = f.id => e = f
    BY <1>2, <1>3 DEF VersionsInv, DrawnOnce, AddsNothing
  <2> QED
    BY <2>1, <2>2 DEF DrawnOnce
<1>6. DrawnIsUsed'
  BY <1>3 DEF VersionsInv, DrawnIsUsed, Versioned
<1>7. DrawnIsBlank'
  BY <1>3, <1>4 DEF VersionsInv, DrawnIsBlank, DrawnIsUsed, TypeOK, StateTypeOK
<1>8. UnusedIsBlank'
  BY <1>4 DEF VersionsInv, UnusedIsBlank, Versioned
<1>9. KnownVersionsAgree'
  <2>1. ASSUME NEW i \in Ids, Versioned(i), Stored(i)
        PROVE  /\ known'[d][i].version <= rows[i].version
               /\ known'[d][i].version = rows[i].version =>
                    known'[d][i].deleted = rows[i].deleted /\ known'[d][i].by = rows[i].by
    BY <1>1, <2>1 DEF VersionsInv, KnownVersionsAgree, Agrees
  <2> QED
    BY <2>1 DEF VersionsInv, KnownVersionsAgree, Stored, Versioned
<1>10. AcksAgree'
  BY <1>2 DEF VersionsInv, AcksAgree, AddsNothing, Agrees, Stored, Versioned
<1>11. UpdatesAgree'
  BY <1>2 DEF VersionsInv, UpdatesAgree, AddsNothing, Agrees, Stored, Versioned
\* A device that learns something new does not lose what its commits are based on.
<1>12. BasesKnown'
  <2>1. ASSUME NEW u \in Threads, NEW e \in Entry, Based(Dev(u), e)
        PROVE  Based(Dev(u), e)'
    <3>1. CASE known'[Dev(u)][e.id] = known[Dev(u)][e.id]
      BY <2>1, <3>1 DEF Based
    <3>2. CASE Dev(u) = d /\ known'[d][e.id].version > known[d][e.id].version
      <4>1. /\ e.base \in Nat
            /\ known[d][e.id].version \in Nat
            /\ known'[d][e.id].version \in Nat
        BY <1>1 DEF Entry, TypeOK, StateTypeOK, Known
      <4> QED
        BY <2>1, <3>2, <4>1 DEF Based
    <3> QED
      BY <3>1, <3>2, DevType DEF Entry
  <2> QED
    BY <1>2, <2>1, CommitLocals DEF VersionsInv, BasesKnown, AddsNothing, Versioned, Unwritten
<1>13. StampsGrow'
  BY <1>2 DEF VersionsInv, StampsGrow, AddsNothing, Unwritten
<1>14. LookedUp'
  BY <1>2 DEF VersionsInv, LookedUp, AddsNothing, Versioned, Unwritten
<1> QED
  BY <1>5, <1>6, <1>7, <1>8, <1>9, <1>10, <1>11, <1>12, <1>13, <1>14 DEF VersionsInv

LEMMA ReplyCommitKeeps ==
  ASSUME TypeOK, TypeOK', VersionsInv, ~ClockGoesBack, NEW t \in Threads, ReplyCommit(t)
  PROVE  VersionsInv'
<1>1. Finish(t) /\ rows' = rows /\ used' = used /\ clock' = clock
  BY DEF ReplyCommit, storeVars
<1>2. CASE known' = known
  BY <1>1, <1>2, FinishAddsNothing, QuietStep, NothingNewKeeps
<1>3. CASE known' = [known EXCEPT ![Dev(t)] = [i \in Ids |-> Learned(t, i)]]
  <2>1. /\ \A d \in Devices \ {Dev(t)} : known'[d] = known[d]
        /\ \A i \in Ids : known'[Dev(t)][i] = Learned(t, i)
    BY <1>3, DevType DEF TypeOK, StateTypeOK
  <2>2. ASSUME NEW i \in Ids
        PROVE  LET k == Learned(t, i) IN
               \/ k = known[Dev(t)][i]
               \/ /\ ~Blank(i)
                  /\ k.version > known[Dev(t)][i].version
                  /\ Versioned(i) => Agrees(i, k.version, k.deleted, k.by)
    <3> DEFINE new == {a \in cm[t].acks : a.id = i /\ a.version > known[Dev(t)][i].version}
               last == CHOOSE b \in new : TRUE
    <3>1. CASE new = {}
      BY <3>1 DEF Learned
    <3>2. CASE new # {}
      <4>1. last \in new
        BY <3>2
      <4>2. Learned(t, i) = [version |-> last.version, deleted |-> last.deleted, by |-> Dev(t)]
        BY <3>2 DEF Learned
      <4>3. /\ last \in cm[t].acks /\ last.id = i
            /\ last.version > known[Dev(t)][i].version
        BY <4>1
      <4> HIDE DEF last
      <4>4. ~Blank(i)
        BY <4>3 DEF Blank
      <4>5. Versioned(i) => Agrees(i, last.version, last.deleted, Dev(t))
        BY <4>3 DEF VersionsInv, AcksAgree
      <4> QED
        BY <4>2, <4>3, <4>4, <4>5
    <3> QED
      BY <3>1, <3>2
  <2> QED
    BY <1>1, <2>1, <2>2, LearningKeeps
<1> QED
  BY <1>2, <1>3 DEF ReplyCommit

LEMMA ReplyGetUpdatesKeeps ==
  ASSUME TypeOK, TypeOK', VersionsInv, ~ClockGoesBack, NEW t \in Threads, ReplyGetUpdates(t)
  PROVE  VersionsInv'
<1>1. Finish(t) /\ rows' = rows /\ used' = used /\ clock' = clock
  BY DEF ReplyGetUpdates, storeVars
<1>2. CASE known' = known
  BY <1>1, <1>2, FinishAddsNothing, QuietStep, NothingNewKeeps
<1>3. CASE known' = [known EXCEPT ![Dev(t)] = [i \in Ids |-> LearnedUpdate(t, i)]]
  <2>1. /\ \A d \in Devices \ {Dev(t)} : known'[d] = known[d]
        /\ \A i \in Ids : known'[Dev(t)][i] = LearnedUpdate(t, i)
    BY <1>3, DevType DEF TypeOK, StateTypeOK
  <2>2. ASSUME NEW i \in Ids
        PROVE  LET k == LearnedUpdate(t, i) IN
               \/ k = known[Dev(t)][i]
               \/ /\ ~Blank(i)
                  /\ k.version > known[Dev(t)][i].version
                  /\ Versioned(i) => Agrees(i, k.version, k.deleted, k.by)
    <3> DEFINE new == {u \in gu[t].got : u.id = i /\ u.version > known[Dev(t)][i].version}
               last == CHOOSE v \in new : TRUE
    <3>1. CASE new = {}
      BY <3>1 DEF LearnedUpdate
    <3>2. CASE new # {}
      <4>1. last \in new
        BY <3>2
      <4>2. LearnedUpdate(t, i) =
              [version |-> last.version, deleted |-> last.deleted, by |-> last.by]
        BY <3>2 DEF LearnedUpdate
      <4>3. /\ last \in gu[t].got /\ last.id = i
            /\ last.version > known[Dev(t)][i].version
        BY <4>1
      <4> HIDE DEF last
      <4>4. ~Blank(i)
        BY <4>3 DEF Blank
      <4>5. Versioned(i) => Agrees(i, last.version, last.deleted, last.by)
        BY <4>3 DEF VersionsInv, UpdatesAgree
      <4> QED
        BY <4>2, <4>3, <4>4, <4>5
    <3> QED
      BY <3>1, <3>2
  <2> QED
    BY <1>1, <2>1, <2>2, LearningKeeps
<1> QED
  BY <1>2, <1>3 DEF ReplyGetUpdates, clientVars

(* Steps of the get-updates handler ----------------------------------------- *)

\* Rows are read as they are: the updates agree with them.
LEMMA QueryTypeKeeps ==
  ASSUME TypeOK, TypeOK', VersionsInv, ~ClockGoesBack, NEW t \in Threads, QueryType(t)
  PROVE  VersionsInv'
<1>1. CASE Fail(t)
  BY <1>1, FailAddsNothing, NothingNewKeeps
<1>2. CASE ~Fail(t)
  <2> DEFINE size == MaxGUBatch - Cardinality(gu[t].got)
             Remaining(ty) == gu[t].remaining \/ ChangesRemain(ty, gu[t].tok[ty], size)
             Read(ty, P, next) ==
               /\ gu' = [gu EXCEPT ![t].got = @ \cup {UpdateOf(i) : i \in P},
                                   ![t].tok[ty] = next,
                                   ![t].remaining = Remaining(ty)]
               /\ Goto(t, IF Remaining(ty) THEN "markers" ELSE "cacheSet")
               /\ LocalGU(t)
  <2>1. PICK ty \in gu[t].cur :
          \E P \in Pages(ty, gu[t].tok[ty], size) : \E next \in NextToken(t, ty, P) :
            IF NigoriNotReady(t, ty, P) THEN Fail(t) /\ UNCHANGED left ELSE Read(ty, P, next)
    BY DEF QueryType
  <2> HIDE DEF Read
  <2>2. PICK P \in Pages(ty, gu[t].tok[ty], size) : \E next : Read(ty, P, next)
    BY <1>2, <2>1
  <2>3. PICK next : Read(ty, P, next)
    BY <2>2
  <2>4. \A i \in P : i \in Ids /\ Stored(i)
    BY <2>2 DEF Pages, Newer
  <2>5. /\ rows' = rows /\ known' = known /\ used' = used /\ clock' = clock /\ cm' = cm
    BY <2>3 DEF Read, LocalGU, storeVars, clientVars
  <2>6. pc'[t] \in {"markers", "cacheSet"} /\ \A u \in Threads \ {t} : pc'[u] = pc[u]
    BY <2>3 DEF Read, Goto, TypeOK, StateTypeOK
  <2> DEFINE New == {UpdateOf(i) : i \in P}
  <2>7. /\ gu'[t].got = gu[t].got \cup New
        /\ \A u \in Threads \ {t} : gu'[u] = gu[u]
    BY <2>3, GetUpdatesLocals DEF Read, GetUpdatesWork
  <2>8. \A x \in New : /\ x.id \in P
                       /\ x.version = rows[x.id].version
                       /\ x.deleted = rows[x.id].deleted
                       /\ x.by = rows[x.id].by
    BY DEF UpdateOf
  <2> HIDE DEF New
  <2>9. OthersWait(t)
    BY <2>5, <2>6, <2>7 DEF OthersWait
  <2>10. /\ \A u \in Threads : /\ ToCreate(u)' = ToCreate(u)
                               /\ Creating(u)' \subseteq Creating(u)
                               /\ ToPlant(u)' \subseteq ToPlant(u)
         /\ \A u \in Threads : Drawn(u)' \subseteq Drawn(u)
    <3>1. \A u \in Threads : /\ ToCreate(u)' = ToCreate(u)
                             /\ Creating(u)' \subseteq Creating(u)
                             /\ ToPlant(u)' \subseteq ToPlant(u)
      BY <2>5, <2>6, <2>9 DEF OthersWait, ToCreate, Creating, ToPlant, Versioned
    <3> QED
      BY <3>1 DEF Drawn
  <2>11. \A i \in Ids : Blank(i) => Blank(i)'
    <3>1. \A i \in Ids : Blank(i) => \A x \in gu'[t].got : x.id # i
      BY <2>4, <2>7, <2>8 DEF Blank
    <3> QED
      BY <2>5, <2>7, <3>1 DEF Blank, Stored
  <2>12. DrawnOnce'
    BY <2>5, <2>10 DEF VersionsInv, DrawnOnce
  <2>13. DrawnIsUsed'
    BY <2>5, <2>10 DEF VersionsInv, DrawnIsUsed, Versioned
  <2>14. DrawnIsBlank'
    BY <2>10, <2>11 DEF VersionsInv, DrawnIsBlank, DrawnIsUsed, TypeOK, StateTypeOK
  <2>15. UnusedIsBlank'
    BY <2>5, <2>11 DEF VersionsInv, UnusedIsBlank, Versioned
  <2>16. KnownVersionsAgree' /\ AcksAgree'
    BY <2>5 DEF VersionsInv, KnownVersionsAgree, AcksAgree, Agrees, Stored, Versioned
  <2>17. UpdatesAgree'
    <3>1. \A x \in New : Agrees(x.id, x.version, x.deleted, x.by)
      <4>1. \A i \in P : rows[i].version \in Nat
        BY <2>4, StoredRow DEF Row
      <4> QED
        BY <2>8, <4>1 DEF Agrees
    <3>2. \A x \in gu[t].got \cup New :
            Versioned(x.id) => Agrees(x.id, x.version, x.deleted, x.by)
      BY <3>1 DEF VersionsInv, UpdatesAgree
    <3> QED
      BY <2>5, <2>7, <3>2 DEF VersionsInv, UpdatesAgree, Agrees, Stored, Versioned
  <2>18. BasesKnown'
    BY <2>5, <2>6 DEF VersionsInv, BasesKnown, Based, Versioned
  <2>19. StampsGrow' /\ LookedUp'
    BY <2>5, <2>6 DEF VersionsInv, StampsGrow, LookedUp, Versioned, Unwritten
  <2> QED
    BY <2>12, <2>13, <2>14, <2>15, <2>16, <2>17, <2>18, <2>19 DEF VersionsInv
<1> QED
  BY <1>1, <1>2

\* The uuids of the root folders are drawn.
LEMMA MakeFoldersKeeps ==
  ASSUME TypeOK, TypeOK', VersionsInv, NEW t \in Threads, MakeFolders(t)
  PROVE  VersionsInv'
<1>1. PICK R \in FolderIds : /\ gu' = [gu EXCEPT ![t].folders = R, ![t].stamp = clock]
                             /\ used' = used \cup R
  BY DEF MakeFolders
<1>2. \A i \in R : i \in Ids \ used /\ Versioned(i)
  BY TagAssumption DEF FolderIds, RootIds, Versioned
<1>3. rows' = rows /\ known' = known /\ cm' = cm
  BY DEF MakeFolders, storeVars, clientVars
<1>4. clock \in Nat /\ clock' \in Nat /\ clock' >= clock
  BY BoundAssumption DEF MakeFolders, Stamped, TypeOK, StateTypeOK
<1>5. pc'[t] = "insertFolders" /\ \A u \in Threads \ {t} : pc'[u] = pc[u]
  BY DEF MakeFolders, Goto, TypeOK, StateTypeOK
<1>6. /\ gu'[t].folders = R
      /\ \A u \in Threads : gu'[u].got = gu[u].got
      /\ \A u \in Threads \ {t} : gu'[u] = gu[u]
  BY <1>1, GetUpdatesLocals DEF GetUpdatesWork
<1>7. OthersWait(t)
  BY <1>3, <1>5, <1>6 DEF OthersWait
<1>8. /\ ToPlant(t)' = R
      /\ Creating(t)' = {}
      /\ \A u \in Threads : ToCreate(u)' = ToCreate(u)
      /\ \A u \in Threads \ {t} : Creating(u)' = Creating(u) /\ ToPlant(u)' = ToPlant(u)
  BY <1>3, <1>5, <1>6 DEF ToPlant, Creating, ToCreate, Versioned
<1>9. /\ Drawn(t)' = ToCreate(t) \cup R
      /\ \A u \in Threads \ {t} : Drawn(u)' = Drawn(u)
      /\ ToCreate(t) \subseteq Drawn(t)
  BY <1>8 DEF Drawn
<1>10. \A i \in Ids : Blank(i)' = Blank(i)
  BY <1>3, <1>6 DEF Blank, Stored
<1>11. DrawnOnce'
  <2>1. \A u \in Threads : Drawn(u) \cap R = {}
    BY <1>2 DEF VersionsInv, DrawnIsUsed
  <2>2. \A u, w \in Threads : u # w => (Drawn(u) \cap Drawn(w) = {})'
    BY <1>9, <2>1 DEF VersionsInv, DrawnOnce
  <2>3. \A u \in Threads : /\ (ToCreate(u) \cap Creating(u) = {})'
                           /\ (ToCreate(u) \cap ToPlant(u) = {})'
    BY <1>8, <1>9, <2>1 DEF VersionsInv, DrawnOnce
  <2> QED
    BY <1>3, <2>2, <2>3 DEF VersionsInv, DrawnOnce
<1>12. DrawnIsUsed'
  BY <1>1, <1>2, <1>9 DEF VersionsInv, DrawnIsUsed, Versioned
<1>13. DrawnIsBlank'
  <2>1. \A u \in Threads : Drawn(u) \subseteq Ids
    BY DEF VersionsInv, DrawnIsUsed, TypeOK, StateTypeOK
  <2>2. \A i \in R : i \in Ids /\ Blank(i)
    BY <1>2 DEF VersionsInv, UnusedIsBlank
  <2> QED
    BY <1>9, <1>10, <2>1, <2>2 DEF VersionsInv, DrawnIsBlank
<1>14. UnusedIsBlank'
  BY <1>1, <1>10 DEF VersionsInv, UnusedIsBlank, Versioned
<1>15. KnownVersionsAgree' /\ AcksAgree'
  BY <1>3 DEF VersionsInv, KnownVersionsAgree, AcksAgree, Agrees, Stored, Versioned
<1>16. UpdatesAgree'
  BY <1>3, <1>6 DEF VersionsInv, UpdatesAgree, Agrees, Stored, Versioned
<1>17. BasesKnown'
  BY <1>3, <1>5 DEF VersionsInv, BasesKnown, Based, Versioned
<1>18. StampsGrow'
  <2>1. \A u \in Threads : \A e \in cm[u].todo : e.base \in Nat
    BY CommitLocals DEF Entry
  <2>2. \A u \in Threads : \A e \in cm'[u].todo : e.base < clock'
    BY <1>3, <1>4, <2>1 DEF VersionsInv, StampsGrow
  <2> QED
    BY <1>3, <1>4, <1>5, <2>2 DEF VersionsInv, StampsGrow, Unwritten
<1>19. LookedUp'
  BY <1>3, <1>5 DEF VersionsInv, LookedUp, Versioned
<1> QED
  BY <1>11, <1>12, <1>13, <1>14, <1>15, <1>16, <1>17, <1>18, <1>19 DEF VersionsInv

\* The root folders are written: nobody has heard of them.
LEMMA InsertFoldersKeeps ==
  ASSUME TypeOK, TypeOK', VersionsInv, ~ClockGoesBack, NEW t \in Threads, InsertFolders(t)
  PROVE  VersionsInv'
<1>1. CASE Fail(t)
  BY <1>1, FailAddsNothing, NothingNewKeeps
<1>2. CASE /\ InsertSyncEntitiesWithServerTags(gu[t].folders, FolderRow(t))
           /\ Goto(t, "markers")
           /\ UNCHANGED <<cacheVars, clientVars, clock, left, awaited, cm, gu, evict, used>>
  <2> DEFINE R == gu[t].folders
  <2>1. /\ known' = known /\ used' = used /\ clock' = clock /\ cm' = cm /\ gu' = gu
        /\ pc[t] = "insertFolders"
    BY <1>2 DEF InsertFolders, At, clientVars
  <2>2. pc'[t] = "markers" /\ \A u \in Threads \ {t} : pc'[u] = pc[u]
    BY <1>2 DEF Goto, TypeOK, StateTypeOK
  <2>3. ToPlant(t) = R /\ R \subseteq Drawn(t)
    BY <2>1 DEF ToPlant, Drawn
  <2>4. \A i \in R : i \in Ids /\ Versioned(i) /\ Blank(i) /\ i \in used
    BY <2>3 DEF VersionsInv, DrawnIsUsed, DrawnIsBlank, TypeOK, StateTypeOK
  <2>5. /\ \A i \in R : rows'[i] = FolderRow(t)
        /\ \A i \in Ids \ R : rows'[i] = rows[i]
    BY <1>2, <2>4 DEF InsertSyncEntitiesWithServerTags
  <2>6. FolderRow(t).version = 1
    BY DEF FolderRow
  <2>7. /\ ToCreate(t)' = ToCreate(t) /\ Creating(t)' = {} /\ ToPlant(t)' = {}
        /\ \A u \in Threads \ {t} : /\ ToCreate(u)' = ToCreate(u)
                                    /\ Creating(u)' = Creating(u)
                                    /\ ToPlant(u)' = ToPlant(u)
    BY <2>1, <2>2 DEF ToCreate, Creating, ToPlant, Versioned
  <2>8. /\ \A u \in Threads : Drawn(u)' \subseteq Drawn(u)
        /\ Drawn(t)' = ToCreate(t)
    BY <2>7 DEF Drawn
  <2>9. \A u \in Threads : \A i \in Drawn(u)' : i \in Ids \ R
    <3>1. \A u \in Threads : Drawn(u) \subseteq Ids
      BY DEF VersionsInv, DrawnIsUsed, TypeOK, StateTypeOK
    <3>2. \A u \in Threads \ {t} : Drawn(u) \cap R = {}
      BY <2>3 DEF VersionsInv, DrawnOnce
    <3>3. ToCreate(t) \cap R = {}
      BY <2>3 DEF VersionsInv, DrawnOnce
    <3> QED
      BY <2>8, <3>1, <3>2, <3>3
  <2> HIDE DEF R
  <2>10. \A i \in Ids \ R : Blank(i)' = Blank(i)
    BY <2>1, <2>5 DEF Blank, Stored
  <2>11. DrawnOnce'
    BY <2>1, <2>7, <2>8 DEF VersionsInv, DrawnOnce
  <2>12. DrawnIsUsed'
    BY <2>1, <2>8 DEF VersionsInv, DrawnIsUsed, Versioned
  <2>13. DrawnIsBlank'
    BY <2>8, <2>9, <2>10 DEF VersionsInv, DrawnIsBlank
  <2>14. UnusedIsBlank'
    BY <2>1, <2>4, <2>10 DEF VersionsInv, UnusedIsBlank, Versioned
  <2>15. KnownVersionsAgree'
    <3>1. \A d \in Devices : \A i \in R : known'[d][i].version = 0 /\ rows'[i].version = 1
      BY <2>1, <2>4, <2>5, <2>6 DEF Blank
    <3>2. \A i \in Ids \ R : Stored(i)' = Stored(i)
      BY <2>5 DEF Stored
    <3> QED
      BY <2>1, <2>5, <3>1, <3>2 DEF VersionsInv, KnownVersionsAgree, Versioned
  <2>16. \A i \in Ids \ R : \A version, deleted, by :
           Agrees(i, version, deleted, by) => Agrees(i, version, deleted, by)'
    BY <2>5 DEF Agrees, Stored
  <2>17. AcksAgree'
    <3>1. \A u \in Threads : \A a \in cm[u].acks : a.id \in Ids \ R
      BY <2>4, CommitLocals DEF Blank, Ack
    <3> QED
      BY <2>1, <2>16, <3>1 DEF VersionsInv, AcksAgree, Versioned
  <2>18. UpdatesAgree'
    <3>1. \A u \in Threads : \A x \in gu[u].got : x.id \in Ids \ R
      BY <2>4, GetUpdatesLocals DEF Blank, Update
    <3> QED
      BY <2>1, <2>16, <3>1 DEF VersionsInv, UpdatesAgree, Versioned
  <2>19. BasesKnown'
    BY <2>1, <2>2 DEF VersionsInv, BasesKnown, Based, Versioned
  <2>20. StampsGrow' /\ LookedUp'
    BY <2>1, <2>2 DEF VersionsInv, StampsGrow, LookedUp, Versioned, Unwritten
  <2> QED
    BY <2>11, <2>12, <2>13, <2>14, <2>15, <2>17, <2>18, <2>19, <2>20 DEF VersionsInv
<1> QED
  BY <1>1, <1>2 DEF InsertFolders

(* The theorems ------------------------------------------------------------- *)

LEMMA InitVersionsInv ==
  ASSUME Init
  PROVE  VersionsInv
<1> USE DEF Init, StoreInit, NoCommit, NoGetUpdates, Unknown
<1>1. \A t \in Threads : Drawn(t) = {}
  BY DEF Drawn, ToCreate, Creating, ToPlant
<1>2. \A i \in Ids : Blank(i)
  BY DEF Blank, Stored
<1>3. DrawnOnce
  BY <1>1 DEF DrawnOnce, ToCreate
<1>4. DrawnIsUsed /\ DrawnIsBlank /\ UnusedIsBlank
  BY <1>1, <1>2 DEF DrawnIsUsed, DrawnIsBlank, UnusedIsBlank
<1>5. KnownVersionsAgree
  BY DEF KnownVersionsAgree, Stored
<1>6. AcksAgree /\ UpdatesAgree /\ BasesKnown /\ StampsGrow /\ LookedUp
  BY DEF AcksAgree, UpdatesAgree, BasesKnown, StampsGrow, LookedUp
<1> QED
  BY <1>3, <1>4, <1>5, <1>6 DEF VersionsInv

LEMMA NextVersionsInv ==
  ASSUME TypeOK, TypeOK', VersionsInv, RoundTrip >= 1, ~ClockGoesBack, [Next]_vars
  PROVE  VersionsInv'
<1>1. CASE \/ Tick \/ SetBack \/ Crash \/ AwaitRequests \/ UNCHANGED vars
           \/ \E t \in Threads : GiveUp(t)
           \/ \E ty \in Types : Expire(ty)
  BY <1>1, EnvironmentAddsNothing, NothingNewKeeps
<1>2. ASSUME NEW t \in Threads, Send(t)
      PROVE  VersionsInv'
  <2>1. CASE SendCommit(t)
    BY <2>1, SendCommitKeeps
  <2>2. CASE SendGetUpdates(t) \/ SendClear(t)
    BY <2>2, OtherAsideAddsNothing, NothingNewKeeps DEF OtherAside
  <2> QED
    BY <1>2, <2>1, <2>2 DEF Send
<1>3. ASSUME NEW t \in Threads, CommitStep(t)
      PROVE  VersionsInv'
  <2>1. CASE CommitAside(t)
    BY <2>1, CommitAsideAddsNothing, NothingNewKeeps
  <2>2. CASE StartEntry(t)
    BY <2>2, StartEntryKeeps
  <2>3. CASE CheckItem(t)
    BY <2>3, CheckItemKeeps
  <2>4. CASE PretendStored(t)
    BY <2>4, PretendStoredKeeps
  <2>5. CASE InsertEntry(t)
    BY <2>5, InsertEntryKeeps
  <2>6. CASE UpdateEntry(t)
    BY <2>6, UpdateEntryKeeps
  <2>7. CASE ReplyCommit(t)
    BY <2>7, ReplyCommitKeeps
  <2> QED
    BY <1>3, <2>1, <2>2, <2>3, <2>4, <2>5, <2>6, <2>7 DEF CommitStep, CommitAside
<1>4. ASSUME NEW t \in Threads, GetUpdatesStep(t)
      PROVE  VersionsInv'
  <2>1. CASE OtherAside(t)
    BY <2>1, OtherAsideAddsNothing, NothingNewKeeps
  <2>2. CASE MakeFolders(t)
    BY <2>2, MakeFoldersKeeps
  <2>3. CASE InsertFolders(t)
    BY <2>3, InsertFoldersKeeps
  <2>4. CASE QueryType(t)
    BY <2>4, QueryTypeKeeps
  <2>5. CASE ReplyGetUpdates(t)
    BY <2>5, ReplyGetUpdatesKeeps
  <2> QED
    BY <1>4, <2>1, <2>2, <2>3, <2>4, <2>5 DEF GetUpdatesStep, OtherAside
<1>5. ASSUME NEW t \in Threads, ClearStep(t)
      PROVE  VersionsInv'
  BY <1>5, OtherAsideAddsNothing, NothingNewKeeps DEF OtherAside
<1> QED
  BY <1>1, <1>2, <1>3, <1>4, <1>5 DEF Next, Step

\* VersionsInv, the inductive invariant of the handlers' version arithmetic (the
\* stamp of CreateDBSyncEntity, the comparison of UpdateSyncEntity), holds for any
\* number of devices and concurrent requests, through crashes and lost responses, as
\* long as devices take a millisecond to answer and the wall clock is not set back.
THEOREM VersionsInvariant ==
  ASSUME RoundTrip >= 1, ~ClockGoesBack
  PROVE  Spec => []VersionsInv
<1>1. Init => VersionsInv
  BY InitVersionsInv
<1>2. TypeOK /\ TypeOK' /\ VersionsInv /\ [Next]_vars => VersionsInv'
  BY NextVersionsInv
<1>3. Spec => []TypeOK
  BY TypeCorrect
<1> QED
  BY <1>1, <1>2, <1>3, PTL DEF Spec

\* What a device knows of a versioned entity is never ahead of the row, and a device
\* that knows the row's version knows the row's content.
THEOREM VersionsIdentifyContent ==
  ASSUME RoundTrip >= 1, ~ClockGoesBack
  PROVE  Spec => []KnownVersionsAgree
<1>1. VersionsInv => KnownVersionsAgree
  BY DEF VersionsInv
<1> QED
  BY <1>1, VersionsInvariant, PTL

\* A row is only replaced by the handlers' two writes, and only UpdateEntry replaces a
\* row of a versioned type that exists.
LEMMA ReplacedRow ==
  ASSUME TypeOK, VersionsInv, [Next]_vars,
         NEW i \in Ids, Versioned(i), Stored(i), rows'[i] \notin {rows[i], NoRow}
  PROVE  \E t \in Threads : \E e \in cm[t].cur :
           /\ pc[t] = "update"
           /\ e.id = i
           /\ ~UpdateConflicts(i, e.base)
           /\ rows'[i] = RowFor(t, e)
<1>1. ~NothingNew
  BY DEF NothingNew
<1>2. PICK t \in Threads : Send(t) \/ Step(t)
  BY <1>1, EnvironmentAddsNothing DEF Next
<1>3. CASE UpdateEntry(t)
  <2>1. PICK e \in cm[t].cur : /\ ~UpdateConflicts(e.id, e.base)
                               /\ rows' = [rows EXCEPT ![e.id] = RowFor(t, e)]
    BY <1>3 DEF UpdateEntry, UpdateSyncEntity, storeVars
  <2>2. e.id = i /\ rows'[i] = RowFor(t, e)
    BY <2>1 DEF TypeOK, StoreTypeOK
  <2> QED
    BY <1>3, <2>1, <2>2 DEF UpdateEntry, At
<1>4. CASE InsertEntry(t)
  <2>1. PICK e \in cm[t].cur : InsertSyncEntity(e.id, RowFor(t, e))
    BY <1>4 DEF InsertEntry
  <2> QED
    BY <2>1 DEF InsertSyncEntity, InsertConflicts, storeVars, TypeOK, StoreTypeOK
<1>5. CASE InsertFolders(t)
  <2>1. CASE Fail(t)
    BY <1>1, <2>1, FailAddsNothing
  <2>2. CASE /\ ~ServerTagsConflict(gu[t].folders)
             /\ InsertSyncEntitiesWithServerTags(gu[t].folders, FolderRow(t))
    BY <2>2 DEF ServerTagsConflict, InsertSyncEntitiesWithServerTags
  <2> QED
    BY <1>5, <2>1, <2>2 DEF InsertFolders
<1>6. rows' # rows
  BY DEF NothingNew
<1>7. ~CommitAside(t) /\ ~OtherAside(t)
  BY <1>1, CommitAsideAddsNothing, OtherAsideAddsNothing
<1>8. ~SendCommit(t) /\ ~StartEntry(t) /\ ~CheckItem(t) /\ ~PretendStored(t) /\ ~ReplyCommit(t)
  BY <1>6 DEF SendCommit, StartEntry, CheckItem, PretendStored, ReplyCommit, Local, storeVars
<1>9. ~MakeFolders(t) /\ ~ReplyGetUpdates(t)
  BY <1>6 DEF MakeFolders, ReplyGetUpdates, storeVars
<1>10. ~QueryType(t)
  BY <1>6 DEF QueryType, Fail, LocalGU, storeVars
<1> QED
  BY <1>2, <1>3, <1>4, <1>5, <1>7, <1>8, <1>9, <1>10
  DEF Send, Step, CommitStep, GetUpdatesStep, CommitAside, OtherAside

\* As long as the wall clock is not set back, UpdateSyncEntity replaces a row of a
\* versioned type by a newer version of it only.  (With a clock that is, it does not: the
\* version is time.Now(), and nothing compares it with the one it replaces.)
THEOREM VersionsOnlyGrow ==
  ASSUME RoundTrip >= 1, ~ClockGoesBack
  PROVE  Spec => VersionsGrow
<1>1. ASSUME TypeOK, VersionsInv, [Next]_vars, NEW i \in Ids,
             Versioned(i), Stored(i), rows'[i] \notin {rows[i], NoRow}
      PROVE  rows'[i].version > rows[i].version
  <2>1. PICK t \in Threads : \E e \in cm[t].cur :
           /\ pc[t] = "update"
           /\ e.id = i
           /\ ~UpdateConflicts(i, e.base)
           /\ rows'[i] = RowFor(t, e)
    BY <1>1, ReplacedRow
  <2>2. PICK e \in cm[t].cur :
           /\ pc[t] = "update"
           /\ e.id = i
           /\ ~UpdateConflicts(i, e.base)
           /\ rows'[i] = RowFor(t, e)
    BY <2>1
  <2>3. rows[i].version = e.base /\ e.base < cm[t].stamp
    BY <1>1, <2>2, UpdatedIsKnown
  <2>4. e.base \in Nat /\ cm[t].stamp \in Nat
    BY <1>1, CommitLocals DEF Entry, CommitWork
  <2> QED
    BY <2>2, <2>3, <2>4 DEF RowFor
<1>2. TypeOK /\ VersionsInv /\ [Next]_vars =>
        [\A i \in Ids : Versioned(i) /\ Stored(i) /\ rows'[i] \notin {rows[i], NoRow} =>
           rows'[i].version > rows[i].version]_vars
  BY <1>1
<1> QED
  BY <1>2, TypeCorrect, VersionsInvariant, PTL DEF Spec, VersionsGrow

\* UpdateSyncEntity never loses an update: whoever overwrites a row of a versioned
\* type knows the version it overwrites.
THEOREM NoLostUpdate ==
  ASSUME RoundTrip >= 1, ~ClockGoesBack
  PROVE  Spec => NoBlindOverwrite
<1>1. ASSUME TypeOK, VersionsInv, [Next]_vars, NEW i \in Ids,
             Versioned(i), Stored(i), rows'[i] \notin {rows[i], NoRow}
      PROVE  \E d \in Devices : rows'[i].by = d /\ known[d][i].version = rows[i].version
  <2>1. PICK t \in Threads : \E e \in cm[t].cur :
           /\ pc[t] = "update"
           /\ e.id = i
           /\ ~UpdateConflicts(i, e.base)
           /\ rows'[i] = RowFor(t, e)
    BY <1>1, ReplacedRow
  <2>2. PICK e \in cm[t].cur :
           /\ pc[t] = "update"
           /\ e.id = i
           /\ ~UpdateConflicts(i, e.base)
           /\ rows'[i] = RowFor(t, e)
    BY <2>1
  <2>3. rows[i].version = e.base /\ known[Dev(t)][i].version = e.base
    BY <1>1, <2>2, UpdatedIsKnown
  <2>4. rows'[i].by = Dev(t)
    BY <2>2 DEF RowFor
  <2> QED
    BY <2>3, <2>4, DevType
<1>2. TypeOK /\ VersionsInv /\ [Next]_vars =>
        [\A i \in Ids : Versioned(i) /\ Stored(i) /\ rows'[i] \notin {rows[i], NoRow} =>
           \E d \in Devices : rows'[i].by = d /\ known[d][i].version = rows[i].version]_vars
  BY <1>1
<1> QED
  BY <1>2, TypeCorrect, VersionsInvariant, PTL DEF Spec, NoBlindOverwrite
=============================================================================
