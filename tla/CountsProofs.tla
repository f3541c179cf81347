----------------------------- MODULE CountsProofs -----------------------------
(***************************************************************************)
(* The item counts.  If requests of a chain do not overlap, no store call  *)
(* fails and the process is not restarted, the counts of the table and of  *)
(* a commit under way are the numbers of entities there are, and the store *)
(* keeps its quotas.  VersionsInv and TagsInv show that an update finds a  *)
(* live row and an insert none, so that each moves a counter as it should. *)
(***************************************************************************)
EXTENDS ChainProofs

(* Counting entities --------------------------------------------------------*)

CountedBy(c) == {i \in Ids : Committed(i) /\ CounterOf(i) = c}

\* Numbers of entities are numbers.
LEMMA CountOfType ==
  ASSUME NEW c
  PROVE  /\ CountOf(c) = Cardinality(CountedBy(c))
         /\ IsFiniteSet(CountedBy(c))
         /\ CountOf(c) \in Nat
<1>1. CountedBy(c) \subseteq Ids
  BY DEF CountedBy
<1>2. IsFiniteSet(CountedBy(c))
  BY <1>1, IdsAssumption, FS_Subset
<1>3. CountOf(c) = Cardinality(CountedBy(c))
  BY DEF CountOf, CountedBy
<1> QED
  BY <1>2, <1>3, FS_CardinalityType

\* Every entity is counted by one of the two counters.
LEMMA CounterOfType == \A i \in Ids : CounterOf(i) \in Counters
BY DEF CounterOf, Counters

\* The same entities have the same number.
LEMMA SameCount ==
  ASSUME \A i \in Ids : Committed(i)' = Committed(i)
  PROVE  \A c : CountOf(c)' = CountOf(c)
<1>1. ASSUME NEW c
      PROVE  {i \in Ids : Committed(i)' /\ CounterOf(i) = c} = {i \in Ids : Committed(i) /\ CounterOf(i) = c}
  OBVIOUS
<1> QED
  BY <1>1 DEF CountOf, CounterOf, HistoryRelated

\* Fewer entities have no larger number.
LEMMA FewerCount ==
  ASSUME \A i \in Ids : Committed(i)' => Committed(i)
  PROVE  \A c : CountOf(c)' \in Nat /\ CountOf(c)' <= CountOf(c)
<1> SUFFICES ASSUME NEW c PROVE CountOf(c)' \in Nat /\ CountOf(c)' <= CountOf(c)
  OBVIOUS
<1> DEFINE later == {i \in Ids : Committed(i)' /\ CounterOf(i) = c}
<1>1. later \subseteq CountedBy(c)
  BY DEF CountedBy
<1>2. IsFiniteSet(CountedBy(c)) /\ CountOf(c) = Cardinality(CountedBy(c))
  BY CountOfType
<1>3. CountOf(c)' = Cardinality(later)
  BY DEF CountOf, CounterOf, HistoryRelated
<1> HIDE DEF later
<1>4. IsFiniteSet(later) /\ Cardinality(later) <= Cardinality(CountedBy(c))
  BY <1>1, <1>2, FS_Subset
<1> QED
  BY <1>2, <1>3, <1>4, FS_CardinalityType

\* One entity more adds one to the number of its counter.
LEMMA OneMoreCount ==
  ASSUME NEW i \in Ids, ~Committed(i), Committed(i)',
         \A j \in Ids \ {i} : Committed(j)' = Committed(j)
  PROVE  \A c \in Counters :
           CountOf(c)' = CountOf(c) + (IF CounterOf(i) = c THEN 1 ELSE 0)
<1> SUFFICES ASSUME NEW c \in Counters
             PROVE  CountOf(c)' = CountOf(c) + (IF CounterOf(i) = c THEN 1 ELSE 0)
  OBVIOUS
<1> DEFINE later == {j \in Ids : Committed(j)' /\ CounterOf(j) = c}
<1>1. CountOf(c)' = Cardinality(later)
  BY DEF CountOf, CounterOf, HistoryRelated
<1>2. /\ IsFiniteSet(CountedBy(c)) /\ CountOf(c) = Cardinality(CountedBy(c))
      /\ CountOf(c) \in Nat
  BY CountOfType
<1>3. i \notin CountedBy(c)
  BY DEF CountedBy
<1>4. CASE CounterOf(i) = c
  <2>1. later = CountedBy(c) \cup {i}
    BY <1>4 DEF CountedBy
  <2> HIDE DEF later
  <2> QED
    BY <1>1, <1>2, <1>3, <1>4, <2>1, FS_AddElement, SMTT(20)
<1>5. CASE CounterOf(i) # c
  <2>1. later = CountedBy(c)
    BY <1>5 DEF CountedBy
  <2> QED
    BY <1>1, <1>2, <1>5, <2>1
<1> QED
  BY <1>4, <1>5

\* One entity less takes one from it.
LEMMA OneLessCount ==
  ASSUME NEW i \in Ids, Committed(i), ~Committed(i)',
         \A j \in Ids \ {i} : Committed(j)' = Committed(j)
  PROVE  \A c \in Counters :
           CountOf(c)' = CountOf(c) - (IF CounterOf(i) = c THEN 1 ELSE 0)
<1> SUFFICES ASSUME NEW c \in Counters
             PROVE  CountOf(c)' = CountOf(c) - (IF CounterOf(i) = c THEN 1 ELSE 0)
  OBVIOUS
<1> DEFINE later == {j \in Ids : Committed(j)' /\ CounterOf(j) = c}
<1>1. CountOf(c)' = Cardinality(later)
  BY DEF CountOf, CounterOf, HistoryRelated
<1>2. /\ IsFiniteSet(CountedBy(c)) /\ CountOf(c) = Cardinality(CountedBy(c))
      /\ CountOf(c) \in Nat
  BY CountOfType
<1>4. CASE CounterOf(i) = c
  <2>1. later = CountedBy(c) \ {i} /\ i \in CountedBy(c)
    BY <1>4 DEF CountedBy
  <2> HIDE DEF later
  <2> QED
    BY <1>1, <1>2, <1>4, <2>1, FS_RemoveElement
<1>5. CASE CounterOf(i) # c
  <2>1. later = CountedBy(c)
    BY <1>5 DEF CountedBy
  <2> QED
    BY <1>1, <1>2, <1>5, <2>1
<1> QED
  BY <1>4, <1>5

(* One request at a time ----------------------------------------------------*)

\* What CountInv says of the goroutine t.
Sound(t) ==
  /\ \A e, f \in cm[t].cur : e = f
  /\ pc[t] = "create" => \A e \in cm[t].cur : ~Stored(e.id)
  /\ \A e \in cm[t].todo : e.deleted => TagOf[e.id] \notin ServerTags
  /\ pc[t] \in Unwritten => \A e \in cm[t].cur : e.deleted => TagOf[e.id] \notin ServerTags

HasRead(t) ==
  /\ pc[t] \in {"peekNormal", "peekHistory"} => cm[t].counts = itemCounts
  /\ pc[t] = "peekHistory" => cm[t].fresh["normal"] = 0
  /\ pc[t] \in CountingPoints \cup {"peekNormal", "peekHistory"} =>
       cm[t].counts["history"] <= MaxHistory

Agree(t) ==
  \A c \in Counters :
    IF pc[t] \in CountingPoints
      THEN /\ cm[t].counts[c] + cm[t].fresh[c] + Uncounted(t, c) = CountOf(c)
           /\ interim[c] = Undrained(t, c)
      ELSE itemCounts[c] = CountOf(c) /\ interim[c] = 0

\* All of it, where nobody but t may be at work.
LEMMA AgreeOfOne ==
  ASSUME CountInv, NEW t \in Threads, \A u \in Threads \ {t} : pc[u] = "idle"
  PROVE  Sound(t) /\ HasRead(t) /\ (~disabled => Agree(t))
<1>1. Sound(t)
  BY DEF CountInv, EntriesAreSound, Sound
<1>2. HasRead(t)
  BY DEF CountInv, CountsAreRead, HasRead
<1>3. ASSUME ~disabled PROVE Agree(t)
  BY <1>3 DEF CountInv, CountsAgree, Agree, CountingPoints, CommitPoints
<1> QED
  BY <1>1, <1>2, <1>3

\* What does not fail has nothing left to fail.
LEMMA SpendKeeps ==
  ASSUME TypeOK, CountInv, NEW kind \in Kinds, Spend(kind)
  PROVE  /\ kind \notin {"storeError", "crash"}
         /\ left'["storeError"] = 0 /\ left'["crash"] = 0
BY DEF CountInv, Spend, TypeOK, StateTypeOK, Kinds

\* And from t back to all.
LEMMA OneKeepsCounts ==
  ASSUME CountInv, NEW t \in Threads, \A u \in Threads \ {t} : pc[u] = "idle", OthersWait(t),
         left'["storeError"] = 0 /\ left'["crash"] = 0,
         HistoryRowsLive', QuotaHeld',
         Sound(t)', HasRead(t)', ~disabled' => Agree(t)'
  PROVE  CountInv'
<1>1. \A u \in Threads \ {t} : pc'[u] = "idle" /\ cm'[u] = cm[u]
  BY DEF OthersWait
<1>2. EntriesAreSound'
  BY <1>1 DEF CountInv, EntriesAreSound, Sound, Unwritten
<1>3. CountsAreRead'
  BY <1>1 DEF HasRead, CountsAreRead, CountingPoints, CommitPoints
<1>4. CountsAgree'
  BY <1>1 DEF Agree, CountsAgree, CountingPoints, CommitPoints, Uncounted, Undrained
<1> QED
  BY <1>2, <1>3, <1>4 DEF CountInv

\* Steps that write no row leave the entities as they are.
LEMMA SameRows ==
  ASSUME CountInv, rows' = rows
  PROVE  /\ HistoryRowsLive' /\ QuotaHeld'
         /\ \A c : CountOf(c)' = CountOf(c)
         /\ \A i \in Ids : Stored(i)' = Stored(i)
<1>1. \A i \in Ids : Committed(i)' = Committed(i)
  BY DEF Committed, Live, Stored
<1>2. \A c : CountOf(c)' = CountOf(c)
  BY <1>1, SameCount
<1>3. QuotaHeld'
  BY <1>2 DEF CountInv, QuotaHeld
<1> QED
  BY <1>2, <1>3 DEF CountInv, HistoryRowsLive, Stored, Versioned

(* What a commit counts -----------------------------------------------------*)

\* A commit is at work on a chain that is not disabled.
LEMMA CommitAtWork ==
  ASSUME TypeOK, ClearingInv, CountInv, NEW t \in Threads, CommitStep(t)
  PROVE  /\ ~disabled /\ disabled' = disabled
         /\ \A u \in Threads \ {t} : pc[u] = "idle"
         /\ Sound(t) /\ HasRead(t) /\ Agree(t)
<1>1. pc[t] \in CommitPoints \cup {"reply"} /\ disabled' = disabled
  BY CommitIsAlone
<1>2. pc[t] # "idle" /\ pc[t] \notin ClearPoints
  BY <1>1 DEF CommitPoints, ClearPoints
<1>3. ~disabled
  BY <1>2 DEF ClearingInv, OnlyClearing
<1>4. \A u \in Threads \ {t} : pc[u] = "idle"
  BY <1>2, OthersAreIdle DEF ClearingInv
<1> QED
  BY <1>1, <1>3, <1>4, AgreeOfOne

\* A step of t that writes no row.
LEMMA WritingNothingKeeps ==
  ASSUME CountInv, NEW t \in Threads, \A u \in Threads \ {t} : pc[u] = "idle", OthersWait(t),
         rows' = rows, left' = left,
         Sound(t)', HasRead(t)', ~disabled' => Agree(t)'
  PROVE  CountInv'
<1>1. left'["storeError"] = 0 /\ left'["crash"] = 0
  BY DEF CountInv
<1> QED
  BY <1>1, SameRows, OneKeepsCounts

\* The counts of the table are copied, then the interim counters.
LEMMA ReadingKeepsCounts ==
  ASSUME TypeOK, ClearingInv, CountInv, NEW t \in Threads, CommitStep(t),
         \/ ReadCounts(t)
         \/ PeekInterim(t, "peekNormal", "normal", "peekHistory")
         \/ PeekInterim(t, "peekHistory", "history", "entries")
  PROVE  CountInv'
<1>0. /\ ~disabled /\ disabled' = disabled
      /\ \A u \in Threads \ {t} : pc[u] = "idle"
      /\ Sound(t) /\ HasRead(t) /\ Agree(t)
  BY CommitAtWork
<1>1. /\ rows' = rows /\ itemCounts' = itemCounts /\ interim' = interim /\ left' = left /\ gu' = gu
  BY DEF ReadCounts, PeekInterim, Local, storeVars, cacheVars
<1>2. /\ \A c : CountOf(c)' = CountOf(c)
      /\ \A i \in Ids : Stored(i)' = Stored(i)
      /\ \A c : CountOf(c) \in Nat
  BY <1>1, SameRows, CountOfType
<1>3. MaxHistory \in Nat /\ CountOf("history") <= MaxHistory /\ itemCounts \in Counts
  BY LimitAssumption DEF CountInv, QuotaHeld, TypeOK, StoreTypeOK
<1> USE DEF Counters, Counts, At, Goto, OthersWait, CountingPoints, CommitPoints, Unwritten
<1>4. CASE ReadCounts(t)
  <2>1. cm' = [cm EXCEPT ![t].counts = itemCounts] /\ pc[t] = "count"
        /\ pc' = [pc EXCEPT ![t] = "peekNormal"]
    BY <1>4 DEF ReadCounts
  <2>2. /\ cm'[t].counts = itemCounts /\ cm'[t].fresh = cm[t].fresh
        /\ cm'[t].cur = cm[t].cur /\ cm'[t].todo = cm[t].todo
        /\ OthersWait(t) /\ pc'[t] = "peekNormal"
    BY <1>1, <2>1, CommitLocals DEF CommitWork, TypeOK, StateTypeOK
  <2>3. \A c \in Counters : itemCounts[c] = CountOf(c) /\ interim[c] = 0
    BY <1>0, <2>1 DEF Agree
  <2>4. Sound(t)'
    BY <1>0, <2>2 DEF Sound
  <2>5. HasRead(t)'
    BY <1>1, <1>3, <2>2, <2>3 DEF HasRead
  <2>6. Agree(t)'
    BY <1>1, <1>2, <2>2, <2>3 DEF Agree
  <2> QED
    BY <1>0, <1>1, <2>2, <2>4, <2>5, <2>6, WritingNothingKeeps
<1>5. CASE PeekInterim(t, "peekNormal", "normal", "peekHistory")
  <2>1. cm' = [cm EXCEPT ![t].fresh["normal"] = interim["normal"]] /\ pc[t] = "peekNormal"
        /\ pc' = [pc EXCEPT ![t] = "peekHistory"]
    BY <1>5 DEF PeekInterim
  <2>2. /\ cm'[t].counts = cm[t].counts
        /\ cm'[t].fresh["normal"] = interim["normal"]
        /\ cm'[t].cur = cm[t].cur /\ cm'[t].todo = cm[t].todo
        /\ OthersWait(t) /\ pc'[t] = "peekHistory"
    BY <1>1, <2>1, CommitLocals DEF CommitWork, TypeOK, StateTypeOK
  <2>3. \A c \in Counters : itemCounts[c] = CountOf(c) /\ interim[c] = 0
    BY <1>0, <2>1 DEF Agree
  <2>4. Sound(t)'
    BY <1>0, <2>2 DEF Sound
  <2>5. HasRead(t)'
    BY <1>0, <1>1, <1>3, <2>1, <2>2, <2>3 DEF HasRead
  <2>6. Agree(t)'
    BY <1>1, <1>2, <2>2, <2>3 DEF Agree
  <2> QED
    BY <1>0, <1>1, <2>2, <2>4, <2>5, <2>6, WritingNothingKeeps
<1>6. CASE PeekInterim(t, "peekHistory", "history", "entries")
  <2>1. cm' = [cm EXCEPT ![t].fresh["history"] = interim["history"]] /\ pc[t] = "peekHistory"
        /\ pc' = [pc EXCEPT ![t] = "entries"]
    BY <1>6 DEF PeekInterim
  <2>2. /\ cm'[t].counts = cm[t].counts
        /\ cm'[t].fresh["history"] = interim["history"]
        /\ cm'[t].fresh["normal"] = cm[t].fresh["normal"]
        /\ cm'[t].cur = cm[t].cur /\ cm'[t].todo = cm[t].todo
        /\ OthersWait(t) /\ pc'[t] = "entries"
    BY <1>1, <2>1, CommitLocals DEF CommitWork, TypeOK, StateTypeOK
  <2>3. \A c \in Counters : itemCounts[c] = CountOf(c) /\ interim[c] = 0
    BY <1>0, <2>1 DEF Agree
  <2>4. cm[t].counts = itemCounts /\ cm[t].fresh["normal"] = 0
    BY <1>0, <2>1 DEF HasRead
  <2>5. Sound(t)'
    BY <1>0, <2>2 DEF Sound
  <2>6. HasRead(t)'
    BY <1>0, <1>3, <2>1, <2>2 DEF HasRead
  <2>7. \A c \in Counters : Uncounted(t, c)' = 0 /\ Undrained(t, c)' = cm'[t].fresh[c]
    BY <2>2 DEF Uncounted, Undrained
  <2>8. \A c \in Counters : cm'[t].counts[c] = CountOf(c) /\ cm'[t].fresh[c] = 0
    BY <2>2, <2>3, <2>4
  <2>9. Agree(t)'
    BY <1>1, <1>2, <2>2, <2>3, <2>7, <2>8 DEF Agree
  <2> QED
    BY <1>0, <1>1, <2>2, <2>5, <2>6, <2>9, WritingNothingKeeps
<1> QED
  BY <1>4, <1>5, <1>6

\* An entry is taken in hand, looked up, given up, or answered without being stored:
\* nothing is counted.
LEMMA PassingKeepsCounts ==
  ASSUME TypeOK, ClearingInv, VersionsInv, CountInv, NEW t \in Threads, CommitStep(t),
         \/ StartEntry(t) \/ CheckItem(t) \/ RejectOverQuota(t) \/ PretendStored(t)
         \/ UpdateEntry(t) /\ EntryFails(t) /\ UNCHANGED storeVars
         \/ SaveMtime(t)
  PROVE  CountInv'
<1>0. /\ ~disabled /\ disabled' = disabled
      /\ \A u \in Threads \ {t} : pc[u] = "idle"
      /\ Sound(t) /\ HasRead(t) /\ Agree(t)
  BY CommitAtWork
<1>1. /\ rows' = rows /\ interim' = interim /\ left' = left /\ gu' = gu
  BY DEF StartEntry, CheckItem, RejectOverQuota, PretendStored, UpdateEntry, SaveMtime, CacheMtime,
         SetTypeMtime, Local, storeVars, cacheVars
<1>2. /\ \A c : CountOf(c)' = CountOf(c)
      /\ \A i \in Ids : Stored(i)' = Stored(i)
  BY <1>1, SameRows
\* t goes on to count in the same way.
<1>3. ASSUME pc[t] \in {"entries", "hasItem", "create", "update", "setMtime"},
             pc'[t] \in {"entries", "hasItem", "create", "update", "setMtime"},
             pc'[t] = "setMtime" <=> pc[t] = "setMtime",
             OthersWait(t),
             cm'[t].counts = cm[t].counts, cm'[t].fresh = cm[t].fresh,
             Sound(t)'
      PROVE  CountInv'
  <2>1. HasRead(t)'
    BY <1>0, <1>3 DEF HasRead, CountingPoints, CommitPoints
  <2>2. \A c \in Counters : /\ Uncounted(t, c) = 0 /\ Undrained(t, c)' = Undrained(t, c)
                            /\ Uncounted(t, c)' = 0
    BY <1>3 DEF Uncounted, Undrained
  <2>3. Agree(t)'
    BY <1>0, <1>1, <1>2, <1>3, <2>2 DEF Agree, CountingPoints, CommitPoints
  <2> QED
    BY <1>0, <1>1, <1>3, <2>1, <2>3, WritingNothingKeeps
<1> USE DEF At, Goto, OthersWait
<1>4. CASE StartEntry(t)
  <2>1. PICK e \in cm[t].todo :
          /\ cm' = [cm EXCEPT ![t].todo = @ \ {e}, ![t].cur = {e}, ![t].stamp = clock]
          /\ Goto(t, CASE ~Versioned(e.id) -> "hasItem"
                       [] Versioned(e.id) /\ e.base # 0 -> "update"
                       [] OTHER -> "create")
    BY <1>4 DEF StartEntry
  <2>2. /\ cm'[t].todo = cm[t].todo \ {e} /\ cm'[t].cur = {e}
        /\ cm'[t].counts = cm[t].counts /\ cm'[t].fresh = cm[t].fresh
        /\ \A u \in Threads \ {t} : cm'[u] = cm[u]
    BY <2>1, CommitLocals DEF CommitWork
  <2> DEFINE next == CASE ~Versioned(e.id) -> "hasItem"
                       [] Versioned(e.id) /\ e.base # 0 -> "update"
                       [] OTHER -> "create"
  <2>3. /\ next \in {"hasItem", "update", "create"}
        /\ next = "create" => Versioned(e.id) /\ e.base = 0
    OBVIOUS
  <2>4. pc' = [pc EXCEPT ![t] = next]
    BY <2>1
  <2> HIDE DEF next
  <2>5. pc'[t] = next /\ OthersWait(t)
    BY <1>1, <2>2, <2>4 DEF TypeOK, StateTypeOK
  <2>6. next = "create" => ~Stored(e.id)
    <3>1. ASSUME next = "create" PROVE e.id \in Drawn(t)
      BY <2>3, <3>1 DEF Drawn, ToCreate
    <3> QED
      BY <3>1 DEF VersionsInv, DrawnIsBlank, Blank
  <2>7. e.id \in Ids
    BY CommitLocals DEF Entry
  <2>8. Sound(t)'
    BY <1>0, <1>2, <2>2, <2>5, <2>6, <2>7 DEF Sound
  <2> QED
    BY <1>3, <1>4, <2>2, <2>3, <2>5, <2>8 DEF StartEntry
<1>5. CASE CheckItem(t)
  <2>1. PICK e \in cm[t].cur :
          pc' = [pc EXCEPT ![t] = IF Stored(e.id) THEN "update" ELSE "create"]
    BY <1>5 DEF CheckItem
  <2>2. cm' = cm /\ pc[t] = "hasItem"
    BY <1>5 DEF CheckItem
  <2>3. pc'[t] = (IF Stored(e.id) THEN "update" ELSE "create") /\ OthersWait(t)
    BY <1>1, <2>1, <2>2 DEF TypeOK, StateTypeOK
  <2>4. e.id \in Ids
    BY CommitLocals DEF Entry
  <2>5. Sound(t)'
    BY <1>0, <1>2, <2>2, <2>3, <2>4 DEF Sound, Unwritten
  <2> QED
    BY <1>3, <2>2, <2>3, <2>5
<1>6. ASSUME EntryFails(t), pc[t] \in {"create", "update"}
      PROVE  CountInv'
  <2>1. cm' = [cm EXCEPT ![t].cur = {}] /\ pc' = [pc EXCEPT ![t] = "entries"]
    BY <1>6 DEF EntryFails
  <2>2. /\ cm'[t].todo = cm[t].todo /\ cm'[t].cur = {}
        /\ cm'[t].counts = cm[t].counts /\ cm'[t].fresh = cm[t].fresh
        /\ \A u \in Threads \ {t} : cm'[u] = cm[u]
    BY <2>1, CommitLocals DEF CommitWork
  <2>3. pc'[t] = "entries" /\ OthersWait(t)
    BY <1>1, <2>1, <2>2 DEF TypeOK, StateTypeOK
  <2>4. Sound(t)'
    BY <1>0, <2>2, <2>3 DEF Sound
  <2> QED
    BY <1>3, <1>6, <2>2, <2>3, <2>4
<1>7. CASE RejectOverQuota(t) \/ (UpdateEntry(t) /\ EntryFails(t) /\ UNCHANGED storeVars)
  BY <1>6, <1>7 DEF RejectOverQuota, UpdateEntry
<1>8. CASE PretendStored(t)
  <2>1. PICK e \in cm[t].cur : EntrySucceeds(t, e, "entries")
    BY <1>8 DEF PretendStored
  <2>2. /\ cm'[t].todo = cm[t].todo /\ cm'[t].cur = cm[t].cur
        /\ cm'[t].counts = cm[t].counts /\ cm'[t].fresh = cm[t].fresh
        /\ \A u \in Threads \ {t} : cm'[u] = cm[u]
    BY <2>1, CommitLocals DEF EntrySucceeds, CommitWork
  <2>3. pc[t] = "create" /\ pc'[t] = "entries" /\ OthersWait(t)
    BY <1>1, <1>8, <2>1, <2>2 DEF PretendStored, EntrySucceeds, TypeOK, StateTypeOK
  <2>4. Sound(t)'
    BY <1>0, <2>2, <2>3 DEF Sound, Unwritten
  <2> QED
    BY <1>3, <2>2, <2>3, <2>4
<1>9. CASE SaveMtime(t)
  <2>1. PICK ty \in CommittedTypes(t) : cm' = [cm EXCEPT ![t].mtimes[ty] = Miss]
    BY <1>9 DEF SaveMtime
  <2>2. /\ cm'[t].todo = cm[t].todo /\ cm'[t].cur = cm[t].cur
        /\ cm'[t].counts = cm[t].counts /\ cm'[t].fresh = cm[t].fresh
        /\ \A u \in Threads \ {t} : cm'[u] = cm[u]
    BY <2>1, CommitLocals DEF CommitWork
  <2>3. pc[t] = "setMtime" /\ pc' = pc /\ OthersWait(t)
    BY <1>1, <1>9, <2>2 DEF SaveMtime
  <2>4. Sound(t)'
    BY <1>0, <2>2, <2>3 DEF Sound, Unwritten
  <2> QED
    BY <1>3, <2>2, <2>3, <2>4
<1> QED
  BY <1>4, <1>5, <1>7, <1>8, <1>9

\* What was written is counted, in the interim counter and in the copy of it.
LEMMA CountingKeepsCounts ==
  ASSUME TypeOK, ClearingInv, CountInv, NEW t \in Threads, CommitStep(t),
         CountEntry(t, "countUp", FALSE) \/ CountEntry(t, "countDown", TRUE)
  PROVE  CountInv'
<1>0. /\ ~disabled /\ disabled' = disabled
      /\ \A u \in Threads \ {t} : pc[u] = "idle"
      /\ Sound(t) /\ HasRead(t) /\ Agree(t)
  BY CommitAtWork
<1>1. rows' = rows /\ left' = left /\ gu' = gu
  BY DEF CountEntry, storeVars
<1>2. /\ \A c : CountOf(c)' = CountOf(c)
      /\ \A c : CountOf(c) \in Nat
  BY <1>1, SameRows, CountOfType
<1>3. interim \in Counts /\ cm[t].counts \in Counts /\ cm[t].fresh \in Counts
  BY CommitLocals DEF TypeOK, CacheTypeOK
<1>4. PICK point \in {"countUp", "countDown"}, subtract \in BOOLEAN :
        /\ CountEntry(t, point, subtract)
        /\ subtract <=> point = "countDown"
  OBVIOUS
<1>5. PICK e \in cm[t].cur :
        /\ IncrementInterimCount(CounterOf(e.id), subtract)
        /\ cm' = [cm EXCEPT ![t].fresh[CounterOf(e.id)] = InterimAfter(CounterOf(e.id), subtract)]
  BY <1>4 DEF CountEntry
<1> DEFINE k == CounterOf(e.id)
           n == IF subtract THEN -1 ELSE 1
<1>6. e.id \in Ids /\ k \in Counters /\ n \in Int
  BY CommitLocals, CounterOfType DEF Entry
<1>7. pc[t] = point /\ pc' = [pc EXCEPT ![t] = "entries"]
  BY <1>4 DEF CountEntry, At, Goto
<1>8. /\ interim' = [interim EXCEPT ![k] = interim[k] + n]
      /\ cm' = [cm EXCEPT ![t].fresh[k] = interim[k] + n]
  BY <1>5 DEF IncrementInterimCount, InterimAfter
<1> HIDE DEF k, n
<1>9. /\ cm'[t].todo = cm[t].todo /\ cm'[t].cur = cm[t].cur /\ cm'[t].counts = cm[t].counts
      /\ cm'[t].fresh = [cm[t].fresh EXCEPT ![k] = interim[k] + n]
      /\ \A u \in Threads \ {t} : cm'[u] = cm[u]
  BY <1>8, CommitLocals DEF CommitWork
<1>10. pc'[t] = "entries" /\ OthersWait(t)
  BY <1>1, <1>7, <1>9 DEF OthersWait, TypeOK, StateTypeOK
<1>11. Sound(t)'
  BY <1>0, <1>9, <1>10 DEF Sound, Unwritten
<1>12. HasRead(t)'
  BY <1>0, <1>7, <1>9, <1>10 DEF HasRead, CountingPoints, CommitPoints
<1>13. \A c \in Counters : Uncounted(t, c) = IF c = k THEN n ELSE 0
  <2>1. \A f \in cm[t].cur : f = e
    BY <1>0 DEF Sound
  <2>2. \A c \in Counters : {f \in cm[t].cur : CounterOf(f.id) = c} # {} <=> c = k
    BY <2>1 DEF k
  <2> QED
    BY <1>4, <1>7, <2>2 DEF Uncounted, n
<1>14. ASSUME NEW c \in Counters
       PROVE  /\ cm[t].counts[c] + cm[t].fresh[c] + Uncounted(t, c) = CountOf(c)
              /\ interim[c] = cm[t].fresh[c]
  BY <1>0, <1>7 DEF Agree, Undrained, CountingPoints, CommitPoints
<1>15. ASSUME NEW c \in Counters
       PROVE  /\ cm'[t].counts[c] + cm'[t].fresh[c] = CountOf(c)
              /\ interim'[c] = cm'[t].fresh[c]
  <2>1. CASE c = k
    BY <1>3, <1>6, <1>8, <1>9, <1>13, <1>14, <1>2, <2>1 DEF Counts
  <2>2. CASE c # k
    BY <1>3, <1>6, <1>8, <1>9, <1>13, <1>14, <1>2, <2>2 DEF Counts
  <2> QED
    BY <2>1, <2>2
<1>16. \A c \in Counters : /\ Uncounted(t, c)' = 0
                           /\ Undrained(t, c)' = cm'[t].fresh[c]
                           /\ cm'[t].counts[c] + cm'[t].fresh[c] + 0 = CountOf(c)'
  BY <1>2, <1>10, <1>15 DEF Uncounted, Undrained
<1>17. Agree(t)'
  BY <1>10, <1>15, <1>16 DEF Agree, CountingPoints, CommitPoints
<1> QED
  BY <1>0, <1>1, <1>10, <1>11, <1>12, <1>17, WritingNothingKeeps

\* The interim counters are taken from the cache; the copies stay right.
LEMMA DrainingKeepsCounts ==
  ASSUME TypeOK, ClearingInv, CountInv, NEW t \in Threads, CommitStep(t),
         \/ DrainInterim(t, "entries", "normal", "drainHistory")
         \/ DrainInterim(t, "drainHistory", "history", "setMtime")
  PROVE  CountInv'
<1>0. /\ ~disabled /\ disabled' = disabled
      /\ \A u \in Threads \ {t} : pc[u] = "idle"
      /\ Sound(t) /\ HasRead(t) /\ Agree(t)
  BY CommitAtWork
<1>1. rows' = rows /\ left' = left /\ gu' = gu
  BY DEF DrainInterim, storeVars
<1>2. \A c : CountOf(c)' = CountOf(c)
  BY <1>1, SameRows
<1>3. interim \in Counts /\ cm[t].fresh \in Counts
  BY CommitLocals DEF TypeOK, CacheTypeOK
<1>4. ASSUME NEW c \in Counters, NEW point \in {"entries", "drainHistory"},
             NEW next \in {"drainHistory", "setMtime"}, DrainInterim(t, point, c, next),
             \A b \in Counters : b # c => Undrained(t, b) =
               IF next = "setMtime" THEN 0 ELSE cm[t].fresh[b],
             Undrained(t, c) = cm[t].fresh[c],
             next = "drainHistory" => c = "normal"
      PROVE  CountInv'
  <2>1. /\ cm' = [cm EXCEPT ![t].fresh[c] = interim[c], ![t].cur = {}]
        /\ interim' = [interim EXCEPT ![c] = 0]
        /\ pc[t] = point /\ pc' = [pc EXCEPT ![t] = next]
    BY <1>4 DEF DrainInterim, TakeInterimCount, At, Goto
  <2>2. \A b \in Counters :
          /\ cm[t].counts[b] + cm[t].fresh[b] + Uncounted(t, b) = CountOf(b)
          /\ interim[b] = Undrained(t, b)
          /\ Uncounted(t, b) = 0
    BY <1>0, <2>1 DEF Agree, Uncounted, CountingPoints, CommitPoints
  <2>3. /\ cm'[t].todo = cm[t].todo /\ cm'[t].cur = {} /\ cm'[t].counts = cm[t].counts
        /\ cm'[t].fresh = [cm[t].fresh EXCEPT ![c] = interim[c]]
        /\ \A u \in Threads \ {t} : cm'[u] = cm[u]
    BY <2>1, CommitLocals DEF CommitWork
  <2>4. cm'[t].fresh = cm[t].fresh
    BY <1>3, <1>4, <2>2, <2>3 DEF Counts
  <2>5. pc'[t] = next /\ OthersWait(t)
    BY <1>1, <2>1, <2>3 DEF OthersWait, TypeOK, StateTypeOK
  <2>6. Sound(t)'
    BY <1>0, <2>3, <2>5 DEF Sound, Unwritten
  <2>7. HasRead(t)'
    BY <1>0, <2>1, <2>3, <2>5 DEF HasRead, CountingPoints, CommitPoints
  <2>8. \A b \in Counters : Uncounted(t, b)' = 0
    BY <2>5 DEF Uncounted
  <2>9. \A b \in Counters : interim'[b] = Undrained(t, b)'
    <3>1. \A b \in Counters : interim'[b] = IF b = c THEN 0 ELSE interim[b]
      BY <1>3, <2>1 DEF Counts
    <3>2. Undrained(t, c)' = 0
      BY <1>4, <2>5 DEF Undrained
    <3>3. \A b \in Counters : b # c => Undrained(t, b)' = IF next = "setMtime" THEN 0 ELSE cm[t].fresh[b]
      BY <1>4, <2>4, <2>5 DEF Undrained
    <3> QED
      BY <1>4, <2>2, <3>1, <3>2, <3>3
  <2>10. Agree(t)'
    BY <1>2, <2>2, <2>3, <2>4, <2>5, <2>8, <2>9 DEF Agree, CountingPoints, CommitPoints
  <2> QED
    BY <1>0, <1>1, <2>5, <2>6, <2>7, <2>10, WritingNothingKeeps
<1>5. CASE DrainInterim(t, "entries", "normal", "drainHistory")
  <2>1. \A b \in Counters : Undrained(t, b) = cm[t].fresh[b]
    BY <1>5 DEF DrainInterim, At, Undrained
  <2> QED
    BY <1>4, <1>5, <2>1 DEF Counters
<1>6. CASE DrainInterim(t, "drainHistory", "history", "setMtime")
  <2>1. Undrained(t, "history") = cm[t].fresh["history"] /\ Undrained(t, "normal") = 0
    BY <1>6 DEF DrainInterim, At, Undrained
  <2> QED
    BY <1>4, <1>6, <2>1 DEF Counters
<1> QED
  BY <1>5, <1>6

\* The totals go to the table, and the response to the device.
LEMMA EndingKeepsCounts ==
  ASSUME TypeOK, ClearingInv, CountInv, NEW t \in Threads, CommitStep(t),
         FlushCounts(t) \/ ReplyCommit(t)
  PROVE  CountInv'
<1>0. /\ ~disabled /\ disabled' = disabled
      /\ \A u \in Threads \ {t} : pc[u] = "idle"
      /\ Sound(t) /\ HasRead(t) /\ Agree(t)
  BY CommitAtWork
<1>1. rows' = rows /\ interim' = interim
  BY DEF FlushCounts, UpdateClientItemCount, ReplyCommit, storeVars, cacheVars
<1>2. \A c : CountOf(c)' = CountOf(c)
  BY <1>1, SameRows
<1>3. CASE FlushCounts(t)
  <2>1. UpdateClientItemCount(cm[t].counts, cm[t].fresh) /\ left' = left
    BY <1>3, SpendKeeps DEF FlushCounts, Kinds
  <2>2. /\ pc[t] = "setMtime" /\ cm' = cm /\ gu' = gu
        /\ pc' = [pc EXCEPT ![t] = "reply"]
    BY <1>3 DEF FlushCounts, At, Goto
  <2>3. pc'[t] = "reply" /\ OthersWait(t)
    BY <2>2 DEF OthersWait, TypeOK, StateTypeOK
  <2>4. \A c \in Counters : /\ itemCounts'[c] = cm[t].counts[c] + cm[t].fresh[c]
                            /\ Uncounted(t, c) = 0 /\ Undrained(t, c) = 0
    BY <2>1, <2>2 DEF UpdateClientItemCount, Uncounted, Undrained
  <2>5. /\ cm[t].counts \in Counts /\ cm[t].fresh \in Counts
        /\ \A c \in Counters : /\ cm[t].counts[c] + cm[t].fresh[c] + Uncounted(t, c) = CountOf(c)
                               /\ interim[c] = Undrained(t, c)
    BY <1>0, <2>2, CommitLocals DEF Agree, CountingPoints, CommitPoints
  <2>6. \A c \in Counters : itemCounts'[c] = CountOf(c)
    BY <2>4, <2>5 DEF Counts
  <2>7. Agree(t)'
    BY <1>1, <1>2, <2>3, <2>4, <2>5, <2>6 DEF Agree, CountingPoints, CommitPoints
  <2>8. Sound(t)'
    BY <1>0, <2>2, <2>3 DEF Sound, Unwritten
  <2>9. HasRead(t)'
    BY <2>3 DEF HasRead, CountingPoints, CommitPoints
  <2> QED
    BY <1>0, <1>1, <2>1, <2>3, <2>7, <2>8, <2>9, WritingNothingKeeps
<1>4. CASE ReplyCommit(t)
  <2>1. pc[t] = "reply" /\ itemCounts' = itemCounts /\ left' = left /\ Finish(t)
    BY <1>4 DEF ReplyCommit, At, storeVars
  <2>2. OthersWait(t) /\ pc'[t] = "idle" /\ cm'[t] = NoCommit
    BY <2>1, FinishAddsNothing, EndsIdle, CommitLocals DEF Finish
  <2>3. Sound(t)'
    BY <2>2 DEF Sound, NoCommit, Unwritten
  <2>4. HasRead(t)'
    BY <2>2 DEF HasRead, CountingPoints, CommitPoints
  <2>5. Agree(t)'
    BY <1>0, <1>1, <1>2, <2>1, <2>2 DEF Agree, CountingPoints, CommitPoints
  <2> QED
    BY <1>0, <1>1, <2>1, <2>2, <2>3, <2>4, <2>5, WritingNothingKeeps
<1> QED
  BY <1>3, <1>4

\* No two entities have one client tag.
NoSharedTags == \A i \in Ids : TagIsOwn(i)

\* So that only the entity itself can hold its tag, and its insert does not conflict.
LEMMA NewTagIsFree ==
  ASSUME TagsUnique, NoSharedTags, NEW i \in Ids, ~Stored(i)
  PROVE  ~InsertConflicts(i)
<1> SUFFICES ASSUME ClientTagRow(i) \cap tagRows # {}
             PROVE  FALSE
  BY DEF InsertConflicts
<1>1. ClientTagRow(i) # {} /\ TagOf[i] \in tagRows
  BY DEF ClientTagRow
<1>2. PICK j \in Ids : HoldsTag(j) /\ TagOf[j] = TagOf[i]
  BY <1>1 DEF TagsUnique
<1>3. j = i
  BY <1>1, <1>2 DEF NoSharedTags, TagIsOwn
<1> QED
  BY <1>2, <1>3 DEF HoldsTag, Live

\* A new row finds room and no conflict, and is counted next.
LEMMA InsertEntryKeepsCounts ==
  ASSUME TypeOK, ClearingInv, TagsInv, HistoryStaysLive, CountInv, NoSharedTags,
         NEW t \in Threads, CommitStep(t), InsertEntry(t)
  PROVE  CountInv'
<1>0. /\ ~disabled /\ disabled' = disabled
      /\ \A u \in Threads \ {t} : pc[u] = "idle"
      /\ Sound(t) /\ HasRead(t) /\ Agree(t)
  BY CommitAtWork
<1>1. PICK e \in cm[t].cur : /\ ~Pretended(cm[t], e.id)
                             /\ InsertSyncEntity(e.id, RowFor(t, e))
                             /\ EntrySucceeds(t, e, "countUp")
  BY DEF InsertEntry
<1>2. /\ pc[t] = "create" /\ ~OverQuota(cm[t])
      /\ gu' = gu /\ interim' = interim /\ left' = left
  BY DEF InsertEntry, At, cacheVars
<1>3. e.id \in Ids /\ CounterOf(e.id) \in Counters /\ e.deleted \in BOOLEAN
      /\ RowFor(t, e) \in Row
  BY CommitLocals, CounterOfType, RowForType DEF Entry
<1>4. ~Stored(e.id) /\ ~InsertConflicts(e.id)
  <2>1. ~Stored(e.id)
    BY <1>0, <1>2, <1>3 DEF Sound
  <2> QED
    BY <1>3, <2>1, NewTagIsFree DEF TagsInv
<1>5. rows' = [rows EXCEPT ![e.id] = RowFor(t, e)] /\ itemCounts' = itemCounts
  BY <1>1, <1>4 DEF InsertSyncEntity
<1>6. ~e.deleted /\ TagOf[e.id] \notin ServerTags
  <2>1. CASE Versioned(e.id)
    BY <1>2, <2>1 DEF TagsInv, NewAreLive
  <2>2. CASE ~Versioned(e.id)
    BY <1>2, <1>3, <2>2, TagAssumption DEF HistoryStaysLive, Unwritten, Versioned
  <2> QED
    BY <2>1, <2>2
<1>7. rows'[e.id] = RowFor(t, e) /\ \A j \in Ids \ {e.id} : rows'[j] = rows[j]
  BY <1>3, <1>5 DEF TypeOK, StoreTypeOK
<1>8. /\ RowFor(t, e) # NoRow /\ ~RowFor(t, e).deleted
  BY <1>3, <1>6, NoRowAssumption DEF RowFor
<1>9. /\ ~Committed(e.id) /\ Committed(e.id)'
      /\ \A j \in Ids \ {e.id} : Committed(j)' = Committed(j)
  BY <1>4, <1>6, <1>7, <1>8 DEF Committed, Live, Stored
<1>10. \A c \in Counters :
         /\ CountOf(c)' = CountOf(c) + (IF CounterOf(e.id) = c THEN 1 ELSE 0)
         /\ CountOf(c) \in Nat
  BY <1>3, <1>9, OneMoreCount, CountOfType
<1>11. /\ cm'[t].todo = cm[t].todo /\ cm'[t].cur = cm[t].cur
       /\ cm'[t].counts = cm[t].counts /\ cm'[t].fresh = cm[t].fresh
       /\ \A u \in Threads \ {t} : cm'[u] = cm[u]
  BY <1>1, CommitLocals DEF EntrySucceeds, CommitWork
<1>12. pc'[t] = "countUp" /\ OthersWait(t)
  BY <1>1, <1>2, <1>11 DEF EntrySucceeds, Goto, OthersWait, TypeOK, StateTypeOK
<1>13. Sound(t)'
  BY <1>0, <1>11, <1>12 DEF Sound, Unwritten
<1>14. HasRead(t)'
  BY <1>0, <1>2, <1>11, <1>12 DEF HasRead, CountingPoints, CommitPoints
<1>15. cm[t].counts \in Counts /\ cm[t].fresh \in Counts
  BY CommitLocals
<1>16. \A c \in Counters : /\ cm[t].counts[c] + cm[t].fresh[c] = CountOf(c)
                           /\ interim[c] = cm[t].fresh[c]
  <2>1. \A c \in Counters : Uncounted(t, c) = 0 /\ Undrained(t, c) = cm[t].fresh[c]
    BY <1>2 DEF Uncounted, Undrained
  <2>2. \A c \in Counters : cm[t].counts[c] + cm[t].fresh[c] + 0 = CountOf(c)
                            /\ interim[c] = cm[t].fresh[c]
    BY <1>0, <1>2, <2>1 DEF Agree, CountingPoints, CommitPoints
  <2> QED
    BY <1>15, <2>2 DEF Counts
<1>17. \A c \in Counters : Uncounted(t, c)' = (IF CounterOf(e.id) = c THEN 1 ELSE 0)
                           /\ Undrained(t, c)' = cm[t].fresh[c]
  <2>1. \A f \in cm[t].cur : f = e
    BY <1>0 DEF Sound
  <2>2. \A c \in Counters : {f \in cm[t].cur : CounterOf(f.id) = c} # {} <=> CounterOf(e.id) = c
    BY <2>1
  <2> QED
    BY <1>11, <1>12, <2>2 DEF Uncounted, Undrained, CounterOf, HistoryRelated
<1>18. Agree(t)'
  BY <1>2, <1>10, <1>11, <1>12, <1>16, <1>17 DEF Agree, CountingPoints, CommitPoints
<1>19. QuotaHeld'
  <2>1. cm[t].counts["history"] <= MaxHistory
    BY <1>0, <1>2 DEF HasRead, CountingPoints, CommitPoints
  <2>2. /\ cm[t].counts["history"] \in Int /\ cm[t].counts["normal"] \in Int
        /\ cm[t].fresh["history"] \in Int /\ cm[t].fresh["normal"] \in Int
        /\ MaxHistory \in Nat /\ MaxObjects \in Nat
        /\ "normal" \in Counters /\ "history" \in Counters
    BY <1>15, LimitAssumption DEF Counts, Counters
  <2>3. Boost(cm[t]) = 0
    BY <2>1, <2>2 DEF Boost
  <2>4. CountOf("normal") + CountOf("history") < MaxObjects
    BY <1>2, <1>16, <2>2, <2>3 DEF OverQuota
  <2>5. CounterOf(e.id) = "history" => CountOf("history") < MaxHistory
    BY <1>1, <1>16, <2>2 DEF Pretended, HistoryFull, CounterOf
  <2>6. CountOf("normal") \in Nat /\ CountOf("history") \in Nat
    BY <1>10, <2>2
  <2>7. /\ CountOf("normal")' = CountOf("normal") + (IF CounterOf(e.id) = "normal" THEN 1 ELSE 0)
        /\ CountOf("history")' = CountOf("history") + (IF CounterOf(e.id) = "history" THEN 1 ELSE 0)
    BY <1>10, <2>2
  <2>8. CountOf("history") <= MaxHistory
    BY DEF CountInv, QuotaHeld
  <2> QED
    BY <2>2, <2>4, <2>5, <2>6, <2>7, <2>8 DEF QuotaHeld
<1>20. HistoryRowsLive'
  BY <1>7, <1>8 DEF CountInv, HistoryRowsLive, Stored, Versioned
<1>21. left'["storeError"] = 0 /\ left'["crash"] = 0
  BY <1>2 DEF CountInv
<1> QED
  BY <1>0, <1>12, <1>13, <1>14, <1>18, <1>19, <1>20, <1>21, OneKeepsCounts

\* An update replaces a live row: by a live one, which changes no number, or by a
\* tombstone, which is counted next; root folders and history are never deleted.
LEMMA UpdateEntryKeepsCounts ==
  ASSUME TypeOK, ClearingInv, VersionsInv, ~EditTombstones, HistoryStaysLive, CountInv,
         NEW t \in Threads, CommitStep(t), UpdateEntry(t),
         ~(EntryFails(t) /\ UNCHANGED storeVars)
  PROVE  CountInv'
<1>0. /\ ~disabled /\ disabled' = disabled
      /\ \A u \in Threads \ {t} : pc[u] = "idle"
      /\ Sound(t) /\ HasRead(t) /\ Agree(t)
  BY CommitAtWork
<1>1. PICK e \in cm[t].cur :
        /\ ~UpdateConflicts(e.id, e.base)
        /\ UpdateSyncEntity(e.id, RowFor(t, e))
        /\ EntrySucceeds(t, e, IF BecomesDeleted(e.id, e.deleted) THEN "countDown" ELSE "entries")
  BY DEF UpdateEntry
<1>2. /\ pc[t] = "update"
      /\ gu' = gu /\ interim' = interim /\ left' = left
  BY DEF UpdateEntry, At, cacheVars
<1>3. e.id \in Ids /\ CounterOf(e.id) \in Counters /\ e.deleted \in BOOLEAN
      /\ RowFor(t, e) \in Row
  BY CommitLocals, CounterOfType, RowForType DEF Entry
<1>4. rows' = [rows EXCEPT ![e.id] = RowFor(t, e)] /\ itemCounts' = itemCounts
  BY <1>1 DEF UpdateSyncEntity
<1>5. Live(e.id)
  <2>1. CASE Versioned(e.id)
    BY <1>1, <1>2, <2>1, UpdatedIsLive
  <2>2. CASE ~Versioned(e.id)
    BY <1>1, <1>3, <2>2 DEF CountInv, HistoryRowsLive, UpdateConflicts, Live
  <2> QED
    BY <2>1, <2>2
<1>6. rows'[e.id] = RowFor(t, e) /\ \A j \in Ids \ {e.id} : rows'[j] = rows[j]
  BY <1>3, <1>4 DEF TypeOK, StoreTypeOK
<1>7. RowFor(t, e) # NoRow /\ RowFor(t, e).deleted = e.deleted
  BY <1>3, NoRowAssumption DEF RowFor
<1>8. /\ e.deleted => TagOf[e.id] \notin ServerTags
      /\ ~Versioned(e.id) => ~e.deleted
  BY <1>0, <1>2 DEF Sound, Unwritten, HistoryStaysLive
<1>9. HistoryRowsLive'
  BY <1>6, <1>7, <1>8 DEF CountInv, HistoryRowsLive, Stored, Versioned
<1>10. left'["storeError"] = 0 /\ left'["crash"] = 0
  BY <1>2 DEF CountInv
<1>11. /\ cm'[t].todo = cm[t].todo /\ cm'[t].cur = cm[t].cur
       /\ cm'[t].counts = cm[t].counts /\ cm'[t].fresh = cm[t].fresh
       /\ \A u \in Threads \ {t} : cm'[u] = cm[u]
  BY <1>1, CommitLocals DEF EntrySucceeds, CommitWork
<1>12. pc'[t] = (IF e.deleted THEN "countDown" ELSE "entries") /\ OthersWait(t)
  <2>1. BecomesDeleted(e.id, e.deleted) <=> e.deleted
    BY <1>5 DEF BecomesDeleted, Live
  <2> QED
    BY <1>1, <1>2, <1>11, <2>1 DEF EntrySucceeds, Goto, OthersWait, TypeOK, StateTypeOK
<1>13. Sound(t)'
  BY <1>0, <1>11, <1>12 DEF Sound, Unwritten
<1>14. HasRead(t)'
  BY <1>0, <1>2, <1>11, <1>12 DEF HasRead, CountingPoints, CommitPoints
<1>15. cm[t].counts \in Counts /\ cm[t].fresh \in Counts
  BY CommitLocals
<1>16. \A c \in Counters : /\ cm[t].counts[c] + cm[t].fresh[c] = CountOf(c)
                           /\ interim[c] = cm[t].fresh[c]
  <2>1. \A c \in Counters : Uncounted(t, c) = 0 /\ Undrained(t, c) = cm[t].fresh[c]
    BY <1>2 DEF Uncounted, Undrained
  <2>2. \A c \in Counters : cm[t].counts[c] + cm[t].fresh[c] + 0 = CountOf(c)
                            /\ interim[c] = cm[t].fresh[c]
    BY <1>0, <1>2, <2>1 DEF Agree, CountingPoints, CommitPoints
  <2> QED
    BY <1>15, <2>2 DEF Counts
<1>17. \A j \in Ids \ {e.id} : Committed(j)' = Committed(j)
  BY <1>6 DEF Committed, Live, Stored
<1>18. \A c \in Counters : CountOf(c) \in Nat
  BY CountOfType
<1>19. CASE ~e.deleted
  <2>1. \A j \in Ids : Committed(j)' = Committed(j)
    BY <1>5, <1>6, <1>7, <1>17, <1>19 DEF Committed, Live, Stored
  <2>2. \A c : CountOf(c)' = CountOf(c)
    BY <2>1, SameCount
  <2>3. QuotaHeld'
    BY <2>2 DEF CountInv, QuotaHeld
  <2>4. \A c \in Counters : Uncounted(t, c)' = 0 /\ Undrained(t, c)' = cm[t].fresh[c]
    BY <1>11, <1>12, <1>19 DEF Uncounted, Undrained
  <2>5. Agree(t)'
    BY <1>2, <1>11, <1>12, <1>16, <1>18, <1>19, <2>2, <2>4 DEF Agree, CountingPoints, CommitPoints
  <2> QED
    BY <1>0, <1>9, <1>10, <1>12, <1>13, <1>14, <2>3, <2>5, OneKeepsCounts
<1>20. CASE e.deleted
  <2>1. Committed(e.id) /\ ~Committed(e.id)'
    BY <1>5, <1>6, <1>7, <1>8, <1>20 DEF Committed, Live
  <2>2. \A c \in Counters : CountOf(c)' = CountOf(c) - (IF CounterOf(e.id) = c THEN 1 ELSE 0)
    BY <1>3, <1>17, <2>1, OneLessCount
  <2>3. QuotaHeld'
    <3>1. CountOf("normal")' <= CountOf("normal") /\ CountOf("history")' <= CountOf("history")
          /\ CountOf("normal")' \in Int /\ CountOf("history")' \in Int
      BY <1>18, <2>2 DEF Counters
    <3> QED
      BY <1>18, <3>1, LimitAssumption DEF CountInv, QuotaHeld, Counters
  <2>4. \A c \in Counters : Uncounted(t, c)' = (IF CounterOf(e.id) = c THEN -1 ELSE 0)
                            /\ Undrained(t, c)' = cm[t].fresh[c]
    <3>1. \A f \in cm[t].cur : f = e
      BY <1>0 DEF Sound
    <3>2. \A c \in Counters : {f \in cm[t].cur : CounterOf(f.id) = c} # {} <=> CounterOf(e.id) = c
      BY <3>1
    <3> QED
      BY <1>11, <1>12, <1>20, <3>2 DEF Uncounted, Undrained, CounterOf, HistoryRelated
  <2>5. \A c \in Counters :
          cm'[t].counts[c] + cm'[t].fresh[c] + Uncounted(t, c)' = CountOf(c)'
    BY <1>11, <1>15, <1>16, <1>18, <2>2, <2>4 DEF Counts
  <2>6. Agree(t)'
    BY <1>2, <1>12, <1>16, <1>20, <2>4, <2>5 DEF Agree, CountingPoints, CommitPoints
  <2> QED
    BY <1>0, <1>9, <1>10, <1>12, <1>13, <1>14, <2>3, <2>6, OneKeepsCounts
<1> QED
  BY <1>3, <1>19, <1>20

\* Every step of a commit.
LEMMA CommitKeepsCounts ==
  ASSUME TypeOK, ClearingInv, VersionsInv, TagsInv, ~EditTombstones, HistoryStaysLive, NoSharedTags,
         CountInv, NEW t \in Threads, CommitStep(t)
  PROVE  CountInv'
<1>1. ~EntryStoreError(t) /\ ~CountsStoreError(t)
  BY SpendKeeps DEF EntryStoreError, CountsStoreError, FailOnStoreError, Kinds
<1> QED
  BY <1>1, ReadingKeepsCounts, PassingKeepsCounts, CountingKeepsCounts, DrainingKeepsCounts,
     EndingKeepsCounts, InsertEntryKeepsCounts, UpdateEntryKeepsCounts DEF CommitStep

(* The other handlers, and the environment ---------------------------------- *)

\* The steps that neither count nor write an entity.
LEMMA CountingNothingKeeps ==
  ASSUME CountInv, NEW t \in Threads, \A u \in Threads \ {t} : pc[u] = "idle", OthersWait(t),
         left'["storeError"] = 0, left'["crash"] = 0,
         disabled \/ disabled' \/ (itemCounts' = itemCounts /\ interim' = interim),
         disabled => disabled',
         \A i \in Ids : Stored(i)' /\ TagOf[i] \notin ServerTags => rows'[i] = rows[i],
         disabled' \/ \A i \in Ids : TagOf[i] \notin ServerTags => rows'[i] = rows[i],
         pc[t] \notin CommitPoints \/ pc[t] = "count",
         pc'[t] \notin CommitPoints \/ pc'[t] = "count",
         /\ cm'[t].cur \in {cm[t].cur, {}}
         /\ \A e \in cm'[t].todo : e.deleted => TagOf[e.id] \notin ServerTags
  PROVE  CountInv'
<1>1. Sound(t) /\ HasRead(t) /\ (~disabled => Agree(t))
  BY AgreeOfOne
<1>2. Sound(t)'
  BY <1>1 DEF Sound, Unwritten, CommitPoints
<1>3. HasRead(t)'
  BY DEF HasRead, CountingPoints, CommitPoints
<1>4. \A i \in Ids : Committed(i)' => Committed(i)
  BY DEF Committed, Live, Stored
<1>5. QuotaHeld'
  <2>1. /\ CountOf("normal")' \in Nat /\ CountOf("normal")' <= CountOf("normal")
        /\ CountOf("history")' \in Nat /\ CountOf("history")' <= CountOf("history")
    BY <1>4, FewerCount
  <2> QED
    BY <2>1, CountOfType, LimitAssumption DEF CountInv, QuotaHeld
<1>6. ASSUME ~disabled' PROVE Agree(t)'
  <2>1. \A i \in Ids : Committed(i)' = Committed(i)
    BY <1>6 DEF Committed, Live, Stored
  <2>2. \A c : CountOf(c)' = CountOf(c)
    BY <2>1, SameCount
  <2> QED
    BY <1>1, <1>6, <2>2 DEF Agree, CountingPoints, CommitPoints
<1>7. HistoryRowsLive'
  BY TagAssumption DEF CountInv, HistoryRowsLive, Stored, Versioned
<1> QED
  BY <1>2, <1>3, <1>5, <1>6, <1>7, OneKeepsCounts

\* Requests for updates write root folders, which are not counted.
LEMMA GetUpdatesKeepsCounts ==
  ASSUME TypeOK, ClearingInv, CountInv, NEW t \in Threads, GetUpdatesStep(t)
  PROVE  CountInv'
<1> USE DEF GetUpdatesPoints, CommitPoints
<1>1. pc[t] \in GetUpdatesPoints /\ disabled' = disabled
  BY GetUpdatesIsAlone
<1>2. \A u \in Threads \ {t} : pc[u] = "idle"
  BY <1>1, OthersAreIdle DEF ClearingInv
<1>3. ~GetUpdatesStoreError(t)
  BY SpendKeeps DEF GetUpdatesStoreError, FailOnStoreError, Kinds
<1>4. itemCounts' = itemCounts /\ interim' = interim /\ left' = left
  BY <1>3 DEF GetUpdatesStep, CountDevices, CheckFolders, MakeFolders, InsertFolders, StartMarker,
              QueryType, CacheToken, ReplyGetUpdates, Fail, LocalGU, InsertSyncEntitiesWithServerTags,
              SetTypeMtime, storeVars, cacheVars
<1>5. left'["storeError"] = 0 /\ left'["crash"] = 0
  BY <1>4 DEF CountInv
<1>6. \A e \in cm[t].todo : e.deleted => TagOf[e.id] \notin ServerTags
  BY DEF CountInv, EntriesAreSound
<1>7. ASSUME OthersWait(t), pc'[t] \notin CommitPoints,
             cm' = cm \/ cm'[t] = NoCommit,
             \A i \in Ids : TagOf[i] \notin ServerTags => rows'[i] = rows[i]
      PROVE  CountInv'
  <2>1. /\ cm'[t].cur \in {cm[t].cur, {}}
        /\ \A e \in cm'[t].todo : e.deleted => TagOf[e.id] \notin ServerTags
    BY <1>6, <1>7 DEF NoCommit
  <2> QED
    BY <1>1, <1>2, <1>4, <1>5, <1>7, <2>1, CountingNothingKeeps
<1>8. GetUpdatesKinds(t)
  BY GetUpdatesSplits
<1>9. CASE (CountDevices(t) /\ ~Fail(t)) \/ CheckFolders(t) \/ StartMarker(t)
  BY <1>7, <1>9, ReadingGoesOn DEF Still, AnswerGoesOn
<1>10. CASE MakeFolders(t)
  BY <1>7, <1>10, MakeFoldersStamps
<1>11. CASE ReplyGetUpdates(t) \/ (pc[t] \in GetUpdatesPoints /\ Fail(t))
  <2>1. rows' = rows /\ Finish(t)
    BY <1>11, ReplyGetUpdatesTeaches, FailIsStill DEF Still
  <2>2. OthersWait(t) /\ pc'[t] = "idle" /\ cm'[t] = NoCommit
    BY <2>1, EndsEmpty, CommitLocals DEF Finish
  <2> QED
    BY <1>7, <2>1, <2>2
<1>12. CASE InsertFolders(t) /\ ~Fail(t)
  <2>1. gu[t].folders \subseteq RootIds
    BY GetUpdatesLocals
  <2>2. \A i \in Ids : TagOf[i] \notin ServerTags => rows'[i] = rows[i]
    BY <1>12, <2>1, InsertFoldersWrites DEF RootIds
  <2> QED
    BY <1>7, <1>12, <2>2, InsertFoldersWrites
<1>13. CASE QueryType(t) /\ ~Fail(t)
  BY <1>7, <1>13, QueryTypeReads DEF Still
<1>14. CASE CacheToken(t)
  BY <1>7, <1>14, CacheTokenCaches
<1> QED
  BY <1>8, <1>9, <1>10, <1>11, <1>12, <1>13, <1>14 DEF GetUpdatesKinds

\* A clear only removes rows, once the chain is disabled.
LEMMA ClearKeepsCounts ==
  ASSUME TypeOK, ClearingInv, ClearingIsDisabled, CountInv, NEW t \in Threads, ClearStep(t)
  PROVE  CountInv'
<1> USE DEF ClearPoints, CommitPoints
<1>1. /\ \A i \in Ids : rows'[i] \in {rows[i], NoRow}
      /\ OthersWait(t) /\ pc[t] \in ClearPoints
      /\ \/ pc'[t] \in ClearPoints /\ cm' = cm
         \/ Finish(t)
  BY ClearStepRemoves
<1>2. \A u \in Threads \ {t} : pc[u] = "idle"
  BY <1>1, OthersAreIdle DEF ClearingInv
<1>3. ~ClearStoreError(t)
  BY SpendKeeps DEF ClearStoreError, FailOnStoreError, Kinds
<1>4. left' = left /\ interim' = interim /\ (disabled => disabled')
  BY <1>3 DEF ClearStep, Disable, DisableSyncChain, Scan, Wipe, ClearServerData, EvictAndReply,
              DelTypeMtimes, storeVars, cacheVars
<1>5. left'["storeError"] = 0 /\ left'["crash"] = 0
  BY <1>4 DEF CountInv
<1>6. /\ disabled' \/ (itemCounts' = itemCounts /\ rows' = rows)
  <2>1. CASE Disable(t) \/ Scan(t) \/ EvictAndReply(t)
    BY <2>1 DEF Disable, DisableSyncChain, Scan, EvictAndReply, storeVars
  <2>2. CASE Wipe(t)
    BY <1>4, <2>2 DEF ClearingIsDisabled, Wipe, At
  <2> QED
    BY <1>3, <2>1, <2>2 DEF ClearStep
<1>7. pc'[t] \notin CommitPoints
  BY <1>1, EndsEmpty
<1>8. /\ cm'[t].cur \in {cm[t].cur, {}}
      /\ \A e \in cm'[t].todo : e.deleted => TagOf[e.id] \notin ServerTags
  <2>1. cm' = cm \/ cm'[t] = NoCommit
    BY <1>1, CommitLocals DEF Finish
  <2> QED
    BY <2>1 DEF NoCommit, CountInv, EntriesAreSound
<1>9. \A i \in Ids : Stored(i)' /\ TagOf[i] \notin ServerTags => rows'[i] = rows[i]
  BY <1>1 DEF Stored
<1> QED
  BY <1>1, <1>2, <1>4, <1>5, <1>6, <1>7, <1>8, <1>9, CountingNothingKeeps

\* A request is taken by an idle server; a commit deletes no root folder.
LEMMA SendKeepsCounts ==
  ASSUME TypeOK, Serial, CountInv, NEW t \in Threads, Send(t)
  PROVE  CountInv'
<1> USE DEF CommitPoints
<1>1. (\A u \in Threads : pc[u] = "idle") /\ disabled' = disabled
  BY SendIsAdmitted
<1>2. itemCounts' = itemCounts /\ interim' = interim /\ rows' = rows
  BY DEF Send, SendCommit, SendGetUpdates, SendClear, storeVars, cacheVars
<1>3. left'["storeError"] = 0 /\ left'["crash"] = 0
  BY SpendKeeps DEF Send, SendCommit, SendGetUpdates, SendClear, Kinds
<1>4. ASSUME OthersWait(t), pc'[t] \in {"count", "devices", "markers", "disable"},
             cm'[t].cur = cm[t].cur,
             \A e \in cm'[t].todo : e.deleted => TagOf[e.id] \notin ServerTags
      PROVE  CountInv'
  BY <1>1, <1>2, <1>3, <1>4, CountingNothingKeeps
<1>5. \A e \in cm[t].todo : e.deleted => TagOf[e.id] \notin ServerTags
  BY DEF CountInv, EntriesAreSound
<1>6. CASE SendCommit(t)
  <2> DEFINE d == Dev(t)
             Msg(S, dead) ==
               {[id |-> i, base |-> known[d][i].version, deleted |-> i \in dead] : i \in S}
  <2>1. PICK S \in SUBSET {i \in Ids : CanCreate(d, i) \/ CanUpdate(d, i)} :
          \E dead \in SUBSET {i \in S : CanDelete(d, i)} :
            cm' = [cm EXCEPT ![t].todo = Msg(S, dead)]
    BY <1>6 DEF SendCommit
  <2>2. PICK dead \in SUBSET {i \in S : CanDelete(d, i)} :
          cm' = [cm EXCEPT ![t].todo = Msg(S, dead)]
    BY <2>1
  <2>3. cm'[t].todo = Msg(S, dead) /\ cm'[t].cur = cm[t].cur
    BY <2>2, CommitLocals DEF CommitWork
  <2>4. \A e \in cm'[t].todo : e.deleted = (e.id \in dead)
    BY <2>3
  <2>5. \A i \in dead : TagOf[i] \notin ServerTags
    BY DEF CanDelete
  <2> QED
    BY <1>4, <1>6, <2>3, <2>4, <2>5, SendCommitBegins
<1>7. CASE SendGetUpdates(t)
  BY <1>4, <1>5, <1>7, SendGetUpdatesBegins
<1>8. CASE SendClear(t)
  BY <1>4, <1>5, <1>8, SendClearBegins
<1> QED
  BY <1>6, <1>7, <1>8 DEF Send

\* Nothing outside the handlers counts; the process is not restarted.
LEMMA OutsideKeepsCounts ==
  ASSUME TypeOK, CountInv, Outside
  PROVE  CountInv'
<1>1. ~Crash
  BY SpendKeeps DEF Crash, Kinds
<1>2. left'["storeError"] = 0 /\ left'["crash"] = 0
  <2>1. CASE Tick \/ SetBack \/ AwaitRequests \/ UNCHANGED vars
    BY <2>1 DEF Tick, SetBack, AwaitRequests, vars, CountInv
  <2>2. ASSUME NEW t \in Threads, GiveUp(t)
        PROVE  left'["storeError"] = 0 /\ left'["crash"] = 0
    BY <2>2, SpendKeeps DEF GiveUp, Kinds
  <2>3. ASSUME NEW ty \in Types, Expire(ty)
        PROVE  left'["storeError"] = 0 /\ left'["crash"] = 0
    BY <2>3, SpendKeeps DEF Expire, Kinds
  <2> QED
    BY <1>1, <2>1, <2>2, <2>3 DEF Outside
<1>3. /\ rows' = rows /\ disabled' = disabled /\ itemCounts' = itemCounts /\ interim' = interim
      /\ pc' = pc /\ cm' = cm
  <2>1. CASE Tick \/ SetBack \/ AwaitRequests \/ UNCHANGED vars
    BY <2>1 DEF Tick, SetBack, AwaitRequests, vars, storeVars, cacheVars
  <2>2. ASSUME NEW t \in Threads, GiveUp(t)
        PROVE  /\ rows' = rows /\ disabled' = disabled /\ itemCounts' = itemCounts
               /\ interim' = interim /\ pc' = pc /\ cm' = cm
    BY <2>2 DEF GiveUp, storeVars, cacheVars
  <2>3. ASSUME NEW ty \in Types, Expire(ty)
        PROVE  /\ rows' = rows /\ disabled' = disabled /\ itemCounts' = itemCounts
               /\ interim' = interim /\ pc' = pc /\ cm' = cm
    BY <2>3 DEF Expire, DelTypeMtimes, storeVars
  <2> QED
    BY <1>1, <2>1, <2>2, <2>3 DEF Outside
<1>4. HistoryRowsLive' /\ QuotaHeld' /\ \A c : CountOf(c)' = CountOf(c)
  BY <1>3, SameRows
<1>5. \A i \in Ids : Stored(i)' = Stored(i)
  BY <1>3 DEF Stored
<1>6. EntriesAreSound'
  BY <1>3, <1>5, CommitLocals DEF CountInv, EntriesAreSound, Entry
<1>7. CountsAreRead'
  BY <1>3 DEF CountInv, CountsAreRead
<1>8. CountsAgree'
  BY <1>3, <1>4 DEF CountInv, CountsAgree, Uncounted, Undrained
<1> QED
  BY <1>2, <1>4, <1>6, <1>7, <1>8 DEF CountInv

(* The invariant ------------------------------------------------------------ *)

\* At the start all counts are zero.
LEMMA InitCountInv ==
  ASSUME Init, Budget["storeError"] = 0, Budget["crash"] = 0
  PROVE  CountInv
<1>1. \A i \in Ids : ~Stored(i)
  BY DEF Init, StoreInit, Stored
<1>2. ASSUME NEW c PROVE CountOf(c) = 0
  <2>1. {i \in Ids : Committed(i) /\ CounterOf(i) = c} = {}
    BY <1>1 DEF Committed, Live
  <2> QED
    BY <2>1, FS_EmptySet DEF CountOf
<1>3. left["storeError"] = 0 /\ left["crash"] = 0
  BY DEF Init
<1>4. \A t \in Threads : pc[t] = "idle" /\ cm[t].todo = {} /\ cm[t].cur = {}
  BY DEF Init, NoCommit
<1>5. HistoryRowsLive /\ EntriesAreSound /\ CountsAreRead
  BY <1>1, <1>4
  DEF HistoryRowsLive, EntriesAreSound, CountsAreRead, CountingPoints, CommitPoints, Unwritten
<1>6. \A c \in Counters : itemCounts[c] = 0 /\ interim[c] = 0
  BY DEF Init, StoreInit, CacheInit, CacheEmpty, NoCounts
<1>7. CountsAgree
  BY <1>2, <1>4, <1>6 DEF CountsAgree, CountingPoints, CommitPoints
<1>8. QuotaHeld
  BY <1>2, LimitAssumption DEF QuotaHeld
<1> QED
  BY <1>3, <1>5, <1>7, <1>8 DEF CountInv

\* As long as requests do not overlap.
LEMMA NextCountInv ==
  ASSUME TypeOK, Serial, ClearingInv, VersionsInv, TagsInv, ChainInv, ~EditTombstones, NoSharedTags,
         CountInv, [Next]_vars
  PROVE  CountInv'
BY OutsideKeepsCounts, SendKeepsCounts, CommitKeepsCounts, GetUpdatesKeepsCounts, ClearKeepsCounts
DEF ChainInv, Next, Step, Outside

\* The counts are right in every reachable state.
LEMMA CountsInvariant ==
  ASSUME Serial, RoundTrip >= 1, ~ClockGoesBack, ~EditTombstones, NoSharedTags,
         Budget["storeError"] = 0, Budget["crash"] = 0
  PROVE  Spec => []CountInv
<1>1. Init => ClearingInv /\ CountInv
  BY InitClearingInv, InitCountInv
<1>2. TypeOK /\ ClearingInv /\ [Next]_vars => ClearingInv'
  BY NextClearingInv
<1>3. TypeOK /\ ClearingInv /\ VersionsInv /\ TagsInv /\ ChainInv /\ CountInv /\ [Next]_vars
      => CountInv'
  BY NextCountInv
<1>4. Spec => []TypeOK
  BY TypeCorrect
<1>5. Spec => []VersionsInv
  BY VersionsInvariant
<1>6. Spec => []TagsInv
  BY TagsInvariant
<1> QED
  BY <1>1, <1>2, <1>3, <1>4, <1>5, <1>6, ChainInvariant, PTL DEF Spec

\* If requests of a chain do not overlap, no store call fails, the process is not
\* restarted and no two entities share a client tag (their conflict is no error to
\* InsertSyncEntity, so that the handler counts a row that is not there), the counts of
\* client_item_counts are the numbers of entities whenever the server is quiet, and
\* the interim counters are zero (handleCommitRequest, UpdateClientItemCount).
THEOREM CountsAreExact ==
  ASSUME Serial, RoundTrip >= 1, ~ClockGoesBack, ~EditTombstones,
         \A i \in Ids : TagIsOwn(i),
         Budget["storeError"] = 0, Budget["crash"] = 0
  PROVE  Spec => []CountsExact
<1>1. CountInv => CountsExact
  BY DEF CountInv, CountsAgree, CountsExact, Quiet, At, CountingPoints, CommitPoints
<1>2. Spec => []CountInv
  BY CountsInvariant DEF NoSharedTags
<1> QED
  BY <1>1, <1>2, PTL

\* And the store never holds more entities than maxClientObjectQuota and
\* maxClientHistoryObjectQuota allow, however many a commit brings.
THEOREM QuotasAreHeld ==
  ASSUME Serial, RoundTrip >= 1, ~ClockGoesBack, ~EditTombstones,
         \A i \in Ids : TagIsOwn(i),
         Budget["storeError"] = 0, Budget["crash"] = 0
  PROVE  Spec => []QuotaHeld
<1>1. CountInv => QuotaHeld
  BY DEF CountInv
<1>2. Spec => []CountInv
  BY CountsInvariant DEF NoSharedTags
<1> QED
  BY <1>1, <1>2, PTL
=============================================================================
