----------------------------- MODULE HistoryItems -----------------------------
(***************************************************************************)
(* The history entities of one chain over weeks: they are counted in       *)
(* periods, live for four of them, and are never removed from SQLite.      *)
(* Requests take milliseconds and a period takes days, so a commit is one  *)
(* step here; how requests interleave is SyncServer's subject.             *)
(***************************************************************************)
EXTENDS ItemCounts, FiniteSets

CONSTANTS
  HistoryIds,    \* ids of history entities (their client tags) and of directives
                 \* that delete history, which are counted and expire alike
  NoRow,         \* no row for an id, no row of counts
  MaxObjects,    \* maxClientObjectQuota
  MaxHistory,    \* maxClientHistoryObjectQuota
  MaxOrdinary,   \* bound: ordinary entities
  MaxTime,       \* bound: the clock
  MaxCommits,    \* bound: commits
  MaxMishaps     \* bound: counts that are not written, clocks that are set back

\* expires is expiration_time; counted is the time the insert was counted for, which
\* no column holds.
HistoryRow == [expires: Nat, counted: Nat, deleted: BOOLEAN]

ASSUME HistoryAssumption ==
  /\ IsFiniteSet(HistoryIds)
  /\ NoRow \notin HistoryRow \cup ItemCountsType
  /\ MaxObjects \in Nat
  /\ MaxHistory \in 0 .. MaxObjects
  /\ MaxOrdinary \in Nat
  /\ MaxTime \in Nat
  /\ MaxCommits \in Nat
  /\ MaxMishaps \in Nat

VARIABLES
  now,        \* the wall clock
  history,    \* sync_entities: the rows of the history type
  ordinary,   \* the number of live rows of other types
  table,      \* client_item_counts
  high,       \* observer: the latest time the clock has shown
  upTo,       \* observer: what was added to the history counts for the times up to each
  untracked,  \* observer: commits that make the counts fall short of the live rows
  commits, mishaps

vars ==
  <<now, history, ordinary, table, high, upTo, untracked, commits, mishaps>>

TypeOK ==
  /\ now \in 0 .. MaxTime
  /\ history \in [HistoryIds -> HistoryRow \cup {NoRow}]
  /\ ordinary \in 0 .. MaxOrdinary
  /\ table \in ItemCountsType \cup {NoRow}
  /\ high \in now .. MaxTime
  /\ upTo \in [0 .. MaxTime -> Int]
  /\ untracked \in Nat
  /\ commits \in 0 .. MaxCommits
  /\ mishaps \in 0 .. MaxMishaps

Init ==
  /\ now = 0
  /\ history = [i \in HistoryIds |-> NoRow]
  /\ ordinary = 0
  /\ table = NoRow
  /\ high = 0
  /\ upTo = [t \in 0 .. MaxTime |-> 0]
  /\ untracked = 0
  /\ commits = 0
  /\ mishaps = 0

(* Reading and writing the counts ------------------------------------------*)

\* GetClientItemCount.
Counts == IF table = NoRow THEN Fresh(now) ELSE Rolled(table, now)

\* The time a commit is counted for: the clock, unless it is behind the counts.
CountedAt == IF now < Counts.last THEN Counts.last ELSE now

\* handleCommitRequest's last call.  A failure is logged and forgotten, and the
\* process may die before it.
UpdateClientItemCount(newNormal, newHistory) ==
  /\ table' = Counting(Counts, newNormal, newHistory)
  /\ upTo' = [t \in 0 .. MaxTime |-> upTo[t] + IF t >= CountedAt THEN newHistory ELSE 0]
  /\ UNCHANGED mishaps

CountsNotWritten ==
  /\ mishaps < MaxMishaps
  /\ mishaps' = mishaps + 1
  /\ UNCHANGED <<table, upTo>>

(* Quotas ------------------------------------------------------------------*)

Least(a, b) == IF a <= b THEN a ELSE b

\* Mutant: a chain over its history quota gets no more objects.
NoBoost(c) == 0

\* boostedQuotaAddition.
Boost(c) ==
  IF SumHistoryCounts(c) > MaxHistory
  THEN Least(MaxObjects - MaxHistory, SumHistoryCounts(c) - MaxHistory)
  ELSE 0

OverQuota(c) == c.items + SumHistoryCounts(c) >= MaxObjects + Boost(c)

HistoryFull(c) == SumHistoryCounts(c) >= MaxHistory

(* Commits of history entities ---------------------------------------------*)

HasItem(i) == history[i] # NoRow

\* The entity is stored and counted, tombstones too.
InsertHistory(i, deleted) ==
  /\ ~HasItem(i)
  /\ ~OverQuota(Counts)
  /\ ~HistoryFull(Counts)
  /\ history' = [history EXCEPT ![i] = [expires |-> now + Lifetime, counted |-> CountedAt,
                                        deleted |-> deleted]]
  /\ \/ /\ UpdateClientItemCount(0, 1)
        /\ UNCHANGED untracked
     \/ /\ CountsNotWritten
        /\ untracked' = untracked + 1
  /\ UNCHANGED ordinary

\* Over the quota an entity is refused, over the history quota it is dropped and
\* acknowledged.
DropHistory(i) ==
  /\ ~HasItem(i)
  /\ OverQuota(Counts) \/ HistoryFull(Counts)
  /\ UpdateClientItemCount(0, 0)
  /\ UNCHANGED <<history, ordinary, untracked>>

\* Rows that were counted in an earlier period, whose insert the counts drop before
\* a deletion now.
CountedBefore(i) == history[i].counted < Counts.last

BecomesDeleted(i, deleted) == ~history[i].deleted /\ deleted
Revives(i, deleted) == history[i].deleted /\ ~deleted

\* UpdateSyncEntity keeps expiration_time.  A deletion is counted now, whenever the
\* entity was; a tombstone that is written again is not.
UpdateHistory(i, deleted) ==
  /\ HasItem(i)
  /\ history' = [history EXCEPT ![i].deleted = deleted]
  /\ untracked' = untracked +
       IF \/ BecomesDeleted(i, deleted) /\ CountedBefore(i)
          \/ Revives(i, deleted)
       THEN 1 ELSE 0
  /\ \/ UpdateClientItemCount(0, IF BecomesDeleted(i, deleted) THEN -1 ELSE 0)
     \/ CountsNotWritten
  /\ UNCHANGED ordinary

(* Commits of other entities -----------------------------------------------*)

InsertOrdinary ==
  /\ ordinary < MaxOrdinary
  /\ ~OverQuota(Counts)
  /\ ordinary' = ordinary + 1
  /\ UpdateClientItemCount(1, 0) \/ CountsNotWritten
  /\ UNCHANGED <<history, untracked>>

RefuseOrdinary ==
  /\ OverQuota(Counts)
  /\ UpdateClientItemCount(0, 0)
  /\ UNCHANGED <<history, ordinary, untracked>>

DeleteOrdinary ==
  /\ ordinary > 0
  /\ ordinary' = ordinary - 1
  /\ UpdateClientItemCount(-1, 0) \/ CountsNotWritten
  /\ UNCHANGED <<history, untracked>>

Commit ==
  /\ \/ \E i \in HistoryIds, deleted \in BOOLEAN :
          InsertHistory(i, deleted) \/ UpdateHistory(i, deleted)
     \/ \E i \in HistoryIds : DropHistory(i)
     \/ InsertOrdinary
     \/ RefuseOrdinary
     \/ DeleteOrdinary
  /\ commits < MaxCommits
  /\ commits' = commits + 1
  /\ UNCHANGED <<now, high>>

(* The clock ---------------------------------------------------------------*)

Later(t) == IF t < high THEN high ELSE t

\* Time passes.
Tick ==
  /\ now < MaxTime
  /\ now' = now + 1
  /\ high' = Later(now')
  /\ UNCHANGED mishaps

\* The clock is set back, as on a board that starts without a clock of its own.
SetBack(t) ==
  /\ t < now
  /\ mishaps < MaxMishaps
  /\ mishaps' = mishaps + 1
  /\ now' = t
  /\ UNCHANGED high

Clock ==
  /\ Tick \/ \E t \in 0 .. MaxTime : SetBack(t)
  /\ UNCHANGED <<history, ordinary, table, upTo, untracked, commits>>

Next == Commit \/ Clock
Spec == Init /\ [][Next]_vars

(* Properties --------------------------------------------------------------*)

\* What was added to the history counts for the times up to t.
AddedUpTo(t) == IF t < 0 THEN 0 ELSE upTo[Least(t, MaxTime)]

\* The first time that period k of counts c stands for, and the last one: the current
\* period is open.
Begins(c, k) == c.last - (4 - k) * Period
Ends(c, k) == IF k = 4 THEN MaxTime ELSE Begins(c, k + 1) - 1

\* Each period holds exactly what was counted in its days, whenever the counts were
\* read or written in between, across long pauses and a clock that is set back:
\* initRealCountsAndUpdateHistoryCounts moves every number the right way.
PeriodsHoldTheirDays ==
  table # NoRow => \A k \in Periods :
    table.period[k] = AddedUpTo(Ends(table, k)) - AddedUpTo(Begins(table, k) - 1)

\* Live rows that have at least one period left by the latest time shown.
LongLived == {i \in HistoryIds : HasItem(i) /\ ~history[i].deleted
                                   /\ history[i].expires >= high + Period}

\* The history quota bounds the entities with a period to live: the counts forget an
\* entity less than one period before it expires.  Each entity beyond the
\* quota goes back to one commit: an insert whose count was not written, a tombstone
\* that was revived, or a deletion that stays counted longer than its insert.
HistoryQuotaHeld == Cardinality(LongLived) <= MaxHistory + untracked

\* However far the history counts are above their quota (periods with more
\* deletions than inserts expire), boostedQuotaAddition leaves room for ordinary
\* entities, as long as history is not above the quota of everything.
OrdinaryHaveRoom ==
  /\ Counts.items < MaxObjects - MaxHistory
  /\ SumHistoryCounts(Counts) <= MaxObjects
  => ~OverQuota(Counts)

\* A live entity that a commit leaves behind is one that GetUpdates returns.
CommittedIsReadable ==
  [][\A i \in HistoryIds :
       history'[i] # history[i] /\ ~history'[i].deleted => history'[i].expires >= now]_vars
=============================================================================
