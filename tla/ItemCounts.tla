------------------------------ MODULE ItemCounts ------------------------------
(***************************************************************************)
(* ClientItemCounts (item_count.go) and what the store makes of it when it *)
(* is read: ordinary entities in one number, history entities in four      *)
(* periods that together last as long as a history entity.                 *)
(***************************************************************************)
EXTENDS Integers

CONSTANT Period  \* periodDurationSecs, in ticks of the clock

ASSUME PeriodAssumption == Period \in Nat \ {0}

Periods == 1 .. 4

\* HistoryExpirationIntervalSecs: the life of a history entity.
Lifetime == 4 * Period

\* items, the history periods from the oldest to the current one, and the time at
\* which the current one began.
ItemCountsType == [items: Int, period: [Periods -> Int], last: Nat]

\* GetClientItemCount for a chain without a row.
Fresh(now) == [items |-> 0, period |-> [k \in Periods |-> 0], last |-> now]

SumHistoryCounts(c) == c.period[1] + c.period[2] + c.period[3] + c.period[4]

\* Mutant: a clock behind the last change moves it back.
ChangeCountSigned(c, now) == (now - c.last) \div Period

\* Whole periods since the last change; none when the clock is behind it.
ChangeCount(c, now) == IF now < c.last THEN 0 ELSE (now - c.last) \div Period

\* Every change drops the oldest period and begins a new one.
Shifted(period, n) == [k \in Periods |-> IF k + n \in Periods THEN period[k + n] ELSE 0]

\* Mutant: the new period begins when the counts are read.
RolledToNow(c, now) ==
  [c EXCEPT !.period = Shifted(@, ChangeCount(c, now)),
            !.last = IF ChangeCount(c, now) = 0 THEN @ ELSE now]

\* Mutant: the time of the last change stays.
RolledKeepingLast(c, now) == [c EXCEPT !.period = Shifted(@, ChangeCount(c, now))]

\* initRealCountsAndUpdateHistoryCounts of counts in their current version.
Rolled(c, now) ==
  LET n == ChangeCount(c, now) IN
  [c EXCEPT !.period = Shifted(@, n), !.last = @ + Period * n]

\* UpdateClientItemCount: new entities are counted in the current period.
Counting(c, newNormal, newHistory) ==
  [c EXCEPT !.items = @ + newNormal, !.period[4] = @ + newHistory]
=============================================================================
