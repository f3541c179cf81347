--------------------------- MODULE ItemCountsProofs ---------------------------
(***************************************************************************)
(* Reading the item counts of a chain: when and how often they are read    *)
(* does not matter, only the latest time does.  Then weeks of commits: the *)
(* types of HistoryItems, the room of ordinary entities, what each period  *)
(* holds, and the history quota.  The last two rest on HistoryInv: the     *)
(* sums of the last periods cover the live entities counted in them, which *)
(* a read keeps because it shifts sums and days alike.                     *)
(***************************************************************************)
EXTENDS HistoryItems, FiniteSetTheorems, TLAPS

(* Division ----------------------------------------------------------------*)

\* The quotient and what is left of a division.
LEMMA Quotient ==
  ASSUME NEW x \in Nat, NEW p \in Nat \ {0}
  PROVE  /\ x \div p \in Nat
         /\ p * (x \div p) <= x
         /\ x < p * (x \div p) + p
  OBVIOUS

\* It is the only number between these bounds.
LEMMA QuotientUnique ==
  ASSUME NEW x \in Nat, NEW p \in Nat \ {0}, NEW n \in Nat,
         p * n <= x, x < p * n + p
  PROVE  x \div p = n
  OBVIOUS

(* One read ----------------------------------------------------------------*)

\* ChangeCount counts the whole periods between the last change and the clock.
LEMMA ChangeCountBounds ==
  ASSUME NEW c \in ItemCountsType, NEW t \in Nat
  PROVE  /\ ChangeCount(c, t) \in Nat
         /\ Period * ChangeCount(c, t) \in Nat
         /\ t < c.last => ChangeCount(c, t) = 0
         /\ t >= c.last => /\ c.last + Period * ChangeCount(c, t) <= t
                           /\ t < c.last + Period * ChangeCount(c, t) + Period
<1>1. c.last \in Nat
  BY DEF ItemCountsType
<1>2. CASE t < c.last
  BY <1>1, <1>2, PeriodAssumption DEF ChangeCount
<1>3. CASE t >= c.last
  <2> DEFINE x == t - c.last
  <2>1. x \in Nat
    BY <1>1, <1>3
  <2>2. ChangeCount(c, t) = x \div Period
    BY <1>1, <1>3 DEF ChangeCount
  <2> HIDE DEF x
  <2>3. /\ x \div Period \in Nat
        /\ Period * (x \div Period) <= x
        /\ x < Period * (x \div Period) + Period
    BY <2>1, PeriodAssumption, Quotient
  <2> DEFINE n == x \div Period
  <2> HIDE DEF n
  <2>4. Period * n \in Nat
    BY <2>3, PeriodAssumption DEF n
  <2>5. /\ c.last + Period * n <= t
        /\ t < c.last + Period * n + Period
    BY <1>1, <2>1, <2>3, <2>4, PeriodAssumption DEF n, x
  <2> QED
    BY <1>1, <1>3, <2>2, <2>3, <2>4, <2>5 DEF n
<1> QED
  BY <1>1, <1>2, <1>3

\* Shifting keeps four integers.
LEMMA ShiftedType ==
  ASSUME NEW p \in [Periods -> Int], NEW n \in Nat
  PROVE  Shifted(p, n) \in [Periods -> Int]
  BY DEF Shifted, Periods

\* A read gives counts again.
LEMMA RolledType ==
  ASSUME NEW c \in ItemCountsType, NEW t \in Nat
  PROVE  /\ Rolled(c, t) \in ItemCountsType
         /\ Rolled(c, t).items = c.items
         /\ Rolled(c, t).period = Shifted(c.period, ChangeCount(c, t))
         /\ Rolled(c, t).last = c.last + Period * ChangeCount(c, t)
<1> DEFINE n == ChangeCount(c, t)
<1>1. n \in Nat /\ Period * n \in Nat
  BY ChangeCountBounds
<1> HIDE DEF n
<1>2. Shifted(c.period, n) \in [Periods -> Int]
  BY <1>1, ShiftedType DEF ItemCountsType
<1>3. c.last + Period * n \in Nat
  BY <1>1 DEF ItemCountsType
<1>4. Rolled(c, t) = [c EXCEPT !.period = Shifted(c.period, n), !.last = c.last + Period * n]
  BY DEF Rolled, ItemCountsType, n
<1>5. Rolled(c, t) =
        [items |-> c.items, period |-> Shifted(c.period, n), last |-> c.last + Period * n]
  BY <1>4 DEF ItemCountsType
<1> QED
  BY <1>2, <1>3, <1>5 DEF ItemCountsType, n

(* Two reads ---------------------------------------------------------------*)

\* Two shifts are one shift by their sum.
LEMMA ShiftsAdd ==
  ASSUME NEW p \in [Periods -> Int], NEW m \in Nat, NEW n \in Nat
  PROVE  Shifted(Shifted(p, m), n) = Shifted(p, m + n)
<1> SUFFICES ASSUME NEW k \in Periods
             PROVE  Shifted(Shifted(p, m), n)[k] = Shifted(p, m + n)[k]
  BY DEF Shifted
<1>1. k + n \in Periods \/ k + (m + n) \notin Periods
  BY DEF Periods
<1>2. k + n + m = k + (m + n)
  BY DEF Periods
<1> QED
  BY <1>1, <1>2 DEF Shifted

\* The latest of two times.
Latest(a, b) == IF a <= b THEN b ELSE a

\* The periods two reads shift are those a read at the latest time shifts.
LEMMA ChangeCountsAdd ==
  ASSUME NEW c \in ItemCountsType, NEW a \in Nat, NEW b \in Nat
  PROVE  ChangeCount(c, a) + ChangeCount(Rolled(c, a), b) = ChangeCount(c, Latest(a, b))
<1> DEFINE d == Rolled(c, a)
           m == ChangeCount(c, a)
           n == ChangeCount(d, b)
<1>1. d \in ItemCountsType /\ d.last = c.last + Period * m
  BY RolledType
<1>2. c.last \in Nat /\ d.last \in Nat
  BY <1>1 DEF ItemCountsType
<1>3. /\ m \in Nat
      /\ Period * m \in Nat
      /\ a < c.last => m = 0
      /\ a >= c.last => /\ c.last + Period * m <= a
                        /\ a < c.last + Period * m + Period
  BY ChangeCountBounds
<1>4. /\ n \in Nat
      /\ Period * n \in Nat
      /\ b < d.last => n = 0
      /\ b >= d.last => /\ d.last + Period * n <= b
                        /\ b < d.last + Period * n + Period
  BY <1>1, ChangeCountBounds
<1> HIDE DEF d, m, n
<1>5. CASE b <= a
  <2>1. b < d.last + Period
    BY <1>1, <1>2, <1>3, <1>5, PeriodAssumption
  <2>2. n = 0
    <3>1. CASE n >= 1
      <4>1. Period * n >= Period
        BY <1>4, <3>1, PeriodAssumption
      <4> QED
        BY <1>2, <1>4, <2>1, <3>1, <4>1, PeriodAssumption
    <3> QED
      BY <1>4, <3>1
  <2>3. Latest(a, b) = a
    BY <1>5 DEF Latest
  <2> QED
    BY <1>3, <2>2, <2>3 DEF d, m, n
<1>6. CASE a < b
  <2>1. Latest(a, b) = b
    BY <1>6 DEF Latest
  <2>2. CASE a < c.last
    <3>1. m = 0 /\ Period * m = 0
      BY <1>3, <2>2, PeriodAssumption
    <3>2. d.last = c.last
      BY <1>1, <1>2, <3>1
    <3>3. n = ChangeCount(c, b)
      BY <3>2 DEF ChangeCount, n
    <3> QED
      BY <1>4, <2>1, <3>1, <3>3 DEF d, m, n
  <2>3. CASE a >= c.last
    <3>1. d.last <= b /\ c.last <= b
      BY <1>1, <1>2, <1>3, <1>6, <2>3
    <3>2. Period * (m + n) = Period * m + Period * n
      BY <1>3, <1>4, PeriodAssumption
    <3>3. /\ Period * (m + n) <= b - c.last
          /\ b - c.last < Period * (m + n) + Period
      BY <1>1, <1>2, <1>3, <1>4, <3>1, <3>2, PeriodAssumption
    <3>4. b - c.last \in Nat /\ m + n \in Nat
      BY <1>2, <1>3, <1>4, <3>1
    <3>5. (b - c.last) \div Period = m + n
      BY <3>3, <3>4, PeriodAssumption, QuotientUnique
    <3> QED
      BY <1>2, <2>1, <3>1, <3>5 DEF ChangeCount, d, m, n
  <2> QED
    BY <1>2, <2>2, <2>3
<1> QED
  BY <1>5, <1>6

\* Reading and writing back the counts at a time a loses nothing and doubles nothing,
\* whether the clock then runs on or is set back: a read at b gives what one read
\* at the latest of the two times would have given.
THEOREM ReadsCompose ==
  ASSUME NEW c \in ItemCountsType, NEW a \in Nat, NEW b \in Nat
  PROVE  Rolled(Rolled(c, a), b) = Rolled(c, Latest(a, b))
<1> DEFINE m == ChangeCount(c, a)
           d == Rolled(c, a)
           n == ChangeCount(d, b)
<1>1. /\ d \in ItemCountsType
      /\ d.items = c.items
      /\ d.period = Shifted(c.period, m)
      /\ d.last = c.last + Period * m
  BY RolledType
<1>2. /\ Rolled(d, b) \in ItemCountsType
      /\ Rolled(d, b).items = d.items
      /\ Rolled(d, b).period = Shifted(d.period, n)
      /\ Rolled(d, b).last = d.last + Period * n
  BY <1>1, RolledType
<1>3. Latest(a, b) \in Nat
  BY DEF Latest
<1>4. /\ Rolled(c, Latest(a, b)) \in ItemCountsType
      /\ Rolled(c, Latest(a, b)).items = c.items
      /\ Rolled(c, Latest(a, b)).period = Shifted(c.period, ChangeCount(c, Latest(a, b)))
      /\ Rolled(c, Latest(a, b)).last = c.last + Period * ChangeCount(c, Latest(a, b))
  BY <1>3, RolledType
<1>5. m \in Nat /\ n \in Nat
  BY <1>1, ChangeCountBounds
<1>6. ChangeCount(c, Latest(a, b)) = m + n
  BY ChangeCountsAdd
<1> HIDE DEF d, m, n
<1>7. Rolled(d, b).period = Shifted(c.period, m + n)
  <2>1. c.period \in [Periods -> Int]
    BY DEF ItemCountsType
  <2>2. Shifted(Shifted(c.period, m), n) = Shifted(c.period, m + n)
    BY <1>5, <2>1, ShiftsAdd
  <2> QED
    BY <1>1, <1>2, <2>2
<1>8. Rolled(d, b).last = c.last + Period * (m + n)
  BY <1>1, <1>2, <1>5, PeriodAssumption DEF ItemCountsType
<1>9. Rolled(d, b) = Rolled(c, Latest(a, b))
  BY <1>1, <1>2, <1>4, <1>6, <1>7, <1>8 DEF ItemCountsType
<1> QED
  BY <1>9 DEF d

(* Types -------------------------------------------------------------------*)

\* The counts a request works with, and the time it counts for.
LEMMA CountsType ==
  ASSUME TypeOK
  PROVE  /\ Counts \in ItemCountsType
         /\ CountedAt \in Nat
<1>1. now \in Nat
  BY HistoryAssumption DEF TypeOK
<1>2. CASE table = NoRow
  BY <1>1, <1>2 DEF Counts, Fresh, ItemCountsType, CountedAt
<1>3. CASE table # NoRow
  <2>1. table \in ItemCountsType
    BY <1>3 DEF TypeOK
  <2>2. Rolled(table, now) \in ItemCountsType
    BY <1>1, <2>1, RolledType
  <2> QED
    BY <1>1, <1>3, <2>2 DEF Counts, ItemCountsType, CountedAt
<1> QED
  BY <1>2, <1>3

\* Adding to counts gives counts.
LEMMA CountingType ==
  ASSUME NEW c \in ItemCountsType, NEW n \in Int, NEW h \in Int
  PROVE  Counting(c, n, h) \in ItemCountsType
<1>1. c.period \in [Periods -> Int] /\ 4 \in Periods
  BY DEF ItemCountsType, Periods
<1>2. [c.period EXCEPT ![4] = c.period[4] + h] \in [Periods -> Int]
  BY <1>1
<1>3. c = [items |-> c.items, period |-> c.period, last |-> c.last]
  BY DEF ItemCountsType
<1>4. Counting(c, n, h) \in [items : Int, period : [Periods -> Int], last : Nat]
  <2> DEFINE p == [c.period EXCEPT ![4] = c.period[4] + h]
  <2>1. c.items + n \in Int /\ c.last \in Nat
    BY DEF ItemCountsType
  <2>2. Counting(c, n, h) = [c EXCEPT !.items = c.items + n, !.period = p]
    BY Zenon DEF Counting
  <2>3. p \in [Periods -> Int]
    BY <1>2
  <2> HIDE DEF p
  <2> QED
    BY <2>1, <2>2, <2>3 DEF ItemCountsType
<1> QED
  BY <1>4 DEF ItemCountsType

\* What writing the counts, or failing to, leaves behind.
LEMMA CountsWritten ==
  ASSUME TypeOK, NEW n \in Int, NEW h \in Int,
         UpdateClientItemCount(n, h) \/ CountsNotWritten
  PROVE  /\ table' \in ItemCountsType \cup {NoRow}
         /\ upTo' \in [0 .. MaxTime -> Int]
         /\ mishaps' \in 0 .. MaxMishaps
<1>1. CASE UpdateClientItemCount(n, h)
  <2>1. Counting(Counts, n, h) \in ItemCountsType
    BY CountsType, CountingType
  <2>2. upTo' \in [0 .. MaxTime -> Int]
    BY <1>1 DEF UpdateClientItemCount, TypeOK
  <2> QED
    BY <1>1, <2>1, <2>2 DEF UpdateClientItemCount, TypeOK
<1>2. CASE CountsNotWritten
  BY <1>2, HistoryAssumption DEF CountsNotWritten, TypeOK
<1> QED
  BY <1>1, <1>2

\* Every commit and every move of the clock keeps the types: rows keep their times,
\* and the counts of a chain are four numbers and a time, or no row.
THEOREM HistoryTypeCorrect == Spec => []TypeOK
<1>1. Init => TypeOK
  BY HistoryAssumption DEF Init, TypeOK
<1>2. TypeOK /\ [Next]_vars => TypeOK'
  <2> SUFFICES ASSUME TypeOK, [Next]_vars
               PROVE  TypeOK'
    OBVIOUS
  <2> USE HistoryAssumption
  <2>1. CASE Commit
    <3>1. /\ now' = now /\ high' = high
          /\ commits' \in 0 .. MaxCommits
      BY <2>1 DEF Commit, TypeOK
    <3>2. now \in Nat /\ now + Lifetime \in Nat
      BY PeriodAssumption DEF TypeOK, Lifetime
    <3>3. SUFFICES /\ history' \in [HistoryIds -> HistoryRow \cup {NoRow}]
                   /\ ordinary' \in 0 .. MaxOrdinary
                   /\ table' \in ItemCountsType \cup {NoRow}
                   /\ upTo' \in [0 .. MaxTime -> Int]
                   /\ untracked' \in Nat
                   /\ mishaps' \in 0 .. MaxMishaps
      BY <3>1 DEF TypeOK
    <3>4. ASSUME NEW i \in HistoryIds, NEW deleted \in BOOLEAN, InsertHistory(i, deleted)
          PROVE  /\ history' \in [HistoryIds -> HistoryRow \cup {NoRow}]
                 /\ ordinary' \in 0 .. MaxOrdinary
                 /\ table' \in ItemCountsType \cup {NoRow}
                 /\ upTo' \in [0 .. MaxTime -> Int]
                 /\ untracked' \in Nat
                 /\ mishaps' \in 0 .. MaxMishaps
      <4>1. [expires |-> now + Lifetime, counted |-> CountedAt, deleted |-> deleted]
              \in HistoryRow
        BY <3>2, CountsType DEF HistoryRow
      <4>2. history' \in [HistoryIds -> HistoryRow \cup {NoRow}]
        BY <3>4, <4>1 DEF InsertHistory, TypeOK
      <4>3. UpdateClientItemCount(0, 1) \/ CountsNotWritten
        BY <3>4 DEF InsertHistory
      <4>4. ordinary' = ordinary /\ untracked' \in Nat
        BY <3>4 DEF InsertHistory, TypeOK
      <4> QED
        BY <4>2, <4>3, <4>4, CountsWritten DEF TypeOK
    <3>5. ASSUME NEW i \in HistoryIds, NEW deleted \in BOOLEAN, UpdateHistory(i, deleted)
          PROVE  /\ history' \in [HistoryIds -> HistoryRow \cup {NoRow}]
                 /\ ordinary' \in 0 .. MaxOrdinary
                 /\ table' \in ItemCountsType \cup {NoRow}
                 /\ upTo' \in [0 .. MaxTime -> Int]
                 /\ untracked' \in Nat
                 /\ mishaps' \in 0 .. MaxMishaps
      <4>1. history[i] \in HistoryRow
        BY <3>5 DEF UpdateHistory, HasItem, TypeOK
      <4>2. [history[i] EXCEPT !.deleted = deleted] \in HistoryRow
        BY <4>1 DEF HistoryRow
      <4>3. history' \in [HistoryIds -> HistoryRow \cup {NoRow}]
        BY <3>5, <4>2 DEF UpdateHistory, TypeOK
      <4>4. ordinary' = ordinary /\ untracked' \in Nat
        BY <3>5, SMTT(20) DEF UpdateHistory, TypeOK
      <4>5. PICK h \in Int : UpdateClientItemCount(0, h) \/ CountsNotWritten
        BY <3>5 DEF UpdateHistory
      <4> QED
        BY <4>3, <4>4, <4>5, CountsWritten DEF TypeOK
    <3>6. ASSUME NEW i \in HistoryIds, DropHistory(i)
          PROVE  /\ UNCHANGED <<history, ordinary, untracked>>
                 /\ UpdateClientItemCount(0, 0)
      BY <3>6 DEF DropHistory
    <3>7. ASSUME InsertOrdinary
          PROVE  /\ ordinary' \in 0 .. MaxOrdinary
                 /\ UNCHANGED <<history, untracked>>
                 /\ UpdateClientItemCount(1, 0) \/ CountsNotWritten
      BY <3>7 DEF InsertOrdinary, TypeOK
    <3>8. ASSUME RefuseOrdinary
          PROVE  /\ UNCHANGED <<history, ordinary, untracked>>
                 /\ UpdateClientItemCount(0, 0)
      BY <3>8 DEF RefuseOrdinary
    <3>9. ASSUME DeleteOrdinary
          PROVE  /\ ordinary' \in 0 .. MaxOrdinary
                 /\ UNCHANGED <<history, untracked>>
                 /\ UpdateClientItemCount(-1, 0) \/ CountsNotWritten
      BY <3>9 DEF DeleteOrdinary, TypeOK
    <3> QED
      BY <2>1, <3>4, <3>5, <3>6, <3>7, <3>8, <3>9, CountsWritten DEF Commit, TypeOK
  <2>2. CASE Clock
    <3>1. now' \in 0 .. MaxTime /\ high' \in now' .. MaxTime /\ mishaps' \in 0 .. MaxMishaps
      BY <2>2 DEF Clock, Tick, SetBack, Later, TypeOK
    <3> QED
      BY <2>2, <3>1 DEF Clock, TypeOK
  <2>3. CASE UNCHANGED vars
    BY <2>3 DEF vars, TypeOK
  <2> QED
    BY <2>1, <2>2, <2>3 DEF Next
<1> QED
  BY <1>1, <1>2, PTL DEF Spec

(* Quotas ------------------------------------------------------------------*)

\* In whatever state weeks of commits, expired periods and lost counts leave the
\* numbers, history above its quota takes nothing from the room of ordinary entities.
THEOREM OrdinaryAlwaysHaveRoom == Spec => []OrdinaryHaveRoom
<1>1. TypeOK => OrdinaryHaveRoom
  <2> SUFFICES ASSUME TypeOK,
                      Counts.items < MaxObjects - MaxHistory,
                      SumHistoryCounts(Counts) <= MaxObjects
               PROVE  ~OverQuota(Counts)
    BY DEF OrdinaryHaveRoom
  <2> DEFINE sum == SumHistoryCounts(Counts)
  <2>1. Counts.items \in Int /\ sum \in Int
    <3>1. Counts.period \in [Periods -> Int] /\ Counts.items \in Int
      BY CountsType DEF ItemCountsType
    <3> QED
      BY <3>1 DEF SumHistoryCounts, Periods
  <2>2. MaxObjects \in Nat /\ MaxHistory \in Nat
    BY HistoryAssumption
  <2>3. sum <= MaxObjects
    OBVIOUS
  <2>4. Boost(Counts) = IF sum > MaxHistory
                        THEN Least(MaxObjects - MaxHistory, sum - MaxHistory) ELSE 0
    BY DEF Boost
  <2> HIDE DEF sum
  <2>5. Boost(Counts) = IF sum > MaxHistory THEN sum - MaxHistory ELSE 0
    BY <2>1, <2>2, <2>3, <2>4 DEF Least
  <2>6. Counts.items + sum < MaxObjects + Boost(Counts)
    BY <2>1, <2>2, <2>5
  <2>7. Boost(Counts) \in Int
    BY <2>1, <2>2, <2>5
  <2> QED
    BY <2>1, <2>2, <2>6, <2>7 DEF OverQuota, sum
<1> QED
  BY <1>1, HistoryTypeCorrect, PTL

(* What the counts stand for -------------------------------------------------*)

\* What f, a value of upTo, says was added up to time t.
AddedIn(f, t) == IF t < 0 THEN 0 ELSE f[Least(t, MaxTime)]

\* The periods of c hold what f says was counted in their days, and nothing was counted
\* after the current one.
HoldsDays(c, f) ==
  /\ \A k \in Periods : c.period[k] = AddedIn(f, Begins(c, k + 1) - 1) - AddedIn(f, Begins(c, k) - 1)
  /\ \A t \in 0 .. MaxTime : t >= Begins(c, 5) - 1 => f[t] = f[MaxTime]

\* The entities of h that are alive and were counted at t or later.
AliveFrom(h, t) == {i \in HistoryIds : h[i] # NoRow /\ ~h[i].deleted /\ h[i].counted >= t}

\* The sum of the periods from k on.
SumFrom(c, k) ==
  LET part(j) == IF j >= k THEN c.period[j] ELSE 0
  IN  part(1) + part(2) + part(3) + part(4)

\* The entities of h counted since a period began are no more than the counts since then
\* and the m commits the counts have missed.
Covers(c, h, m) ==
  \A k \in 1 .. 5 : Cardinality(AliveFrom(h, Begins(c, k))) <= SumFrom(c, k) + m

\* The inductive invariant behind PeriodsHoldTheirDays and HistoryQuotaHeld.
HistoryInv ==
  /\ table = NoRow => /\ \A t \in 0 .. MaxTime : upTo[t] = 0
                      /\ Cardinality(AliveFrom(history, 0)) <= untracked
  /\ table # NoRow => /\ table.last <= high
                      /\ HoldsDays(table, upTo)
                      /\ Covers(table, history, untracked)
  /\ \A i \in HistoryIds : HasItem(i) => history[i].expires <= history[i].counted + Lifetime
  /\ HistoryQuotaHeld

(* Where periods begin ------------------------------------------------------ *)

\* Periods follow each other, the first begins three periods before the last change.
LEMMA BeginsAt ==
  ASSUME NEW c \in ItemCountsType
  PROVE  /\ c.last \in Nat
         /\ Begins(c, 1) = c.last - 3 * Period
         /\ Begins(c, 2) = c.last - 2 * Period
         /\ Begins(c, 3) = c.last - Period
         /\ Begins(c, 4) = c.last
         /\ Begins(c, 5) = c.last + Period
         /\ \A k \in 1 .. 5 : Begins(c, k) \in Int
<1>1. c.last \in Nat
  BY DEF ItemCountsType
<1>2. /\ Begins(c, 1) = c.last - 3 * Period
      /\ Begins(c, 2) = c.last - 2 * Period
      /\ Begins(c, 3) = c.last - Period
      /\ Begins(c, 4) = c.last
      /\ Begins(c, 5) = c.last + Period
  BY <1>1, PeriodAssumption DEF Begins
<1>3. \A k \in 1 .. 5 : k = 1 \/ k = 2 \/ k = 3 \/ k = 4 \/ k = 5
  OBVIOUS
<1> QED
  BY <1>1, <1>2, <1>3, PeriodAssumption

\* A read moves the beginnings by whole periods.
LEMMA BeginsRolled ==
  ASSUME NEW c \in ItemCountsType, NEW t \in Nat, NEW k \in 1 .. 5
  PROVE  LET n == ChangeCount(c, t) IN
         /\ k + n <= 5 => Begins(Rolled(c, t), k) = Begins(c, k + n)
         /\ k + n > 5 => Begins(Rolled(c, t), k) >= Begins(c, 5)
<1> DEFINE n == ChangeCount(c, t)
           d == Rolled(c, t)
<1>1. n \in Nat /\ Period * n \in Nat /\ d.last = c.last + Period * n /\ c.last \in Nat
  BY ChangeCountBounds, RolledType DEF ItemCountsType
<1> HIDE DEF n, d
<1>2. Begins(d, k) = c.last + Period * n - (4 - k) * Period
  <2>1. (4 - k) * Period \in Int
    BY PeriodAssumption
  <2> QED
    BY <1>1, <2>1 DEF Begins
<1>3. Period * n - (4 - k) * Period = (k + n - 4) * Period
  BY <1>1, PeriodAssumption
<1>4. Begins(d, k) = c.last + (k + n - 4) * Period
  BY <1>1, <1>2, <1>3, PeriodAssumption
<1>5. Begins(c, k + n) = c.last + (k + n - 4) * Period
  <2>1. (4 - (k + n)) * Period = -((k + n - 4) * Period)
    BY <1>1, PeriodAssumption
  <2> QED
    BY <1>1, <2>1, PeriodAssumption DEF Begins
<1>6. ASSUME k + n > 5
      PROVE  (k + n - 4) * Period >= Period
  BY <1>1, <1>6, PeriodAssumption
<1> QED
  BY <1>1, <1>4, <1>5, <1>6, BeginsAt, PeriodAssumption DEF n, d

(* The periods hold their days ---------------------------------------------- *)

\* What was added up to a time is a number.
LEMMA AddedInType ==
  ASSUME NEW f \in [0 .. MaxTime -> Int], NEW t \in Int
  PROVE  AddedIn(f, t) \in Int
BY HistoryAssumption DEF AddedIn, Least

\* Nothing is added after the current period.
LEMMA AddedLast ==
  ASSUME NEW f \in [0 .. MaxTime -> Int], NEW c \in ItemCountsType, HoldsDays(c, f),
         NEW t \in Int, t >= Begins(c, 5) - 1
  PROVE  AddedIn(f, t) = f[MaxTime]
<1>1. t >= 0
  <2>1. c.last \in Nat /\ Begins(c, 5) = c.last + Period
    BY BeginsAt
  <2> QED
    BY <2>1, PeriodAssumption
<1> QED
  BY <1>1, HistoryAssumption DEF AddedIn, Least, HoldsDays

\* A read shifts the numbers as it shifts the days.
LEMMA RolledHoldsDays ==
  ASSUME NEW f \in [0 .. MaxTime -> Int], NEW c \in ItemCountsType, NEW t \in Nat, HoldsDays(c, f)
  PROVE  HoldsDays(Rolled(c, t), f)
<1> DEFINE n == ChangeCount(c, t)
           d == Rolled(c, t)
<1>1. n \in Nat /\ d \in ItemCountsType /\ d.period = Shifted(c.period, n)
  BY ChangeCountBounds, RolledType
<1>2. \A k \in 1 .. 5 : /\ k + n <= 5 => Begins(d, k) = Begins(c, k + n)
                        /\ k + n > 5 => Begins(d, k) >= Begins(c, 5)
                        /\ Begins(d, k) \in Int
  BY <1>1, BeginsRolled, BeginsAt
<1> HIDE DEF n, d
<1>3. \A k \in 1 .. 5 : k + n >= 5 => Begins(d, k) >= Begins(c, 5)
  <2> SUFFICES ASSUME NEW k \in 1 .. 5, k + n >= 5
               PROVE  Begins(d, k) >= Begins(c, 5)
    OBVIOUS
  <2>1. Begins(c, 5) \in Int
    BY BeginsAt
  <2>2. CASE k + n = 5
    <3>1. Begins(d, k) = Begins(c, k + n)
      BY <1>2, <2>2
    <3> QED
      BY <2>1, <2>2, <3>1
  <2>3. CASE k + n # 5
    <3>1. k + n > 5
      BY <1>1, <2>3
    <3> QED
      BY <1>2, <3>1
  <2> QED
    BY <2>2, <2>3
<1>4. \A k \in 1 .. 5 : k + n >= 5 => AddedIn(f, Begins(d, k) - 1) = f[MaxTime]
  <2> SUFFICES ASSUME NEW k \in 1 .. 5, k + n >= 5
               PROVE  AddedIn(f, Begins(d, k) - 1) = f[MaxTime]
    OBVIOUS
  <2>1. Begins(d, k) - 1 \in Int /\ Begins(d, k) - 1 >= Begins(c, 5) - 1
    <3>1. Begins(d, k) >= Begins(c, 5) /\ Begins(d, k) \in Int
      BY <1>2, <1>3
    <3>2. Begins(c, 5) \in Int
      BY BeginsAt
    <3> QED
      BY <3>1, <3>2
  <2> QED
    BY <2>1, AddedLast
<1>5. ASSUME NEW k \in Periods
      PROVE  d.period[k] = AddedIn(f, Begins(d, k + 1) - 1) - AddedIn(f, Begins(d, k) - 1)
  <2>1. k \in 1 .. 5 /\ k + 1 \in 1 .. 5
    BY DEF Periods
  <2>2. CASE k + n <= 4
    <3>1. k + n \in Periods
      BY <1>1, <2>1, <2>2 DEF Periods
    <3>2. Begins(d, k) = Begins(c, k + n) /\ Begins(d, k + 1) = Begins(c, (k + n) + 1)
      <4>1. k + 1 + n = (k + n) + 1 /\ k + n <= 5 /\ k + 1 + n <= 5
        BY <1>1, <2>1, <2>2
      <4> QED
        BY <1>2, <2>1, <4>1
    <3>3. d.period[k] = c.period[k + n]
      BY <1>1, <3>1 DEF Shifted
    <3> QED
      BY <3>1, <3>2, <3>3 DEF HoldsDays
  <2>3. CASE k + n > 4
    <3>1. k + n \notin Periods /\ k + n >= 5 /\ (k + 1) + n >= 5
      BY <1>1, <2>1, <2>3 DEF Periods
    <3>2. d.period[k] = 0
      BY <1>1, <3>1 DEF Shifted
    <3>3. f[MaxTime] \in Int
      BY HistoryAssumption
    <3> QED
      BY <1>4, <2>1, <3>1, <3>2, <3>3
  <2> QED
    BY <1>1, <2>1, <2>2, <2>3
<1>6. ASSUME NEW u \in 0 .. MaxTime, u >= Begins(d, 5) - 1
      PROVE  f[u] = f[MaxTime]
  <2>1. Begins(d, 5) >= Begins(c, 5) /\ Begins(d, 5) \in Int /\ Begins(c, 5) \in Int
    BY <1>1, <1>2, <1>3, BeginsAt
  <2>2. u >= Begins(c, 5) - 1
    BY <1>6, <2>1, HistoryAssumption
  <2> QED
    BY <2>2 DEF HoldsDays
<1> QED
  BY <1>5, <1>6 DEF HoldsDays, d

\* What is counted goes to the current period.
LEMMA CountingFields ==
  ASSUME NEW c \in ItemCountsType, NEW n \in Int, NEW h \in Int
  PROVE  /\ Counting(c, n, h) \in ItemCountsType
         /\ Counting(c, n, h).last = c.last
         /\ Counting(c, n, h).period[4] = c.period[4] + h
         /\ \A k \in 1 .. 3 : Counting(c, n, h).period[k] = c.period[k]
         /\ \A k \in 1 .. 5 : Begins(Counting(c, n, h), k) = Begins(c, k)
<1> DEFINE p == [c.period EXCEPT ![4] = c.period[4] + h]
<1>1. Counting(c, n, h) = [c EXCEPT !.items = c.items + n, !.period = p]
  BY Zenon DEF Counting
<1>2. p[4] = c.period[4] + h /\ \A k \in 1 .. 3 : p[k] = c.period[k]
  BY DEF ItemCountsType, Periods
<1> HIDE DEF p
<1>3. Counting(c, n, h).last = c.last /\ Counting(c, n, h).period = p
  BY <1>1 DEF ItemCountsType
<1> QED
  BY <1>2, <1>3, CountingType DEF Begins

\* And to the days of the current period.
LEMMA AddingHoldsDays ==
  ASSUME NEW f \in [0 .. MaxTime -> Int], NEW c \in ItemCountsType, HoldsDays(c, f),
         NEW n \in Int, NEW h \in Int, NEW at \in 0 .. MaxTime,
         Begins(c, 4) <= at, at < Begins(c, 5)
  PROVE  HoldsDays(Counting(c, n, h), [t \in 0 .. MaxTime |-> f[t] + IF t >= at THEN h ELSE 0])
<1> DEFINE g == [t \in 0 .. MaxTime |-> f[t] + IF t >= at THEN h ELSE 0]
           e == Counting(c, n, h)
<1>1. /\ e.period[4] = c.period[4] + h
      /\ \A k \in 1 .. 3 : e.period[k] = c.period[k]
      /\ \A k \in 1 .. 5 : Begins(e, k) = Begins(c, k)
  BY CountingFields
<1> HIDE DEF e
<1>2. \A t \in Int : AddedIn(g, t) = AddedIn(f, t) + IF t >= at THEN h ELSE 0
  <2> SUFFICES ASSUME NEW t \in Int
               PROVE  AddedIn(g, t) = AddedIn(f, t) + IF t >= at THEN h ELSE 0
    OBVIOUS
  <2>1. CASE t < 0
    BY <2>1, HistoryAssumption DEF AddedIn
  <2>2. CASE t >= 0
    <3>1. Least(t, MaxTime) \in 0 .. MaxTime /\ (Least(t, MaxTime) >= at <=> t >= at)
      BY <2>2, HistoryAssumption DEF Least
    <3> DEFINE u == Least(t, MaxTime)
    <3>2. g[u] = f[u] + IF u >= at THEN h ELSE 0
      BY <3>1
    <3> HIDE DEF g
    <3> QED
      BY <2>2, <3>1, <3>2 DEF AddedIn
  <2> QED
    BY <2>1, <2>2
<1>3. ASSUME NEW u \in 0 .. MaxTime, u >= Begins(e, 5) - 1
      PROVE  g[u] = g[MaxTime]
  <2>1. u >= Begins(c, 5) - 1
    BY <1>1, <1>3
  <2>2. f[u] = f[MaxTime]
    BY <2>1 DEF HoldsDays
  <2>3. u >= at /\ MaxTime >= at /\ MaxTime \in 0 .. MaxTime
    <3>1. Begins(c, 5) \in Int
      BY BeginsAt
    <3> QED
      BY <2>1, <3>1, HistoryAssumption
  <2> QED
    BY <2>2, <2>3
<1> HIDE DEF g
<1>4. ASSUME NEW k \in Periods
      PROVE  e.period[k] = AddedIn(g, Begins(e, k + 1) - 1) - AddedIn(g, Begins(e, k) - 1)
  <2>1. k \in 1 .. 5 /\ k + 1 \in 1 .. 5
    BY DEF Periods
  <2>2. Begins(e, k) = Begins(c, k) /\ Begins(e, k + 1) = Begins(c, k + 1)
    BY <1>1, <2>1
  <2> DEFINE a == Begins(c, k) - 1
             b == Begins(c, k + 1) - 1
  <2>3. a \in Int /\ b \in Int
    BY <2>1, BeginsAt
  <2>4. a < at /\ (b >= at <=> k = 4)
    <3>1. /\ Begins(c, 1) = c.last - 3 * Period /\ Begins(c, 2) = c.last - 2 * Period
          /\ Begins(c, 3) = c.last - Period /\ Begins(c, 4) = c.last
          /\ Begins(c, 5) = c.last + Period
          /\ c.last \in Nat /\ Period \in Nat /\ Period > 0 /\ at \in Nat
      BY BeginsAt, PeriodAssumption
    <3>2. CASE k = 1
      <4>1. a = Begins(c, 1) - 1 /\ b = Begins(c, 2) - 1
        BY <3>2
      <4> QED
        BY <3>1, <3>2, <4>1
    <3>3. CASE k = 2
      <4>1. a = Begins(c, 2) - 1 /\ b = Begins(c, 3) - 1
        BY <3>3
      <4> QED
        BY <3>1, <3>3, <4>1
    <3>4. CASE k = 3
      <4>1. a = Begins(c, 3) - 1 /\ b = Begins(c, 4) - 1
        BY <3>4
      <4> QED
        BY <3>1, <3>4, <4>1
    <3>5. CASE k = 4
      <4>1. a = Begins(c, 4) - 1 /\ b = Begins(c, 5) - 1
        BY <3>5
      <4>2. at <= b
        BY <3>1, <4>1
      <4> QED
        BY <3>1, <3>5, <4>1, <4>2
    <3> QED
      BY <3>2, <3>3, <3>4, <3>5 DEF Periods
  <2>5. c.period[k] = AddedIn(f, b) - AddedIn(f, a)
    BY DEF HoldsDays
  <2> HIDE DEF a, b
  <2>6. AddedIn(f, a) \in Int /\ AddedIn(f, b) \in Int
    BY <2>3, AddedInType
  <2>7. AddedIn(g, a) = AddedIn(f, a)
    BY <1>2, <2>3, <2>4, <2>6
  <2>8. e.period[k] = AddedIn(g, b) - AddedIn(g, a)
    <3>1. CASE k = 4
      BY <1>1, <1>2, <2>3, <2>4, <2>5, <2>6, <2>7, <3>1
    <3>2. CASE k # 4
      BY <1>1, <1>2, <2>3, <2>4, <2>5, <2>6, <2>7, <3>2 DEF Periods
    <3> QED
      BY <3>1, <3>2
  <2> QED
    BY <2>2, <2>8 DEF a, b
<1> QED
  BY <1>3, <1>4 DEF HoldsDays, e, g

\* A commit is counted in the current period of the counts it has read.
LEMMA CountedInPeriod ==
  ASSUME TypeOK, Counts.last <= high
  PROVE  /\ CountedAt \in 0 .. MaxTime
         /\ Begins(Counts, 4) <= CountedAt
         /\ CountedAt < Begins(Counts, 5)
<1>1. /\ now \in Nat /\ now <= MaxTime /\ high \in Nat /\ high <= MaxTime
      /\ Counts \in ItemCountsType
  BY CountsType, HistoryAssumption DEF TypeOK
<1>2. /\ Begins(Counts, 4) = Counts.last /\ Begins(Counts, 5) = Counts.last + Period
      /\ Counts.last \in Nat
  BY <1>1, BeginsAt
<1>3. now < Counts.last + Period
  <2>1. CASE table = NoRow
    BY <1>1, <2>1, PeriodAssumption DEF Counts, Fresh
  <2>2. CASE table # NoRow
    <3>1. table \in ItemCountsType
      BY <2>2 DEF TypeOK
    <3>2. Counts.last = table.last + Period * ChangeCount(table, now)
      BY <1>1, <2>2, <3>1, RolledType DEF Counts
    <3>3. /\ Period * ChangeCount(table, now) \in Nat
          /\ now >= table.last => now < table.last + Period * ChangeCount(table, now) + Period
      BY <1>1, <3>1, ChangeCountBounds
    <3>4. table.last \in Nat
      BY <3>1 DEF ItemCountsType
    <3> QED
      BY <1>1, <3>2, <3>3, <3>4, PeriodAssumption
  <2> QED
    BY <2>1, <2>2
<1>4. Counts.last <= MaxTime /\ MaxTime \in Nat
  BY <1>1, <1>2, HistoryAssumption
<1>5. CASE now < Counts.last
  BY <1>2, <1>4, <1>5, PeriodAssumption DEF CountedAt
<1>6. CASE ~(now < Counts.last)
  BY <1>1, <1>2, <1>3, <1>4, <1>6, PeriodAssumption DEF CountedAt
<1> QED
  BY <1>5, <1>6

(* The live entities counted since a period began --------------------------- *)

\* The later a time, the fewer entities were counted since.
LEMMA AliveShrinks ==
  ASSUME NEW h \in [HistoryIds -> HistoryRow \cup {NoRow}], NEW a \in Int, NEW b \in Int, a <= b
  PROVE  /\ IsFiniteSet(AliveFrom(h, a))
         /\ Cardinality(AliveFrom(h, a)) \in Nat
         /\ Cardinality(AliveFrom(h, b)) \in Nat
         /\ Cardinality(AliveFrom(h, b)) <= Cardinality(AliveFrom(h, a))
<1>1. IsFiniteSet(HistoryIds)
  BY HistoryAssumption
<1>2. AliveFrom(h, a) \in SUBSET HistoryIds
  BY DEF AliveFrom
<1>3. IsFiniteSet(AliveFrom(h, a))
  BY <1>1, <1>2, FS_Subset
<1>4. AliveFrom(h, b) \in SUBSET AliveFrom(h, a)
  <2> SUFFICES ASSUME NEW i \in HistoryIds, h[i] # NoRow, ~h[i].deleted, h[i].counted >= b
               PROVE  h[i].counted >= a
    BY DEF AliveFrom
  <2>1. h[i].counted \in Nat
    BY DEF HistoryRow
  <2> QED
    BY <2>1
<1>5. IsFiniteSet(AliveFrom(h, b)) /\ Cardinality(AliveFrom(h, b)) <= Cardinality(AliveFrom(h, a))
  BY <1>3, <1>4, FS_Subset
<1> QED
  BY <1>3, <1>5, FS_CardinalityType

\* One entity that changes is at most one more, and one fewer if it is left out.
LEMMA AliveChanges ==
  ASSUME NEW h \in [HistoryIds -> HistoryRow \cup {NoRow}],
         NEW g \in [HistoryIds -> HistoryRow \cup {NoRow}],
         NEW i \in HistoryIds, \A j \in HistoryIds \ {i} : g[j] = h[j], NEW t \in Int
  PROVE  LET before == AliveFrom(h, t)
             after == AliveFrom(g, t)
         IN  /\ Cardinality(after) <= Cardinality(before) + 1
             /\ (i \in after => i \in before) => Cardinality(after) <= Cardinality(before)
             /\ i \notin after => Cardinality(after) <= Cardinality(before)
             /\ i \in before /\ i \notin after => Cardinality(after) <= Cardinality(before) - 1
<1> DEFINE before == AliveFrom(h, t)
           after == AliveFrom(g, t)
<1>1. IsFiniteSet(before) /\ IsFiniteSet(after)
  BY AliveShrinks
<1>2. after \ {i} \subseteq before \ {i}
  BY DEF AliveFrom
<1> HIDE DEF before, after
<1>3. /\ Cardinality(before) \in Nat
      /\ Cardinality(after) \in Nat
  BY <1>1, FS_CardinalityType
<1>4. /\ IsFiniteSet(before \ {i})
      /\ Cardinality(before \ {i}) = IF i \in before THEN Cardinality(before) - 1
                                     ELSE Cardinality(before)
  BY <1>1, FS_RemoveElement
<1>5. /\ IsFiniteSet(after \ {i})
      /\ Cardinality(after \ {i}) = IF i \in after THEN Cardinality(after) - 1
                                    ELSE Cardinality(after)
  BY <1>1, FS_RemoveElement
<1>6. after \ {i} \in SUBSET (before \ {i})
  BY <1>2
<1>7. Cardinality(after \ {i}) <= Cardinality(before \ {i})
  BY <1>4, <1>6, FS_Subset
<1> QED
  BY <1>3, <1>4, <1>5, <1>7 DEF before, after

(* The periods cover the live entities -------------------------------------- *)

\* The sums of the last periods.
LEMMA SumFromAt ==
  ASSUME NEW c \in ItemCountsType
  PROVE  /\ \A k \in Periods : c.period[k] \in Int
         /\ SumFrom(c, 1) = c.period[1] + c.period[2] + c.period[3] + c.period[4]
         /\ SumFrom(c, 2) = c.period[2] + c.period[3] + c.period[4]
         /\ SumFrom(c, 3) = c.period[3] + c.period[4]
         /\ SumFrom(c, 4) = c.period[4]
         /\ SumFrom(c, 5) = 0
         /\ \A k \in 1 .. 5 : SumFrom(c, k) \in Int
<1>1. \A k \in Periods : c.period[k] \in Int
  BY DEF ItemCountsType
<1>2. c.period[1] \in Int /\ c.period[2] \in Int /\ c.period[3] \in Int /\ c.period[4] \in Int
  BY <1>1 DEF Periods
<1>3. /\ SumFrom(c, 1) = c.period[1] + c.period[2] + c.period[3] + c.period[4]
      /\ SumFrom(c, 2) = c.period[2] + c.period[3] + c.period[4]
      /\ SumFrom(c, 3) = c.period[3] + c.period[4]
      /\ SumFrom(c, 4) = c.period[4]
      /\ SumFrom(c, 5) = 0
  BY <1>2 DEF SumFrom
<1>4. \A k \in 1 .. 5 : SumFrom(c, k) \in Int
  BY <1>2 DEF SumFrom
<1> QED
  BY <1>1, <1>3, <1>4

\* A read moves the sums as it moves the beginnings.
LEMMA SumFromRolled ==
  ASSUME NEW c \in ItemCountsType, NEW t \in Nat, NEW k \in 1 .. 5
  PROVE  LET n == ChangeCount(c, t) IN
         /\ k + n <= 5 => SumFrom(Rolled(c, t), k) = SumFrom(c, k + n)
         /\ k + n > 5 => SumFrom(Rolled(c, t), k) = 0
<1> DEFINE n == ChangeCount(c, t)
           d == Rolled(c, t)
<1>1. n \in Nat /\ d \in ItemCountsType /\ d.period = Shifted(c.period, n)
  BY ChangeCountBounds, RolledType
<1> HIDE DEF n, d
<1>2. \A j \in 1 .. 4 : d.period[j] = IF j + n <= 4 THEN c.period[j + n] ELSE 0
  BY <1>1 DEF Shifted, Periods
<1>3. c.period[1] \in Int /\ c.period[2] \in Int /\ c.period[3] \in Int /\ c.period[4] \in Int
  BY SumFromAt DEF Periods
<1>4. CASE n = 0
  <2>1. /\ d.period[1] = c.period[1] /\ d.period[2] = c.period[2]
        /\ d.period[3] = c.period[3] /\ d.period[4] = c.period[4]
    BY <1>2, <1>4
  <2> QED
    BY <1>3, <1>4, <2>1 DEF SumFrom, n, d
<1>5. CASE n = 1
  <2>1. /\ d.period[1] = c.period[2] /\ d.period[2] = c.period[3]
        /\ d.period[3] = c.period[4] /\ d.period[4] = 0
    BY <1>2, <1>5
  <2> QED
    BY <1>3, <1>5, <2>1 DEF SumFrom, n, d
<1>6. CASE n = 2
  <2>1. /\ d.period[1] = c.period[3] /\ d.period[2] = c.period[4]
        /\ d.period[3] = 0 /\ d.period[4] = 0
    BY <1>2, <1>6
  <2> QED
    BY <1>3, <1>6, <2>1 DEF SumFrom, n, d
<1>7. CASE n = 3
  <2>1. /\ d.period[1] = c.period[4] /\ d.period[2] = 0
        /\ d.period[3] = 0 /\ d.period[4] = 0
    BY <1>2, <1>7
  <2> QED
    BY <1>3, <1>7, <2>1 DEF SumFrom, n, d
<1>8. CASE n >= 4
  <2>1. /\ d.period[1] = 0 /\ d.period[2] = 0
        /\ d.period[3] = 0 /\ d.period[4] = 0
    BY <1>1, <1>2, <1>8
  <2>2. SumFrom(d, k) = 0
    BY <2>1 DEF SumFrom
  <2>3. k + n >= 5
    BY <1>1, <1>8
  <2>4. k + n <= 5 => SumFrom(c, k + n) = 0
    BY <1>1, <2>3, SumFromAt
  <2> QED
    BY <2>2, <2>4 DEF n, d
<1> QED
  BY <1>1, <1>4, <1>5, <1>6, <1>7, <1>8

\* So a read drops no entity that has a period to live: it drops periods whose entities
\* no longer count as alive since a later time.
LEMMA RolledCovers ==
  ASSUME NEW c \in ItemCountsType, NEW t \in Nat, NEW m \in Nat,
         NEW h \in [HistoryIds -> HistoryRow \cup {NoRow}], Covers(c, h, m)
  PROVE  Covers(Rolled(c, t), h, m)
<1> DEFINE n == ChangeCount(c, t)
           d == Rolled(c, t)
<1>1. n \in Nat /\ d \in ItemCountsType
  BY ChangeCountBounds, RolledType
<1> SUFFICES ASSUME NEW k \in 1 .. 5
             PROVE  Cardinality(AliveFrom(h, Begins(d, k))) <= SumFrom(d, k) + m
  BY DEF Covers
<1>2. /\ k + n <= 5 => Begins(d, k) = Begins(c, k + n) /\ SumFrom(d, k) = SumFrom(c, k + n)
      /\ k + n > 5 => Begins(d, k) >= Begins(c, 5) /\ SumFrom(d, k) = 0
  BY BeginsRolled, SumFromRolled
<1>3. Begins(d, k) \in Int /\ Begins(c, 5) \in Int
  BY <1>1, BeginsAt
<1> HIDE DEF n, d
<1>4. CASE k + n <= 5
  <2>1. k + n \in 1 .. 5
    BY <1>1, <1>4
  <2> QED
    BY <1>2, <1>4, <2>1 DEF Covers
<1>5. CASE k + n > 5
  <2>1. /\ Cardinality(AliveFrom(h, Begins(d, k))) <= Cardinality(AliveFrom(h, Begins(c, 5)))
        /\ Cardinality(AliveFrom(h, Begins(d, k))) \in Nat
        /\ Cardinality(AliveFrom(h, Begins(c, 5))) \in Nat
    BY <1>2, <1>3, <1>5, AliveShrinks
  <2>2. Cardinality(AliveFrom(h, Begins(c, 5))) <= SumFrom(c, 5) + m
    BY DEF Covers
  <2>3. SumFrom(c, 5) = 0
    BY SumFromAt
  <2> QED
    BY <1>2, <1>5, <2>1, <2>2, <2>3
<1> QED
  BY <1>1, <1>4, <1>5

(* What a commit reads and writes ------------------------------------------- *)

\* The counts a commit reads hold their days and cover the entities, also when the
\* chain has no counts yet and when its clock is behind them.
LEMMA CountsHold ==
  ASSUME TypeOK, HistoryInv
  PROVE  /\ Counts.last <= high
         /\ HoldsDays(Counts, upTo)
         /\ Covers(Counts, history, untracked)
<1>1. /\ now \in Nat /\ high \in Nat /\ now <= high /\ untracked \in Nat /\ MaxTime \in Nat
      /\ history \in [HistoryIds -> HistoryRow \cup {NoRow}]
      /\ upTo \in [0 .. MaxTime -> Int]
  BY HistoryAssumption DEF TypeOK
<1>2. CASE table = NoRow
  <2>1. /\ Counts \in ItemCountsType /\ Counts.last = now
        /\ \A k \in Periods : Counts.period[k] = 0
    BY <1>2, CountsType DEF Counts, Fresh
  <2>2. /\ \A t \in 0 .. MaxTime : upTo[t] = 0
        /\ Cardinality(AliveFrom(history, 0)) <= untracked
    BY <1>2 DEF HistoryInv
  <2>3. \A t \in Int : AddedIn(upTo, t) = 0
    BY <1>1, <2>2 DEF AddedIn, Least
  <2>4. HoldsDays(Counts, upTo)
    <3>1. \A k \in Periods : Begins(Counts, k + 1) - 1 \in Int /\ Begins(Counts, k) - 1 \in Int
      BY <2>1, BeginsAt DEF Periods
    <3> QED
      BY <1>1, <2>1, <2>2, <2>3, <3>1 DEF HoldsDays
  <2>5. Covers(Counts, history, untracked)
    <3> SUFFICES ASSUME NEW k \in 1 .. 5
                 PROVE  Cardinality(AliveFrom(history, Begins(Counts, k)))
                          <= SumFrom(Counts, k) + untracked
      BY DEF Covers
    <3>1. SumFrom(Counts, k) = 0
      BY <2>1 DEF SumFrom, Periods
    <3>2. AliveFrom(history, Begins(Counts, k)) \in SUBSET AliveFrom(history, 0)
      <4>1. \A i \in HistoryIds : history[i] # NoRow => history[i].counted >= 0
        BY <1>1 DEF HistoryRow
      <4> QED
        BY <4>1 DEF AliveFrom
    <3>3. /\ IsFiniteSet(AliveFrom(history, 0))
          /\ Cardinality(AliveFrom(history, 0)) \in Nat
      BY <1>1, AliveShrinks
    <3>4. IsFiniteSet(AliveFrom(history, Begins(Counts, k)))
      BY <3>2, <3>3, FS_Subset
    <3>5. /\ Cardinality(AliveFrom(history, Begins(Counts, k))) \in Nat
          /\ Cardinality(AliveFrom(history, Begins(Counts, k)))
               <= Cardinality(AliveFrom(history, 0))
      BY <3>2, <3>3, <3>4, FS_Subset, FS_CardinalityType
    <3> QED
      BY <1>1, <2>2, <3>1, <3>3, <3>5
  <2> QED
    BY <1>1, <2>1, <2>4, <2>5
<1>3. CASE table # NoRow
  <2>1. table \in ItemCountsType /\ table.last \in Nat
    BY <1>3 DEF TypeOK, ItemCountsType
  <2>2. Counts = Rolled(table, now)
    BY <1>3 DEF Counts
  <2>3. /\ table.last <= high
        /\ HoldsDays(table, upTo)
        /\ Covers(table, history, untracked)
    BY <1>3 DEF HistoryInv
  <2>4. HoldsDays(Counts, upTo) /\ Covers(Counts, history, untracked)
    BY <1>1, <2>1, <2>2, <2>3, RolledHoldsDays, RolledCovers
  <2>5. Counts.last = table.last + Period * ChangeCount(table, now)
    BY <1>1, <2>1, <2>2, RolledType
  <2>6. CASE now < table.last
    <3>1. ChangeCount(table, now) = 0
      BY <1>1, <2>1, <2>6, ChangeCountBounds
    <3>2. Period * ChangeCount(table, now) = 0
      BY <3>1, PeriodAssumption
    <3> QED
      BY <2>1, <2>3, <2>4, <2>5, <3>2
  <2>7. CASE now >= table.last
    <3>1. Counts.last <= now
      BY <1>1, <2>1, <2>5, <2>7, ChangeCountBounds
    <3>2. Counts.last \in Nat
      BY CountsType DEF ItemCountsType
    <3> QED
      BY <1>1, <2>4, <3>1, <3>2
  <2> QED
    BY <1>1, <2>1, <2>6, <2>7
<1> QED
  BY <1>2, <1>3

\* What HistoryInv says of a row of counts c.
RowHolds(c, f, h, m, t) ==
  /\ c = NoRow => (\A u \in 0 .. MaxTime : f[u] = 0) /\ Cardinality(AliveFrom(h, 0)) <= m
  /\ c # NoRow => c.last <= t /\ HoldsDays(c, f) /\ Covers(c, h, m)

\* A commit that writes the counts keeps that, if each live entity it adds to those
\* since a period began is one that it counts or one that the counts miss.
LEMMA WrittenHolds ==
  ASSUME TypeOK, HistoryInv, NEW n \in Int, NEW h \in Int, UpdateClientItemCount(n, h),
         high' = high, NEW g \in [HistoryIds -> HistoryRow \cup {NoRow}], NEW m \in Nat,
         \A k \in 1 .. 5 :
           Cardinality(AliveFrom(g, Begins(Counts, k))) + untracked
             <= Cardinality(AliveFrom(history, Begins(Counts, k)))
                  + (IF k = 5 THEN 0 ELSE h) + m
  PROVE  /\ RowHolds(table', upTo', g, m, high')
         /\ table' # NoRow
         /\ Covers(table', g, m)
         /\ SumFrom(table', 1) = SumFrom(Counts, 1) + h
         /\ Begins(table', 1) = Begins(Counts, 1)
<1>1. Counts \in ItemCountsType /\ table' = Counting(Counts, n, h)
  BY CountsType DEF UpdateClientItemCount
<1>2. /\ Counts.last <= high
      /\ HoldsDays(Counts, upTo)
      /\ Covers(Counts, history, untracked)
  BY CountsHold
<1>3. /\ upTo \in [0 .. MaxTime -> Int] /\ untracked \in Nat
      /\ history \in [HistoryIds -> HistoryRow \cup {NoRow}]
  BY DEF TypeOK
<1>4. /\ CountedAt \in 0 .. MaxTime
      /\ Begins(Counts, 4) <= CountedAt
      /\ CountedAt < Begins(Counts, 5)
  BY <1>2, CountedInPeriod
<1>5. upTo' = [t \in 0 .. MaxTime |-> upTo[t] + IF t >= CountedAt THEN h ELSE 0]
  BY DEF UpdateClientItemCount
<1>6. HoldsDays(table', upTo')
  BY <1>1, <1>2, <1>3, <1>4, <1>5, AddingHoldsDays, ZenonT(30)
<1> DEFINE c == Counts
           e == Counting(c, n, h)
<1>7. /\ e \in ItemCountsType
      /\ e.last = c.last
      /\ e.period[4] = c.period[4] + h
      /\ \A k \in 1 .. 3 : e.period[k] = c.period[k]
      /\ \A k \in 1 .. 5 : Begins(e, k) = Begins(c, k)
  BY <1>1, CountingFields
<1> HIDE DEF c, e
<1>8. c \in ItemCountsType
  BY <1>1 DEF c
<1>9. \A k \in 1 .. 5 : SumFrom(e, k) = SumFrom(c, k) + IF k = 5 THEN 0 ELSE h
  <2>1. c.period[1] \in Int /\ c.period[2] \in Int /\ c.period[3] \in Int /\ c.period[4] \in Int
    BY <1>8, SumFromAt DEF Periods
  <2>2. /\ e.period[1] = c.period[1] /\ e.period[2] = c.period[2]
        /\ e.period[3] = c.period[3] /\ e.period[4] = c.period[4] + h
    BY <1>7
  <2> QED
    BY <2>1, <2>2 DEF SumFrom
<1>10. Covers(e, g, m)
  <2> SUFFICES ASSUME NEW k \in 1 .. 5
               PROVE  Cardinality(AliveFrom(g, Begins(e, k))) <= SumFrom(e, k) + m
    BY DEF Covers
  <2>1. Begins(e, k) = Begins(c, k) /\ Begins(c, k) \in Int
    BY <1>7, <1>8, BeginsAt
  <2>2. Cardinality(AliveFrom(history, Begins(c, k))) <= SumFrom(c, k) + untracked
    BY <1>2 DEF Covers, c
  <2>3. Cardinality(AliveFrom(g, Begins(c, k))) + untracked
          <= Cardinality(AliveFrom(history, Begins(c, k))) + (IF k = 5 THEN 0 ELSE h) + m
    BY DEF c
  <2>4. /\ Cardinality(AliveFrom(history, Begins(c, k))) \in Nat
        /\ Cardinality(AliveFrom(g, Begins(c, k))) \in Nat
    BY <1>3, <2>1, AliveShrinks
  <2>5. SumFrom(c, k) \in Int
    BY <1>8, SumFromAt
  <2>6. SumFrom(e, k) = SumFrom(c, k) + IF k = 5 THEN 0 ELSE h
    BY <1>9
  <2>7. untracked \in Nat
    BY <1>3
  <2> DEFINE after  == Cardinality(AliveFrom(g, Begins(c, k)))
             before == Cardinality(AliveFrom(history, Begins(c, k)))
             sum    == SumFrom(c, k)
             added  == IF k = 5 THEN 0 ELSE h
  <2>8. added \in Int
    OBVIOUS
  <2>9. after <= sum + added + m
    <3> HIDE DEF after, before, sum, added
    <3>1. before <= sum + untracked /\ after + untracked <= before + added + m
      BY <2>2, <2>3 DEF after, before, sum, added
    <3>2. before \in Nat /\ after \in Nat /\ sum \in Int
      BY <2>4, <2>5 DEF after, before, sum
    <3> QED
      BY <2>7, <2>8, <3>1, <3>2
  <2> QED
    BY <2>1, <2>6, <2>9
<1>11. e # NoRow /\ table' = e
  BY <1>1, <1>7, HistoryAssumption DEF c, e
<1> QED
  BY <1>2, <1>6, <1>7, <1>9, <1>10, <1>11 DEF RowHolds, c

\* A commit that does not write them keeps it, if each live entity it adds is one that
\* the counts miss.
LEMMA UnwrittenHolds ==
  ASSUME TypeOK, HistoryInv, UNCHANGED <<table, upTo>>, high' \in Int, high <= high',
         NEW g \in [HistoryIds -> HistoryRow \cup {NoRow}], NEW m \in Nat,
         \A t \in Int : Cardinality(AliveFrom(g, t)) + untracked
                          <= Cardinality(AliveFrom(history, t)) + m
  PROVE  RowHolds(table', upTo', g, m, high')
<1>1. /\ untracked \in Nat /\ high \in Int
      /\ history \in [HistoryIds -> HistoryRow \cup {NoRow}]
  BY HistoryAssumption DEF TypeOK
<1>2. \A t \in Int : /\ Cardinality(AliveFrom(g, t)) \in Nat
                     /\ Cardinality(AliveFrom(history, t)) \in Nat
  BY <1>1, AliveShrinks
<1>3. CASE table = NoRow
  <2>1. Cardinality(AliveFrom(history, 0)) <= untracked
    BY <1>3 DEF HistoryInv
  <2>2. Cardinality(AliveFrom(g, 0)) <= m
    BY <1>1, <1>2, <2>1
  <2> QED
    BY <1>3, <2>2 DEF HistoryInv, RowHolds
<1>4. CASE table # NoRow
  <2>1. table \in ItemCountsType
    BY <1>4 DEF TypeOK
  <2>2. table.last <= high /\ HoldsDays(table, upTo) /\ Covers(table, history, untracked)
    BY <1>4 DEF HistoryInv
  <2>3. table.last \in Nat
    BY <2>1 DEF ItemCountsType
  <2>4. ASSUME NEW k \in 1 .. 5
        PROVE  Cardinality(AliveFrom(g, Begins(table, k))) <= SumFrom(table, k) + m
    <3>1. Begins(table, k) \in Int /\ SumFrom(table, k) \in Int
      BY <2>1, BeginsAt, SumFromAt
    <3>2. Cardinality(AliveFrom(history, Begins(table, k))) <= SumFrom(table, k) + untracked
      BY <2>2 DEF Covers
    <3>3. Cardinality(AliveFrom(g, Begins(table, k))) + untracked
            <= Cardinality(AliveFrom(history, Begins(table, k))) + m
      BY <3>1
    <3> QED
      BY <1>1, <1>2, <3>1, <3>2, <3>3
  <2>5. Covers(table, g, m)
    BY <2>4 DEF Covers
  <2>6. table.last <= high'
    BY <1>1, <2>2, <2>3
  <2> QED
    BY <1>4, <2>2, <2>5, <2>6 DEF RowHolds
<1> QED
  BY <1>3, <1>4

(* The history quota --------------------------------------------------------- *)

\* LongLived of the entities h at time t.
LongIn(h, t) == {i \in HistoryIds : h[i] # NoRow /\ ~h[i].deleted /\ h[i].expires >= t + Period}

\* The entities with a period to live are among those counted in the four periods.
LEMMA LongLivedIsCounted ==
  ASSUME NEW h \in [HistoryIds -> HistoryRow \cup {NoRow}], NEW t \in Int,
         \A i \in HistoryIds : h[i] # NoRow => h[i].expires <= h[i].counted + Lifetime,
         NEW c \in ItemCountsType, c.last <= t
  PROVE  LongIn(h, t) \subseteq AliveFrom(h, Begins(c, 1))
<1> SUFFICES ASSUME NEW i \in HistoryIds, h[i] # NoRow, h[i].expires >= t + Period
             PROVE  h[i].counted >= Begins(c, 1)
  BY DEF LongIn, AliveFrom
<1>1. h[i].expires \in Nat /\ h[i].counted \in Nat /\ h[i].expires <= h[i].counted + Lifetime
  BY DEF HistoryRow
<1>2. Begins(c, 1) = c.last - 3 * Period /\ c.last \in Nat
  BY BeginsAt
<1> QED
  BY <1>1, <1>2, PeriodAssumption DEF Lifetime

\* Entities that had a period to live before are within the quota, one more may exceed it
\* by one.
LEMMA QuotaKept ==
  ASSUME TypeOK, HistoryInv, NEW S, NEW i
  PROVE  /\ S \subseteq LongLived => Cardinality(S) <= MaxHistory + untracked
         /\ S \subseteq LongLived \cup {i} => Cardinality(S) <= MaxHistory + untracked + 1
<1>1. IsFiniteSet(LongLived)
  <2>1. LongLived \in SUBSET HistoryIds /\ IsFiniteSet(HistoryIds)
    BY HistoryAssumption DEF LongLived
  <2> QED
    BY <2>1, FS_Subset
<1>2. /\ Cardinality(LongLived) \in Nat
      /\ IsFiniteSet(LongLived \cup {i})
      /\ Cardinality(LongLived \cup {i}) <= Cardinality(LongLived) + 1
      /\ Cardinality(LongLived \cup {i}) \in Nat
  <2> DEFINE L == LongLived
  <2>1. IsFiniteSet(L)
    BY <1>1
  <2> HIDE DEF L
  <2>2. /\ IsFiniteSet(L \cup {i})
        /\ Cardinality(L \cup {i}) = IF i \in L THEN Cardinality(L) ELSE Cardinality(L) + 1
    BY <2>1, FS_AddElement
  <2>3. Cardinality(L) \in Nat /\ Cardinality(L \cup {i}) \in Nat
    BY <2>1, <2>2, FS_CardinalityType
  <2> QED
    BY <2>2, <2>3 DEF L
<1>3. /\ Cardinality(LongLived) <= MaxHistory + untracked
      /\ MaxHistory \in Nat /\ untracked \in Nat
  BY HistoryAssumption DEF HistoryInv, HistoryQuotaHeld, TypeOK
<1>4. ASSUME S \subseteq LongLived
      PROVE  Cardinality(S) <= MaxHistory + untracked
  <2>1. Cardinality(S) <= Cardinality(LongLived) /\ Cardinality(S) \in Nat
    BY <1>1, <1>4, FS_Subset, FS_CardinalityType
  <2> QED
    BY <1>2, <1>3, <2>1
<1>5. ASSUME S \subseteq LongLived \cup {i}
      PROVE  Cardinality(S) <= MaxHistory + untracked + 1
  <2>1. Cardinality(S) <= Cardinality(LongLived \cup {i}) /\ Cardinality(S) \in Nat
    BY <1>2, <1>5, FS_Subset, FS_CardinalityType
  <2> QED
    BY <1>2, <1>3, <2>1
<1> QED
  BY <1>4, <1>5

(* The steps ------------------------------------------------------------------ *)

\* An insert is counted, or missed; when it is counted, the history counts were below
\* the quota.
LEMMA InsertKeepsHistory ==
  ASSUME TypeOK, TypeOK', HistoryInv, UNCHANGED <<now, high>>,
         NEW i \in HistoryIds, NEW deleted \in BOOLEAN, InsertHistory(i, deleted)
  PROVE  HistoryInv'
<1> DEFINE row == [expires |-> now + Lifetime, counted |-> CountedAt, deleted |-> deleted]
<1>1. /\ now \in Nat /\ high \in Int /\ untracked \in Nat /\ untracked' \in Nat
      /\ MaxHistory \in Nat
      /\ history \in [HistoryIds -> HistoryRow \cup {NoRow}]
      /\ history' \in [HistoryIds -> HistoryRow \cup {NoRow}]
      /\ Counts \in ItemCountsType /\ CountedAt \in Nat
  BY HistoryAssumption, CountsType DEF TypeOK
<1>2. /\ history[i] = NoRow
      /\ history' = [history EXCEPT ![i] = row]
      /\ \A j \in HistoryIds \ {i} : history'[j] = history[j]
      /\ history'[i] = row
  BY <1>1 DEF InsertHistory, HasItem
<1>3. row.counted = CountedAt /\ row.expires = now + Lifetime /\ row.deleted = deleted
  OBVIOUS
<1> HIDE DEF row
<1>4. now <= CountedAt
  BY <1>1 DEF CountedAt, ItemCountsType
<1>5. \A j \in HistoryIds : history'[j] # NoRow =>
                              history'[j].expires <= history'[j].counted + Lifetime
  <2>1. CountedAt + Lifetime >= now + Lifetime
    BY <1>1, <1>4, PeriodAssumption DEF Lifetime
  <2> QED
    BY <1>2, <1>3, <2>1 DEF HistoryInv, HasItem
<1>6. \A t \in Int :
        /\ Cardinality(AliveFrom(history', t)) <= Cardinality(AliveFrom(history, t)) + 1
        /\ t > CountedAt => Cardinality(AliveFrom(history', t)) <= Cardinality(AliveFrom(history, t))
        /\ Cardinality(AliveFrom(history', t)) \in Nat
        /\ Cardinality(AliveFrom(history, t)) \in Nat
  <2> SUFFICES ASSUME NEW t \in Int
               PROVE  /\ Cardinality(AliveFrom(history', t))
                           <= Cardinality(AliveFrom(history, t)) + 1
                      /\ t > CountedAt => Cardinality(AliveFrom(history', t))
                                            <= Cardinality(AliveFrom(history, t))
                      /\ Cardinality(AliveFrom(history', t)) \in Nat
                      /\ Cardinality(AliveFrom(history, t)) \in Nat
    OBVIOUS
  <2>1. t > CountedAt => i \notin AliveFrom(history', t)
    BY <1>1, <1>2, <1>3 DEF AliveFrom
  <2>2. LET before == AliveFrom(history, t)
            after == AliveFrom(history', t)
        IN  /\ Cardinality(after) <= Cardinality(before) + 1
            /\ i \notin after => Cardinality(after) <= Cardinality(before)
    BY <1>1, <1>2, AliveChanges
  <2>3. /\ Cardinality(AliveFrom(history', t)) \in Nat
        /\ Cardinality(AliveFrom(history, t)) \in Nat
    BY <1>1, AliveShrinks
  <2> QED
    BY <2>1, <2>2, <2>3
<1>7. CASE UpdateClientItemCount(0, 1) /\ untracked' = untracked
  <2>1. CountedAt < Begins(Counts, 5)
    BY CountsHold, CountedInPeriod
  <2>2. \A k \in 1 .. 5 :
           Cardinality(AliveFrom(history', Begins(Counts, k))) + untracked
             <= Cardinality(AliveFrom(history, Begins(Counts, k)))
                  + (IF k = 5 THEN 0 ELSE 1) + untracked'
    <3> SUFFICES ASSUME NEW k \in 1 .. 5
                 PROVE  Cardinality(AliveFrom(history', Begins(Counts, k))) + untracked
                          <= Cardinality(AliveFrom(history, Begins(Counts, k)))
                               + (IF k = 5 THEN 0 ELSE 1) + untracked'
      OBVIOUS
    <3>1. Begins(Counts, k) \in Int
      BY <1>1, BeginsAt
    <3>2. k = 5 => Begins(Counts, k) > CountedAt
      BY <1>1, <2>1, <3>1
    <3> QED
      BY <1>1, <1>6, <1>7, <3>1, <3>2
  <2>3. /\ RowHolds(table', upTo', history', untracked', high')
        /\ table' # NoRow
        /\ Covers(table', history', untracked')
        /\ SumFrom(table', 1) = SumFrom(Counts, 1) + 1
        /\ Begins(table', 1) = Begins(Counts, 1)
    BY <1>1, <1>7, <2>2, WrittenHolds
  <2>4. Cardinality(LongLived') <= MaxHistory + untracked'
    <3>1. LongLived' \subseteq AliveFrom(history', Begins(Counts, 1))
      <4>1. LongLived' = LongIn(history', high)
        BY DEF LongLived, LongIn, HasItem
      <4> QED
        BY <1>1, <1>5, <4>1, CountsHold, LongLivedIsCounted
    <3>2. Cardinality(AliveFrom(history', Begins(Counts, 1))) <= SumFrom(Counts, 1) + 1 + untracked'
      BY <2>3 DEF Covers
    <3>3. /\ IsFiniteSet(AliveFrom(history', Begins(Counts, 1)))
          /\ Cardinality(AliveFrom(history', Begins(Counts, 1))) \in Nat
      BY <1>1, BeginsAt, AliveShrinks
    <3>4. IsFiniteSet(LongLived') /\ Cardinality(LongLived') <=
                                       Cardinality(AliveFrom(history', Begins(Counts, 1)))
      BY <3>1, <3>3, FS_Subset
    <3>5. Cardinality(LongLived') \in Nat
      BY <3>4, FS_CardinalityType
    <3>6. SumFrom(Counts, 1) \in Int /\ SumFrom(Counts, 1) < MaxHistory
      BY <1>1, SumFromAt DEF InsertHistory, HistoryFull, SumHistoryCounts
    <3> QED
      BY <1>1, <3>2, <3>3, <3>4, <3>5, <3>6
  <2> QED
    BY <1>5, <2>3, <2>4 DEF HistoryInv, RowHolds, HistoryQuotaHeld, HasItem
<1>8. CASE CountsNotWritten /\ untracked' = untracked + 1
  <2>1. RowHolds(table', upTo', history', untracked', high')
    <3>1. \A t \in Int : Cardinality(AliveFrom(history', t)) + untracked
                           <= Cardinality(AliveFrom(history, t)) + untracked'
      BY <1>1, <1>6, <1>8
    <3> QED
      BY <1>1, <1>8, <3>1, UnwrittenHolds DEF CountsNotWritten
  <2>2. LongLived' \subseteq LongLived \cup {i}
    BY <1>2 DEF LongLived, HasItem
  <2>3. Cardinality(LongLived') <= MaxHistory + untracked + 1
    BY <2>2, QuotaKept
  <2> QED
    BY <1>1, <1>5, <1>8, <2>1, <2>3 DEF HistoryInv, RowHolds, HistoryQuotaHeld, HasItem
<1> QED
  BY <1>7, <1>8 DEF InsertHistory

\* An update keeps the time an entity was counted for; what a deletion takes off the
\* counts was in them, or is missed.
LEMMA UpdateKeepsHistory ==
  ASSUME TypeOK, TypeOK', HistoryInv, UNCHANGED <<now, high>>,
         NEW i \in HistoryIds, NEW deleted \in BOOLEAN, UpdateHistory(i, deleted)
  PROVE  HistoryInv'
<1> DEFINE h == IF BecomesDeleted(i, deleted) THEN -1 ELSE 0
           missed == \/ BecomesDeleted(i, deleted) /\ CountedBefore(i)
                     \/ Revives(i, deleted)
<1>1. /\ high \in Int /\ untracked \in Nat /\ untracked' \in Nat
      /\ MaxHistory \in Nat
      /\ history \in [HistoryIds -> HistoryRow \cup {NoRow}]
      /\ history' \in [HistoryIds -> HistoryRow \cup {NoRow}]
      /\ Counts \in ItemCountsType
  BY HistoryAssumption, CountsType DEF TypeOK
<1>2. /\ history[i] # NoRow /\ history[i] \in HistoryRow
      /\ history' = [history EXCEPT ![i].deleted = deleted]
  BY <1>1 DEF UpdateHistory, HasItem
<1>3. /\ history'[i] # NoRow
      /\ history'[i].deleted = deleted
      /\ history'[i].expires = history[i].expires
      /\ history'[i].counted = history[i].counted
      /\ \A j \in HistoryIds \ {i} : history'[j] = history[j]
  <2>1. /\ history'[i] = [history[i] EXCEPT !.deleted = deleted]
        /\ \A j \in HistoryIds \ {i} : history'[j] = history[j]
    BY <1>1, <1>2
  <2>2. history'[i] \in HistoryRow
    BY <1>2, <2>1 DEF HistoryRow
  <2> QED
    BY <1>2, <2>1, <2>2, HistoryAssumption DEF HistoryRow
<1>4. untracked' = untracked + IF missed THEN 1 ELSE 0
  BY DEF UpdateHistory
<1>5. \A j \in HistoryIds : history'[j] # NoRow =>
                              history'[j].expires <= history'[j].counted + Lifetime
  BY <1>2, <1>3 DEF HistoryInv, HasItem
<1>6. ASSUME NEW t \in Int
      PROVE  /\ Cardinality(AliveFrom(history', t)) + untracked
                  <= Cardinality(AliveFrom(history, t)) + untracked'
             /\ t <= Counts.last =>
                  Cardinality(AliveFrom(history', t)) + untracked
                    <= Cardinality(AliveFrom(history, t)) + h + untracked'
  <2> DEFINE before == AliveFrom(history, t)
             after == AliveFrom(history', t)
  <2>1. /\ Cardinality(after) <= Cardinality(before) + 1
        /\ (i \in after => i \in before) => Cardinality(after) <= Cardinality(before)
        /\ i \notin after => Cardinality(after) <= Cardinality(before)
        /\ i \in before /\ i \notin after => Cardinality(after) <= Cardinality(before) - 1
    BY <1>1, <1>3, AliveChanges
  <2>2. Cardinality(before) \in Nat /\ Cardinality(after) \in Nat
    BY <1>1, AliveShrinks
  <2>3. /\ i \in before <=> ~history[i].deleted /\ history[i].counted >= t
        /\ i \in after <=> ~deleted /\ history[i].counted >= t
    BY <1>2, <1>3 DEF AliveFrom
  <2>4. /\ history[i].counted \in Nat /\ Counts.last \in Nat
        /\ history[i].deleted \in BOOLEAN
    BY <1>1, <1>2 DEF HistoryRow, ItemCountsType
  <2> HIDE DEF before, after
  <2>5. CASE BecomesDeleted(i, deleted)
    <3>1. i \notin after /\ h = -1
      BY <2>3, <2>5 DEF BecomesDeleted
    <3>2. CASE CountedBefore(i)
      <4>1. untracked' = untracked + 1
        BY <1>4, <2>5, <3>2
      <4> QED
        BY <1>1, <2>1, <2>2, <3>1, <4>1 DEF before, after
    <3>3. CASE ~CountedBefore(i)
      <4>1. untracked' = untracked
        BY <1>1, <1>4, <2>5, <3>3 DEF BecomesDeleted, Revives
      <4>2. t <= Counts.last => i \in before
        BY <2>3, <2>4, <2>5, <3>3 DEF BecomesDeleted, CountedBefore
      <4> QED
        BY <1>1, <2>1, <2>2, <3>1, <4>1, <4>2 DEF before, after
    <3> QED
      BY <3>2, <3>3
  <2>6. CASE Revives(i, deleted)
    <3>1. h = 0
      BY <2>6 DEF BecomesDeleted, Revives
    <3>2. untracked' = untracked + 1
      BY <1>4, <2>6
    <3> HIDE DEF h, missed
    <3> QED
      BY <1>1, <2>1, <2>2, <3>1, <3>2 DEF before, after
  <2>7. CASE ~BecomesDeleted(i, deleted) /\ ~Revives(i, deleted)
    <3>1. i \in after => i \in before
      BY <2>3, <2>7 DEF BecomesDeleted, Revives
    <3>2. untracked' = untracked /\ h = 0
      BY <1>1, <1>4, <2>7
    <3>3. Cardinality(after) <= Cardinality(before)
      BY <2>1, <3>1
    <3> HIDE DEF h, missed
    <3> QED
      BY <1>1, <2>2, <3>2, <3>3 DEF before, after
  <2> QED
    BY <2>5, <2>6, <2>7
<1>7. RowHolds(table', upTo', history', untracked', high')
  <2>1. CASE UpdateClientItemCount(0, h)
    <3>1. h \in Int
      OBVIOUS
    <3>2. \A k \in 1 .. 5 :
            Cardinality(AliveFrom(history', Begins(Counts, k))) + untracked
              <= Cardinality(AliveFrom(history, Begins(Counts, k)))
                   + (IF k = 5 THEN 0 ELSE h) + untracked'
      <4> SUFFICES ASSUME NEW k \in 1 .. 5
                   PROVE  Cardinality(AliveFrom(history', Begins(Counts, k))) + untracked
                            <= Cardinality(AliveFrom(history, Begins(Counts, k)))
                                 + (IF k = 5 THEN 0 ELSE h) + untracked'
        OBVIOUS
      <4>1. Begins(Counts, k) \in Int
        BY <1>1, BeginsAt
      <4>2. k # 5 => Begins(Counts, k) <= Counts.last
        <5>1. /\ Begins(Counts, 1) = Counts.last - 3 * Period
              /\ Begins(Counts, 2) = Counts.last - 2 * Period
              /\ Begins(Counts, 3) = Counts.last - Period
              /\ Begins(Counts, 4) = Counts.last
              /\ Counts.last \in Nat
          BY <1>1, BeginsAt
        <5>2. k # 5 => k = 1 \/ k = 2 \/ k = 3 \/ k = 4
          OBVIOUS
        <5> QED
          BY <5>1, <5>2, PeriodAssumption
      <4>3. /\ Cardinality(AliveFrom(history', Begins(Counts, k))) \in Nat
            /\ Cardinality(AliveFrom(history, Begins(Counts, k))) \in Nat
        BY <1>1, <4>1, AliveShrinks
      <4> HIDE DEF h, missed
      <4> QED
        BY <1>1, <1>6, <3>1, <4>1, <4>2, <4>3
    <3> HIDE DEF h, missed
    <3> QED
      BY <1>1, <2>1, <3>1, <3>2, WrittenHolds
  <2>2. CASE CountsNotWritten
    <3>1. \A t \in Int : Cardinality(AliveFrom(history', t)) + untracked
                           <= Cardinality(AliveFrom(history, t)) + untracked'
      BY <1>6
    <3> QED
      BY <1>1, <2>2, <3>1, UnwrittenHolds DEF CountsNotWritten
  <2> QED
    BY <2>1, <2>2 DEF UpdateHistory
<1>8. Cardinality(LongLived') <= MaxHistory + untracked'
  <2>1. CASE Revives(i, deleted)
    <3>1. LongLived' \subseteq LongLived \cup {i}
      BY <1>3 DEF LongLived, HasItem
    <3>2. untracked' = untracked + 1
      BY <1>4, <2>1
    <3> QED
      BY <1>1, <3>1, <3>2, QuotaKept
  <2>2. CASE ~Revives(i, deleted)
    <3>1. LongLived' \subseteq LongLived
      BY <1>2, <1>3, <2>2 DEF LongLived, HasItem, Revives
    <3>2. Cardinality(LongLived') <= MaxHistory + untracked
      BY <3>1, QuotaKept
    <3>3. IsFiniteSet(LongLived')
      <4>1. LongLived' \in SUBSET HistoryIds /\ IsFiniteSet(HistoryIds)
        BY HistoryAssumption DEF LongLived
      <4> QED
        BY <4>1, FS_Subset
    <3>4. Cardinality(LongLived') \in Nat
      BY <3>3, FS_CardinalityType
    <3>5. untracked' >= untracked
      BY <1>1, <1>4
    <3> QED
      BY <1>1, <3>2, <3>4, <3>5
  <2> QED
    BY <2>1, <2>2
<1> QED
  BY <1>5, <1>7, <1>8 DEF HistoryInv, RowHolds, HistoryQuotaHeld, HasItem

\* Whatever leaves the history entities and their counts alone keeps the invariant.
LEMMA RestKeepsHistory ==
  ASSUME TypeOK, TypeOK', HistoryInv, UNCHANGED <<history, untracked>>, high <= high',
         \/ \E n \in Int : UpdateClientItemCount(n, 0) /\ high' = high
         \/ UNCHANGED <<table, upTo>>
  PROVE  HistoryInv'
<1>1. /\ high \in Int /\ high' \in Int /\ untracked \in Nat
      /\ history \in [HistoryIds -> HistoryRow \cup {NoRow}]
      /\ Counts \in ItemCountsType
  BY HistoryAssumption, CountsType DEF TypeOK
<1>2. \A t \in Int : Cardinality(AliveFrom(history, t)) \in Nat
  BY <1>1, AliveShrinks
<1>3. RowHolds(table', upTo', history, untracked, high')
  <2>1. CASE \E n \in Int : UpdateClientItemCount(n, 0) /\ high' = high
    <3>1. PICK n \in Int : UpdateClientItemCount(n, 0) /\ high' = high
      BY <2>1
    <3>2. \A k \in 1 .. 5 :
            Cardinality(AliveFrom(history, Begins(Counts, k))) + untracked
              <= Cardinality(AliveFrom(history, Begins(Counts, k)))
                   + (IF k = 5 THEN 0 ELSE 0) + untracked
      BY <1>1, <1>2, BeginsAt
    <3> QED
      BY <1>1, <3>1, <3>2, WrittenHolds
  <2>2. CASE UNCHANGED <<table, upTo>>
    <3>1. \A t \in Int : Cardinality(AliveFrom(history, t)) + untracked
                           <= Cardinality(AliveFrom(history, t)) + untracked
      BY <1>1, <1>2
    <3> QED
      BY <1>1, <2>2, <3>1, UnwrittenHolds
  <2> QED
    BY <2>1, <2>2
<1>4. Cardinality(LongLived') <= MaxHistory + untracked
  <2>1. LongLived' \subseteq LongLived
    <3> SUFFICES ASSUME NEW i \in HistoryIds, history[i] # NoRow,
                        history[i].expires >= high' + Period
                 PROVE  history[i].expires >= high + Period
      BY DEF LongLived, HasItem
    <3>1. history[i].expires \in Nat
      BY <1>1 DEF HistoryRow
    <3> QED
      BY <1>1, <3>1, PeriodAssumption
  <2> QED
    BY <2>1, QuotaKept
<1> QED
  BY <1>3, <1>4 DEF HistoryInv, RowHolds, HistoryQuotaHeld, HasItem

\* Every commit and every move of the clock keeps the invariant.
LEMMA NextHistoryInv ==
  ASSUME TypeOK, TypeOK', HistoryInv, [Next]_vars
  PROVE  HistoryInv'
<1>0. high \in Int /\ high <= high
  BY HistoryAssumption DEF TypeOK
<1>1. CASE Commit
  <2>1. UNCHANGED <<now, high>>
    BY <1>1 DEF Commit
  <2>2. ASSUME NEW i \in HistoryIds, NEW deleted \in BOOLEAN, InsertHistory(i, deleted)
        PROVE  HistoryInv'
    BY <2>1, <2>2, InsertKeepsHistory
  <2>3. ASSUME NEW i \in HistoryIds, NEW deleted \in BOOLEAN, UpdateHistory(i, deleted)
        PROVE  HistoryInv'
    BY <2>1, <2>3, UpdateKeepsHistory
  <2>4. ASSUME NEW i \in HistoryIds, DropHistory(i)
        PROVE  HistoryInv'
    BY <1>0, <2>1, <2>4, RestKeepsHistory DEF DropHistory
  <2>5. CASE InsertOrdinary
    BY <1>0, <2>1, <2>5, RestKeepsHistory DEF InsertOrdinary, CountsNotWritten
  <2>6. CASE RefuseOrdinary
    BY <1>0, <2>1, <2>6, RestKeepsHistory DEF RefuseOrdinary
  <2>7. CASE DeleteOrdinary
    BY <1>0, <2>1, <2>7, RestKeepsHistory DEF DeleteOrdinary, CountsNotWritten
  <2> QED
    BY <1>1, <2>2, <2>3, <2>4, <2>5, <2>6, <2>7 DEF Commit
<1>2. CASE Clock
  <2>1. high <= high'
    BY <1>0, <1>2 DEF Clock, Tick, SetBack, Later, TypeOK
  <2> QED
    BY <1>2, <2>1, RestKeepsHistory DEF Clock
<1>3. CASE UNCHANGED vars
  BY <1>0, <1>3, RestKeepsHistory DEF vars
<1> QED
  BY <1>1, <1>2, <1>3 DEF Next

\* The counts of a chain and its history entities go together in every reachable state.
LEMMA HistoryInvariant == Spec => []HistoryInv
<1>1. Init => HistoryInv
  <2> SUFFICES ASSUME Init
               PROVE  HistoryInv
    OBVIOUS
  <2>1. AliveFrom(history, 0) = {} /\ LongLived = {}
    BY DEF Init, AliveFrom, LongLived, HasItem
  <2>2. Cardinality(AliveFrom(history, 0)) = 0 /\ Cardinality(LongLived) = 0
    BY <2>1, FS_EmptySet
  <2> QED
    BY <2>2, HistoryAssumption DEF Init, HistoryInv, HistoryQuotaHeld, HasItem
<1>2. TypeOK /\ TypeOK' /\ HistoryInv /\ [Next]_vars => HistoryInv'
  BY NextHistoryInv
<1> QED
  BY <1>1, <1>2, HistoryTypeCorrect, PTL DEF Spec

\* However long a chain pauses, however often its counts are read and whenever its clock
\* is set back, initRealCountsAndUpdateHistoryCounts leaves in each period exactly what
\* commits counted in its days.
THEOREM PeriodsAlwaysHoldTheirDays == Spec => []PeriodsHoldTheirDays
<1>1. TypeOK /\ HistoryInv => PeriodsHoldTheirDays
  <2> SUFFICES ASSUME TypeOK, HistoryInv, table # NoRow, NEW k \in Periods
               PROVE  table.period[k] = AddedUpTo(Ends(table, k))
                                          - AddedUpTo(Begins(table, k) - 1)
    BY DEF PeriodsHoldTheirDays
  <2>1. /\ table \in ItemCountsType /\ upTo \in [0 .. MaxTime -> Int] /\ MaxTime \in Nat
        /\ table.last <= high /\ high \in Nat /\ high <= MaxTime
    BY HistoryAssumption DEF HistoryInv, TypeOK
  <2>2. HoldsDays(table, upTo)
    BY DEF HistoryInv
  <2>3. table.period[k] = AddedIn(upTo, Begins(table, k + 1) - 1)
                            - AddedIn(upTo, Begins(table, k) - 1)
    BY <2>2 DEF HoldsDays
  <2>4. AddedIn(upTo, Begins(table, k + 1) - 1) = AddedIn(upTo, Ends(table, k))
    <3>1. CASE k = 4
      <4>1. Begins(table, 5) - 1 \in Int
        BY <2>1, BeginsAt
      <4>2. AddedIn(upTo, Begins(table, 5) - 1) = upTo[MaxTime]
        BY <2>1, <2>2, <4>1, AddedLast
      <4>3. AddedIn(upTo, MaxTime) = upTo[MaxTime]
        BY <2>1 DEF AddedIn, Least
      <4> QED
        BY <3>1, <4>2, <4>3 DEF Ends
    <3>2. CASE k # 4
      BY <3>2 DEF Ends
    <3> QED
      BY <3>1, <3>2
  <2> QED
    BY <2>3, <2>4 DEF AddedIn, AddedUpTo
<1> QED
  BY <1>1, HistoryInvariant, HistoryTypeCorrect, PTL

\* The history quota of handleCommitRequest holds for the entities with a period to live:
\* each one beyond it goes back to a commit whose count was not written, a tombstone that
\* was revived or a deletion that stays counted longer than its insert.
THEOREM HistoryQuotaIsHeld == Spec => []HistoryQuotaHeld
<1>1. HistoryInv => HistoryQuotaHeld
  BY DEF HistoryInv
<1> QED
  BY <1>1, HistoryInvariant, PTL
=============================================================================
