------------------------------ MODULE Analysis -------------------------------
(***************************************************************************)
(* The two summaries of AnalysisService, over the rows of one board.       *)
(*                                                                         *)
(* Each summary is computed from one query, so that nothing interleaves    *)
(* with it: what matters is the rows it may find.  Insert puts any row     *)
(* into the table, those with a completedAt that does not fit the status   *)
(* too, as overlapping updates leave them (BoardContent).  Times are       *)
(* counted in hours of UTC; percentages in hundredths of a percent, as the *)
(* code rounds them, with exact fractions for its floating point: the two  *)
(* agree for fewer than 160 rows.                                          *)
(***************************************************************************)
EXTENDS Integers, FiniteSets, FiniteSetsExt

CONSTANTS
    Tasks,     \* ids of rows
    Users,     \* assignees
    NoTask,    \* the absence of a row
    Null,      \* no assignee, no time
    Hours,     \* the hours of a day
    Horizon,   \* the last hour
    Zones      \* hours by which the server's clock may be ahead of UTC

ASSUME TasksAreFinite == IsFiniteSet(Tasks)
ASSUME HoursArePositive == Hours \in Nat \ {0}
ASSUME HorizonIsNatural == Horizon \in Nat
ASSUME ZonesAreIntegers == Zones \subseteq Int
ASSUME NullIsNothing == Null \notin Users \cup Int

VARIABLE task   \* task[t]: the row t, or NoTask

Time == 0..Horizon
Status == {"TODO", "IN_PROGRESS", "DONE", "ARCHIVED"}
Row == [status : Status, completedAt : Time \cup {Null},
        assignedToId : Users \cup {Null}, isArchived : BOOLEAN]

TypeOK == task \in [Tasks -> Row \cup {NoTask}]

Rows == {t \in Tasks : task[t] # NoTask}

-----------------------------------------------------------------------------
(* GET /analysis/:boardId *)

findTasksByBoard == {t \in Rows : ~task[t].isArchived}

\* ARCHIVED rows have no count of their own.
Counted == Status \ {"ARCHIVED"}

Count(s) == Cardinality({t \in findTasksByBoard : task[t].status = s})

\* Mutant: rounded to whole percents.
WholePercent(count, total) ==
    IF total = 0 THEN 0 ELSE 100 * ((2 * 100 * count + total) \div (2 * total))

\* Math.round of hundredths: halves go up.
Percentage(count, total) ==
    IF total = 0 THEN 0 ELSE (2 * 10000 * count + total) \div (2 * total)

getBasicSummary ==
    LET total == Cardinality(findTasksByBoard)
    IN  [total |-> total,
         statusCounts |-> [s \in Counted |->
             [count |-> Count(s), percentage |-> Percentage(Count(s), total)]]]

-----------------------------------------------------------------------------
(* GET /analysis/completed/:boardId *)

\* Mutant: the first hour of the next day.
NextMidnight(t, zone) == Hours * ((t + zone) \div Hours + 1) - zone

\* endOfDay of date-fns, by the server's clock.  A zone is a constant offset:
\* the days of 23 and 25 hours that daylight saving makes are left out.
endOfDay(t, zone) == Hours * ((t + zone) \div Hours + 1) - 1 - zone

\* toISOString().split('T')[0]: the day by UTC.
DateKey(t) == t \div Hours

findCompletedTasks(user, startDate, endDate) ==
    {t \in Rows : /\ task[t].status = "DONE"
                  /\ task[t].completedAt \in startDate..endDate
                  /\ user # Null => task[t].assignedToId = user}

\* Mutant: the first task of a day is not counted.
CountAfterFirst(t, map) ==
    LET d == DateKey(task[t].completedAt)
    IN  [k \in DOMAIN map \cup {d} |->
            IF k # d THEN map[k] ELSE IF d \in DOMAIN map THEN map[d] + 1 ELSE 0]

CountTask(t, map) ==
    LET d == DateKey(task[t].completedAt)
    IN  [k \in DOMAIN map \cup {d} |->
            IF k # d THEN map[k] ELSE IF d \in DOMAIN map THEN map[d] + 1 ELSE 1]

\* The sort of the days by their dates.
Ascending(S) ==
    CHOOSE s \in [1..Cardinality(S) -> S] :
        \A i, j \in 1..Cardinality(S) : i < j => s[i] < s[j]

\* A query with startDate after endDate is a bad request and has no answer.
getCompletedTasksSummary(user, startDate, endDate, zone) ==
    LET completed == findCompletedTasks(user, startDate, endOfDay(endDate, zone))
        map == FoldSet(CountTask, << >>, completed)
        days == Ascending(DOMAIN map)
    IN  [total |-> Cardinality(completed),
         dailyCounts |-> [i \in DOMAIN days |-> [date |-> days[i], count |-> map[days[i]]]]]

-----------------------------------------------------------------------------

Init == task = [t \in Tasks |-> NoTask]

Insert(t) ==
    /\ task[t] = NoTask
    /\ \E row \in Row : task' = [task EXCEPT ![t] = row]

Next == \E t \in Tasks : Insert(t)

Spec == Init /\ [][Next]_task

-----------------------------------------------------------------------------
(* Properties *)

\* The percentages of a board's statuses add up to the share of the rows that
\* are not ARCHIVED, but for what three roundings make: a hundredth of a
\* percent and a half.
PercentagesAddUp ==
    LET summary == getBasicSummary
        Share(s) == summary.statusCounts[s].percentage
        sum == Share("TODO") + Share("IN_PROGRESS") + Share("DONE")
        rest == summary.total - Count("ARCHIVED")
    IN  summary.total > 0 =>
            /\ summary.total * (sum - 1) <= 10000 * rest + summary.total \div 2
            /\ summary.total * (sum + 1) >= 10000 * rest - summary.total \div 2

SumOfCounts(days) == MapThenSumSet(LAMBDA i : days[i].count, DOMAIN days)

\* The days of a summary follow each other, each once and none without a task,
\* and their counts add up to the total, though the day is taken by UTC and the
\* period by the server's clock.
DaysAddUpToTotal ==
    \A u \in Users \cup {Null}, from, to \in Time, zone \in Zones :
        from <= to =>
            LET summary == getCompletedTasksSummary(u, from, to, zone)
                days == summary.dailyCounts
            IN  /\ \A i, j \in DOMAIN days : i < j => days[i].date < days[j].date
                /\ \A i \in DOMAIN days : days[i].count > 0
                /\ summary.total = SumOfCounts(days)

\* Periods asked for by dates, one after the other, count no task twice; by a
\* server on UTC they count each task of the joint period.  In a zone without
\* daylight saving, that is: where a day of 25 hours begins at midnight of UTC,
\* its last hour is in both periods.
AdjacentPeriodsAddUp ==
    \A zone \in Zones, from, to, end \in {t \in Time : t % Hours = 0} :
        from <= to /\ to < end =>
            LET Total(a, b) == getCompletedTasksSummary(Null, a, b, zone).total
                parts == Total(from, to) + Total(to + Hours, end)
            IN  /\ parts <= Total(from, end)
                /\ zone = 0 => parts = Total(from, end)

=============================================================================
