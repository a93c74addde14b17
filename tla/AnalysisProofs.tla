--------------------------- MODULE AnalysisProofs ----------------------------
(***************************************************************************)
(* The two summaries add up for boards of any size, days of any length and *)
(* servers in any zone.                                                    *)
(***************************************************************************)
EXTENDS Analysis, FiniteSetTheorems, WellFoundedInduction, TLAPS

\* Every row is of the schema: an Insert is the only change.
THEOREM TypeCorrect == Spec => []TypeOK
<1>1. Init => TypeOK
  BY DEF Init, TypeOK
<1>2. TypeOK /\ [Next]_task => TypeOK'
  BY DEF TypeOK, Next, Insert
<1> QED
  BY <1>1, <1>2, PTL DEF Spec

LEMMA DisjointUnion ==
    ASSUME NEW S, IsFiniteSet(S), NEW T, IsFiniteSet(T), S \cap T = {}
    PROVE  /\ IsFiniteSet(S \cup T)
           /\ Cardinality(S \cup T) = Cardinality(S) + Cardinality(T)
<1>1. Cardinality(S) \in Nat /\ Cardinality(T) \in Nat
  BY FS_CardinalityType
<1>2. Cardinality(S \cap T) = 0
  BY FS_EmptySet
<1>3. /\ IsFiniteSet(S \cup T)
      /\ Cardinality(S \cup T) = Cardinality(S) + Cardinality(T) - Cardinality(S \cap T)
  BY FS_Union
<1> QED
  BY <1>1, <1>2, <1>3

-----------------------------------------------------------------------------
(* getBasicSummary *)

LEMMA RowsAreFinite ==
    /\ IsFiniteSet(Rows)
    /\ IsFiniteSet(findTasksByBoard)
    /\ \A s : IsFiniteSet({t \in findTasksByBoard : task[t].status = s})
<1>1. Rows \subseteq Tasks /\ findTasksByBoard \subseteq Tasks
  BY DEF Rows, findTasksByBoard
<1> QED
  BY <1>1, TasksAreFinite, FS_Subset

\* Each row of the board has one of the four statuses.
LEMMA CountsAddUp ==
    ASSUME TypeOK
    PROVE  /\ \A s \in Status : Count(s) \in Nat
           /\ Cardinality(findTasksByBoard) \in Nat
           /\ Cardinality(findTasksByBoard) =
                Count("TODO") + Count("IN_PROGRESS") + Count("DONE") + Count("ARCHIVED")
<1> DEFINE Of(s) == {t \in findTasksByBoard : task[t].status = s}
           A == Of("TODO") \cup Of("IN_PROGRESS")
           B == Of("DONE") \cup Of("ARCHIVED")
<1>1. \A s : IsFiniteSet(Of(s)) /\ Count(s) = Cardinality(Of(s))
  BY RowsAreFinite DEF Count
<1>2. \A t \in findTasksByBoard : task[t].status \in Status
  BY DEF findTasksByBoard, Rows, TypeOK, Row
<1>3. findTasksByBoard = A \cup B
  BY <1>2 DEF Status
<1>4. /\ Of("TODO") \cap Of("IN_PROGRESS") = {}
      /\ Of("DONE") \cap Of("ARCHIVED") = {}
      /\ A \cap B = {}
  OBVIOUS
<1> HIDE DEF Of
<1>5. /\ IsFiniteSet(A)
      /\ Cardinality(A) = Count("TODO") + Count("IN_PROGRESS")
  BY <1>1, <1>4, DisjointUnion
<1>6. /\ IsFiniteSet(B)
      /\ Cardinality(B) = Count("DONE") + Count("ARCHIVED")
  BY <1>1, <1>4, DisjointUnion
<1> HIDE DEF A, B
<1>7. Cardinality(findTasksByBoard) = Cardinality(A) + Cardinality(B)
  BY <1>3, <1>4, <1>5, <1>6, DisjointUnion
<1>8. \A s \in Status : Count(s) \in Nat
  BY <1>1, FS_CardinalityType
<1>9. Cardinality(findTasksByBoard) \in Nat
  BY RowsAreFinite, FS_CardinalityType
<1> QED
  BY <1>5, <1>6, <1>7, <1>8, <1>9 DEF Status

\* Math.round is off by half a hundredth at most.
LEMMA RoundingIsClose ==
    ASSUME NEW count \in Nat, NEW total \in Nat \ {0}
    PROVE  /\ Percentage(count, total) \in Nat
           /\ 2 * (total * Percentage(count, total)) <= 20000 * count + total
           /\ 20000 * count + total < 2 * (total * Percentage(count, total)) + 2 * total
<1> DEFINE a == 2 * 10000 * count + total
           d == 2 * total
           q == a \div d
<1>1. a \in Nat /\ d \in Nat \ {0} /\ a = 20000 * count + total
  OBVIOUS
<1>2. Percentage(count, total) = q
  BY DEF Percentage
<1>3. q \in Nat /\ d * q <= a /\ a < d * q + d
  <2> HIDE DEF a, d
  <2> QED
    BY <1>1
<1>4. d * q = 2 * (total * q)
  BY <1>3
<1> HIDE DEF q, a, d
<1>5. d = 2 * total
  BY DEF d
<1> QED
  BY <1>1, <1>2, <1>3, <1>4, <1>5

LEMMA SharesAddUp == TypeOK => PercentagesAddUp
<1> SUFFICES ASSUME TypeOK, Cardinality(findTasksByBoard) > 0
             PROVE  PercentagesAddUp
  BY DEF PercentagesAddUp, getBasicSummary
<1> DEFINE n == Cardinality(findTasksByBoard)
           Share(s) == Percentage(Count(s), n)
           sum == Share("TODO") + Share("IN_PROGRESS") + Share("DONE")
           rest == n - Count("ARCHIVED")
<1>1. n \in Nat \ {0} /\ \A s \in Status : Count(s) \in Nat
  BY CountsAddUp
<1>2. rest = Count("TODO") + Count("IN_PROGRESS") + Count("DONE")
  BY <1>1, CountsAddUp DEF Status
<1>3. \A s \in Counted :
        /\ Share(s) \in Nat
        /\ 2 * (n * Share(s)) <= 20000 * Count(s) + n
        /\ 20000 * Count(s) + n < 2 * (n * Share(s)) + 2 * n
  <2> SUFFICES ASSUME NEW s \in Counted
               PROVE  /\ Share(s) \in Nat
                      /\ 2 * (n * Share(s)) <= 20000 * Count(s) + n
                      /\ 20000 * Count(s) + n < 2 * (n * Share(s)) + 2 * n
    OBVIOUS
  <2>1. Count(s) \in Nat
    BY <1>1 DEF Counted
  <2> HIDE DEF n
  <2> QED
    BY <1>1, <2>1, RoundingIsClose
<1> HIDE DEF n, Share
<1>4. /\ n * (sum - 1) = n * Share("TODO") + n * Share("IN_PROGRESS") + n * Share("DONE") - n
      /\ n * (sum + 1) = n * Share("TODO") + n * Share("IN_PROGRESS") + n * Share("DONE") + n
  BY <1>1, <1>3 DEF Counted, Status
<1>5. \A s \in Counted : n * Share(s) \in Nat
  BY <1>1, <1>3
<1>6. /\ 2 * (n * (sum - 1)) <= 20000 * rest + n
      /\ 2 * (n * (sum + 1)) >= 20000 * rest - n
  BY <1>1, <1>2, <1>3, <1>4, <1>5 DEF Counted, Status
<1>7. sum \in Nat /\ rest \in Int /\ n * (sum - 1) \in Int /\ n * (sum + 1) \in Int
  BY <1>1, <1>3 DEF Counted, Status
<1>8. ASSUME NEW x \in Int, NEW y \in Int
      PROVE  /\ 2 * x <= 20000 * y + n => x <= 10000 * y + n \div 2
             /\ 2 * x >= 20000 * y - n => x >= 10000 * y - n \div 2
  BY <1>1
<1>9. /\ n * (sum - 1) <= 10000 * rest + n \div 2
      /\ n * (sum + 1) >= 10000 * rest - n \div 2
  BY <1>6, <1>7, <1>8
<1>10. /\ getBasicSummary.total = n
       /\ \A s \in Counted : getBasicSummary.statusCounts[s].percentage = Share(s)
  BY DEF getBasicSummary, n, Share
<1> QED
  BY <1>9, <1>10 DEF PercentagesAddUp, Counted, Status

\* The percentages of any board add up to the share of its live rows, but for
\* a hundredth and a half.
THEOREM PercentagesAlwaysAddUp == Spec => []PercentagesAddUp
<1> QED
  BY TypeCorrect, SharesAddUp, PTL

-----------------------------------------------------------------------------
(* getCompletedTasksSummary *)

\* The end of the day a zone's clock is in never comes after that of UTC's
\* midnight, and on UTC it comes with it.
LEMMA DayEnds ==
    ASSUME NEW t \in Int, t % Hours = 0, NEW zone \in Int
    PROVE  /\ endOfDay(t, zone) \in Int
           /\ endOfDay(t, zone) < t + Hours
           /\ zone = 0 => endOfDay(t, zone) = t + Hours - 1
<1> DEFINE q == (t + zone) \div Hours
           m == (t + zone) % Hours
<1>1. q \in Int /\ m \in 0..(Hours - 1) /\ t + zone = Hours * q + m
  BY HoursArePositive
<1>2. endOfDay(t, zone) = Hours * (q + 1) - 1 - zone
  BY DEF endOfDay
<1>3. Hours * (q + 1) = Hours * q + Hours
  BY <1>1, HoursArePositive
<1>4. zone = 0 => m = 0
  OBVIOUS
<1> HIDE DEF q, m
<1> QED
  BY <1>1, <1>2, <1>3, <1>4, HoursArePositive

LEMMA TotalIsTheNumberFound ==
    ASSUME NEW u, NEW from, NEW to, NEW zone
    PROVE  getCompletedTasksSummary(u, from, to, zone).total =
             Cardinality(findCompletedTasks(u, from, endOfDay(to, zone)))
BY DEF getCompletedTasksSummary

\* A task completed in one of two adjacent periods is not completed in the
\* other, and is completed in the joint period.
LEMMA PeriodsAddUp == AdjacentPeriodsAddUp
<1> SUFFICES ASSUME NEW zone \in Zones,
                    NEW from \in Time, NEW to \in Time, NEW end \in Time,
                    from % Hours = 0, to % Hours = 0, end % Hours = 0,
                    from <= to, to < end
             PROVE  LET Total(a, b) == getCompletedTasksSummary(Null, a, b, zone).total
                        parts == Total(from, to) + Total(to + Hours, end)
                    IN  /\ parts <= Total(from, end)
                        /\ zone = 0 => parts = Total(from, end)
  BY DEF AdjacentPeriodsAddUp
<1> DEFINE Found(a, b) == findCompletedTasks(Null, a, endOfDay(b, zone))
           A == Found(from, to)
           B == Found(to + Hours, end)
           C == Found(from, end)
<1>1. /\ zone \in Int /\ Hours \in Nat \ {0}
      /\ from \in Int /\ to \in Int /\ end \in Int
  BY ZonesAreIntegers, HoursArePositive, HorizonIsNatural DEF Time
<1>2. /\ endOfDay(to, zone) \in Int /\ endOfDay(to, zone) < to + Hours
      /\ zone = 0 => endOfDay(to, zone) = to + Hours - 1
      /\ endOfDay(end, zone) \in Int
  BY <1>1, DayEnds
<1>3. endOfDay(to, zone) <= endOfDay(end, zone)
  <2>1. (to + zone) \div Hours <= (end + zone) \div Hours
    BY <1>1
  <2> QED
    BY <1>1, <2>1 DEF endOfDay
<1>4. \A t, a, b : t \in findCompletedTasks(Null, a, b) <=>
        t \in Rows /\ task[t].status = "DONE" /\ task[t].completedAt \in a..b
  BY DEF findCompletedTasks
<1>5. A \cap B = {}
  <2> SUFFICES ASSUME NEW t, t \in A, t \in B PROVE FALSE
    OBVIOUS
  <2>1. task[t].completedAt \in from..endOfDay(to, zone)
        /\ task[t].completedAt \in (to + Hours)..endOfDay(end, zone)
    BY <1>4
  <2> QED
    BY <1>1, <1>2, <2>1
<1>6. A \cup B \subseteq C
  <2> SUFFICES ASSUME NEW t, t \in A \cup B PROVE t \in C
    OBVIOUS
  <2>1. t \in Rows /\ task[t].status = "DONE"
        /\ \/ task[t].completedAt \in from..endOfDay(to, zone)
           \/ task[t].completedAt \in (to + Hours)..endOfDay(end, zone)
    BY <1>4
  <2>2. task[t].completedAt \in from..endOfDay(end, zone)
    BY <1>1, <1>2, <1>3, <2>1
  <2> QED
    BY <1>4, <2>1, <2>2
<1>7. zone = 0 => C \subseteq A \cup B
  <2> SUFFICES ASSUME zone = 0, NEW t, t \in C PROVE t \in A \cup B
    OBVIOUS
  <2>1. t \in Rows /\ task[t].status = "DONE"
        /\ task[t].completedAt \in from..endOfDay(end, zone)
    BY <1>4
  <2>2. \/ task[t].completedAt \in from..endOfDay(to, zone)
        \/ task[t].completedAt \in (to + Hours)..endOfDay(end, zone)
    BY <1>1, <1>2, <2>1
  <2> QED
    BY <1>4, <2>1, <2>2
<1>8. IsFiniteSet(A) /\ IsFiniteSet(B) /\ IsFiniteSet(C)
  <2>1. A \subseteq Rows /\ B \subseteq Rows /\ C \subseteq Rows
    BY DEF findCompletedTasks
  <2> QED
    BY <2>1, RowsAreFinite, FS_Subset
<1> HIDE DEF A, B, C
<1>9. Cardinality(A \cup B) = Cardinality(A) + Cardinality(B)
  BY <1>5, <1>8, DisjointUnion
<1>10. Cardinality(A \cup B) <= Cardinality(C)
  BY <1>6, <1>8, FS_Subset
<1>11. zone = 0 => A \cup B = C
  BY <1>6, <1>7
<1>12. /\ getCompletedTasksSummary(Null, from, to, zone).total = Cardinality(A)
       /\ getCompletedTasksSummary(Null, to + Hours, end, zone).total = Cardinality(B)
       /\ getCompletedTasksSummary(Null, from, end, zone).total = Cardinality(C)
  BY TotalIsTheNumberFound DEF A, B, C
<1> QED
  BY <1>9, <1>10, <1>11, <1>12

\* Adjacent periods count no task twice, whatever clock the server goes by and
\* however many hours its day has; on UTC they miss none.
THEOREM AdjacentPeriodsAlwaysAddUp == Spec => []AdjacentPeriodsAddUp
<1> QED
  BY PeriodsAddUp, PTL

-----------------------------------------------------------------------------
(* Folds over sets *)

\* The element that a fold of FiniteSetsExt takes first.
PickOf(s) == CHOOSE x \in s : TRUE

\* What holds of the empty set, and of a set when it holds without its first
\* element, holds of every finite set: good is the set of those it holds of.
LEMMA SubsetsAreReached ==
    ASSUME NEW S, IsFiniteSet(S), NEW good, {} \in good,
           \A s \in SUBSET S : s # {} /\ s \ {PickOf(s)} \in good => s \in good
    PROVE  SUBSET S \subseteq good
<1> DEFINE bad == {s \in SUBSET S : s \notin good}
           subsets == FiniteSubsetsOf(S)
           order == StrictSubsetOrdering(S)
<1>1. subsets = SUBSET S
  BY FS_Subset DEF FiniteSubsetsOf
<1>2. IsWellFoundedOn(order, subsets)
  BY FS_StrictSubsetOrderingWellFounded
<1>3. SUFFICES ASSUME bad # {} PROVE FALSE
  OBVIOUS
<1>4. PICK s \in bad : \A r \in bad : <<r, s>> \notin order
  <2>1. bad \subseteq subsets
    BY <1>1
  <2> HIDE DEF bad, subsets, order
  <2> QED
    BY <1>2, <1>3, <2>1, WFMin
<1>5. s # {} /\ s \in SUBSET S
  OBVIOUS
<1>6. PickOf(s) \in s
  BY <1>5 DEF PickOf
<1>7. <<s \ {PickOf(s)}, s>> \in order
  BY <1>5, <1>6 DEF StrictSubsetOrdering
<1>8. s \ {PickOf(s)} \notin bad
  BY <1>4, <1>7
<1> QED
  BY <1>5, <1>8

\* A function with the value the recursion asks for, one element after the
\* other, is the only one.
LEMMA FoldsAgree ==
    ASSUME NEW S, IsFiniteSet(S), NEW f, NEW g, f[{}] = g[{}],
           \A s \in SUBSET S :
              s # {} /\ f[s \ {PickOf(s)}] = g[s \ {PickOf(s)}] => f[s] = g[s]
    PROVE  f[S] = g[S]
<1> DEFINE good == {s \in SUBSET S : f[s] = g[s]}
<1>1. {} \in good
  OBVIOUS
<1>2. \A s \in SUBSET S : s # {} /\ s \ {PickOf(s)} \in good => s \in good
  OBVIOUS
<1> HIDE DEF good
<1>3. SUBSET S \subseteq good
  BY <1>1, <1>2, SubsetsAreReached
<1> QED
  BY <1>3 DEF good

-----------------------------------------------------------------------------
(* The days of a summary *)

Day(t) == DateKey(task[t].completedAt)
On(S, d) == {t \in S : Day(t) = d}
Days(S) == {Day(t) : t \in S}
Counts(S) == [d \in Days(S) |-> Cardinality(On(S, d))]

\* One more task adds one to the count of its day.
LEMMA OneMoreIsCounted ==
    ASSUME NEW S, IsFiniteSet(S), NEW t, t \notin S
    PROVE  Counts(S \cup {t}) = CountTask(t, Counts(S))
<1> DEFINE d == Day(t)
<1>1. Days(S \cup {t}) = Days(S) \cup {d}
  BY DEF Days
<1>2. DOMAIN Counts(S) = Days(S) /\ \A k \in Days(S) : Counts(S)[k] = Cardinality(On(S, k))
  BY DEF Counts
<1>3. CountTask(t, Counts(S)) =
        [k \in Days(S) \cup {d} |->
           IF k # d THEN Counts(S)[k]
           ELSE IF d \in Days(S) THEN Counts(S)[d] + 1 ELSE 1]
  BY <1>2 DEF CountTask, Day
<1>4. ASSUME NEW k \in Days(S) \cup {d}
      PROVE  Cardinality(On(S \cup {t}, k)) =
               IF k # d THEN Counts(S)[k]
               ELSE IF d \in Days(S) THEN Counts(S)[d] + 1 ELSE 1
  <2>1. CASE k # d
    <3>1. On(S \cup {t}, k) = On(S, k)
      BY <2>1 DEF On
    <3> QED
      BY <1>2, <1>4, <2>1, <3>1
  <2>2. CASE k = d
    <3>1. On(S \cup {t}, d) = On(S, d) \cup {t} /\ t \notin On(S, d)
      BY DEF On
    <3>2. IsFiniteSet(On(S, d))
      <4>1. On(S, d) \in SUBSET S
        BY DEF On
      <4> QED
        BY <4>1, FS_Subset
    <3>3. Cardinality(On(S \cup {t}, d)) = Cardinality(On(S, d)) + 1
      BY <3>1, <3>2, FS_AddElement
    <3>4. CASE d \in Days(S)
      BY <1>2, <2>2, <3>3, <3>4
    <3>5. CASE d \notin Days(S)
      <4>1. On(S, d) = {}
        BY <3>5 DEF On, Days
      <4> QED
        BY <2>2, <3>3, <3>5, <4>1, FS_EmptySet
    <3> QED
      BY <3>4, <3>5
  <2> QED
    BY <2>1, <2>2
<1>5. Counts(S \cup {t}) = [k \in Days(S) \cup {d} |-> Cardinality(On(S \cup {t}, k))]
  BY <1>1 DEF Counts
<1> HIDE DEF d
<1> QED
  BY <1>3, <1>4, <1>5

\* The loop over the completed tasks counts those of each day.
LEMMA LoopCounts ==
    ASSUME NEW S, IsFiniteSet(S)
    PROVE  FoldSet(CountTask, << >>, S) = Counts(S)
<1> DEFINE Step(f, s) == IF s = {} THEN << >> ELSE CountTask(PickOf(s), f[s \ {PickOf(s)}])
           iter == CHOOSE f : f = [s \in SUBSET S |-> Step(f, s)]
           g == [s \in SUBSET S |-> Counts(s)]
<1>1. FoldSet(CountTask, << >>, S) = iter[S]
  BY DEF FoldSet, MapThenFoldSet, PickOf
<1>2. ASSUME NEW s \in SUBSET S, s # {}
      PROVE  Counts(s) = CountTask(PickOf(s), Counts(s \ {PickOf(s)}))
  <2>1. PickOf(s) \in s
    BY <1>2 DEF PickOf
  <2>2. (s \ {PickOf(s)}) \cup {PickOf(s)} = s
    BY <2>1
  <2>3. s \ {PickOf(s)} \in SUBSET S
    OBVIOUS
  <2>4. IsFiniteSet(s \ {PickOf(s)})
    BY <2>3, FS_Subset
  <2>5. Counts((s \ {PickOf(s)}) \cup {PickOf(s)}) = CountTask(PickOf(s), Counts(s \ {PickOf(s)}))
    BY <2>4, OneMoreIsCounted
  <2> QED
    BY <2>2, <2>5
<1>3. Counts({}) = << >>
  BY DEF Counts, Days
<1>4. \A s \in SUBSET S : g[s] = Step(g, s)
  BY <1>2, <1>3
<1>5. g = [s \in SUBSET S |-> Step(g, s)]
  BY <1>4
<1>6. iter = [s \in SUBSET S |-> Step(iter, s)]
  BY <1>5
<1> HIDE DEF g, iter
<1>7. iter[{}] = g[{}]
  BY <1>4, <1>6
<1>8. ASSUME NEW s \in SUBSET S, s # {}, iter[s \ {PickOf(s)}] = g[s \ {PickOf(s)}]
      PROVE  iter[s] = g[s]
  BY <1>4, <1>6, <1>8
<1>9. iter[S] = g[S]
  BY <1>7, <1>8, FoldsAgree
<1> QED
  BY <1>1, <1>9 DEF g

\* A finite set of integers has an ascending sequence, which has them all.
LEMMA AscendingIsSorted ==
    ASSUME NEW S \in SUBSET Int, IsFiniteSet(S)
    PROVE  /\ Ascending(S) \in [1..Cardinality(S) -> S]
           /\ \A i, j \in 1..Cardinality(S) : i < j => Ascending(S)[i] < Ascending(S)[j]
           /\ \A d \in S : \E i \in 1..Cardinality(S) : Ascending(S)[i] = d
<1> DEFINE n == Cardinality(S)
           Upto(x) == {y \in S : y <= x}
           rank == [x \in S |-> Cardinality(Upto(x))]
<1>1. n \in Nat /\ IsFiniteSet(1..n) /\ Cardinality(1..n) = n
  BY FS_CardinalityType, FS_Interval
<1>2. ASSUME NEW x \in S PROVE IsFiniteSet(Upto(x)) /\ rank[x] \in 1..n
  <2>1. Upto(x) \in SUBSET S /\ x \in Upto(x)
    OBVIOUS
  <2>2. IsFiniteSet(Upto(x)) /\ Cardinality(Upto(x)) <= n
    BY <2>1, FS_Subset
  <2>3. Cardinality(Upto(x)) \in Nat /\ Cardinality(Upto(x)) # 0
    BY <2>1, <2>2, FS_CardinalityType, FS_EmptySet
  <2> QED
    BY <1>1, <2>2, <2>3
<1>3. ASSUME NEW x \in S, NEW y \in S, x < y PROVE rank[x] < rank[y]
  <2>1. Upto(x) \in SUBSET Upto(y) /\ y \in Upto(y) /\ y \notin Upto(x)
    <3>1. x \in Int /\ y \in Int /\ \A z \in S : z \in Int
      OBVIOUS
    <3>2. \A z \in S : z <= x => z <= y
      BY <1>3, <3>1
    <3>3. y <= y /\ ~(y <= x)
      BY <1>3, <3>1
    <3> QED
      BY <3>2, <3>3
  <2>2. Cardinality(Upto(x)) <= Cardinality(Upto(y)) /\ Cardinality(Upto(x)) # Cardinality(Upto(y))
    <3>1. IsFiniteSet(Upto(y)) /\ Upto(x) # Upto(y)
      BY <1>2, <2>1
    <3> HIDE DEF Upto
    <3> QED
      BY <2>1, <3>1, FS_Subset
  <2>3. rank[x] \in Int /\ rank[y] \in Int /\ rank[x] <= rank[y] /\ rank[x] # rank[y]
    BY <1>2, <2>2
  <2> QED
    BY <2>3
<1>4. rank \in Surjection(S, 1..n)
  <2>1. rank \in Injection(S, 1..n)
    <3>1. rank \in [S -> 1..n]
      BY <1>2
    <3>2. \A x, y \in S : rank[x] = rank[y] => x = y
      <4> SUFFICES ASSUME NEW x \in S, NEW y \in S, x # y PROVE rank[x] # rank[y]
        OBVIOUS
      <4>1. rank[x] \in Int /\ rank[y] \in Int /\ (x < y \/ y < x)
        BY <1>2
      <4> HIDE DEF rank
      <4> QED
        BY <1>3, <4>1
    <3> HIDE DEF rank
    <3> QED
      BY <3>1, <3>2 DEF Injection, IsInjective
  <2> HIDE DEF rank
  <2> QED
    BY <1>1, <2>1, FS_Injection
<1> HIDE DEF rank
<1>5. \A i \in 1..n : \E x \in S : rank[x] = i
  BY <1>4 DEF Surjection
<1> DEFINE a == [i \in 1..n |-> CHOOSE x \in S : rank[x] = i]
<1>6. a \in [1..n -> S] /\ \A i \in 1..n : rank[a[i]] = i
  BY <1>5
<1> HIDE DEF a
<1>7. \A i, j \in 1..n : i < j => a[i] < a[j]
  <2> SUFFICES ASSUME NEW i \in 1..n, NEW j \in 1..n, i < j PROVE a[i] < a[j]
    OBVIOUS
  <2>1. a[i] \in S /\ a[j] \in S /\ a[i] \in Int /\ a[j] \in Int
    BY <1>6
  <2>2. ~(a[j] < a[i]) /\ a[i] # a[j]
    BY <1>1, <1>3, <1>6, <2>1
  <2> QED
    BY <2>1, <2>2
<1>8. /\ Ascending(S) \in [1..n -> S]
      /\ \A i, j \in 1..n : i < j => Ascending(S)[i] < Ascending(S)[j]
  BY <1>6, <1>7 DEF Ascending
<1>9. Ascending(S) \in Surjection(1..n, S)
  <2> DEFINE b == Ascending(S)
  <2>0. b \in [1..n -> S] /\ \A i, j \in 1..n : i < j => b[i] < b[j]
    BY <1>8
  <2> HIDE DEF b
  <2>1. \A i, j \in 1..n : b[i] = b[j] => i = j
    <3> SUFFICES ASSUME NEW i \in 1..n, NEW j \in 1..n, i # j PROVE b[i] # b[j]
      OBVIOUS
    <3>1. b[i] \in S /\ b[j] \in S
      BY <2>0
    <3>2. b[i] \in Int /\ b[j] \in Int
      BY <3>1
    <3>3. i < j \/ j < i
      BY <1>1
    <3>4. b[i] < b[j] \/ b[j] < b[i]
      BY <2>0, <3>3
    <3> QED
      BY <3>2, <3>4
  <2>2. b \in Injection(1..n, S)
    BY <2>0, <2>1 DEF Injection, IsInjective
  <2>3. b \in Surjection(1..n, S)
    BY <1>1, <2>2, FS_Injection
  <2> QED
    BY <2>3 DEF b
<1> QED
  BY <1>8, <1>9 DEF Surjection

\* The sum over the places of a summary counts the tasks of their days.
LEMMA SumCounts ==
    ASSUME NEW S, IsFiniteSet(S), NEW n \in Nat, NEW days \in [1..n -> Days(S)],
           \A i, j \in 1..n : days[i] = days[j] => i = j,
           \A d \in Days(S) : \E i \in 1..n : days[i] = d,
           NEW list, DOMAIN list = 1..n,
           \A i \in 1..n : list[i].count = Cardinality(On(S, days[i]))
    PROVE  SumOfCounts(list) = Cardinality(S)
<1> DEFINE I == 1..n
           Step(f, s) == IF s = {} THEN 0
                         ELSE list[PickOf(s)].count + f[s \ {PickOf(s)}]
           iter == CHOOSE f : f = [s \in SUBSET I |-> Step(f, s)]
           OnThose(s) == {t \in S : \E i \in s : Day(t) = days[i]}
           g == [s \in SUBSET I |-> Cardinality(OnThose(s))]
<1>1. SumOfCounts(list) = iter[I]
  BY DEF SumOfCounts, MapThenSumSet, MapThenFoldSet, PickOf
<1>2. IsFiniteSet(I)
  BY FS_Interval
<1>3. ASSUME NEW s \in SUBSET I, s # {}
      PROVE  Cardinality(OnThose(s)) =
               list[PickOf(s)].count + Cardinality(OnThose(s \ {PickOf(s)}))
  <2> DEFINE i == PickOf(s)
  <2>1. i \in s /\ i \in I
    BY <1>3 DEF PickOf
  <2> HIDE DEF i
  <2> DEFINE A == On(S, days[i])
             B == OnThose(s \ {i})
  <2>2. OnThose(s) = A \cup B
    BY <2>1 DEF On
  <2>3. A \cap B = {}
    BY <2>1 DEF On
  <2>4. IsFiniteSet(A) /\ IsFiniteSet(B)
    <3>1. A \in SUBSET S /\ B \in SUBSET S
      BY DEF On
    <3> QED
      BY <3>1, FS_Subset
  <2>5. list[i].count = Cardinality(A)
    BY <2>1
  <2> HIDE DEF A, B, OnThose
  <2>6. Cardinality(A \cup B) = Cardinality(A) + Cardinality(B)
    BY <2>3, <2>4, DisjointUnion
  <2> QED
    BY <2>2, <2>5, <2>6 DEF i, B
<1>4. Cardinality(OnThose({})) = 0
  <2>1. OnThose({}) = {}
    OBVIOUS
  <2> QED
    BY <2>1, FS_EmptySet
<1> HIDE DEF I, OnThose
<1>5. \A s \in SUBSET I : g[s] = Step(g, s)
  BY <1>3, <1>4
<1>6. g = [s \in SUBSET I |-> Step(g, s)]
  BY <1>5
<1>7. iter = [s \in SUBSET I |-> Step(iter, s)]
  BY <1>6
<1> HIDE DEF g, iter
<1>8. iter[{}] = g[{}]
  BY <1>5, <1>7
<1>9. ASSUME NEW s \in SUBSET I, s # {}, iter[s \ {PickOf(s)}] = g[s \ {PickOf(s)}]
      PROVE  iter[s] = g[s]
  <2>1. g[s] = Step(g, s) /\ iter[s] = Step(iter, s)
    BY <1>5, <1>7
  <2>2. Step(iter, s) = Step(g, s)
    BY <1>9
  <2> QED
    BY <2>1, <2>2
<1>10. iter[I] = g[I]
  BY <1>2, <1>8, <1>9, FoldsAgree
<1>11. OnThose(I) = S
  <2>1. \A t \in S : Day(t) \in Days(S)
    BY DEF Days
  <2> QED
    BY <2>1 DEF OnThose, I
<1> QED
  BY <1>1, <1>10, <1>11 DEF g

LEMMA DaysAddUp == DaysAddUpToTotal
<1> SUFFICES ASSUME NEW u \in Users \cup {Null}, NEW from \in Time, NEW to \in Time,
                    NEW zone \in Zones
             PROVE  LET summary == getCompletedTasksSummary(u, from, to, zone)
                        days == summary.dailyCounts
                    IN  /\ \A i, j \in DOMAIN days : i < j => days[i].date < days[j].date
                        /\ \A i \in DOMAIN days : days[i].count > 0
                        /\ summary.total = SumOfCounts(days)
  BY DEF DaysAddUpToTotal
<1> DEFINE S == findCompletedTasks(u, from, endOfDay(to, zone))
           n == Cardinality(Days(S))
           days == Ascending(Days(S))
           list == [i \in DOMAIN days |-> [date |-> days[i], count |-> Counts(S)[days[i]]]]
<1>1. IsFiniteSet(S) /\ Days(S) \in SUBSET Int
  <2>1. S \in SUBSET Tasks /\ \A t \in S : task[t].completedAt \in Int
    BY DEF findCompletedTasks, Rows
  <2>2. \A t \in S : Day(t) \in Int
    BY <2>1, HoursArePositive DEF Day, DateKey
  <2> QED
    BY <2>1, <2>2, TasksAreFinite, FS_Subset DEF Days
<1> HIDE DEF S
<1>2. DOMAIN Counts(S) = Days(S)
  BY DEF Counts
<1>3. getCompletedTasksSummary(u, from, to, zone) =
        [total |-> Cardinality(S), dailyCounts |-> list]
  <2>1. FoldSet(CountTask, << >>, S) = Counts(S)
    BY <1>1, LoopCounts
  <2> QED
    BY <1>2, <2>1 DEF getCompletedTasksSummary, S
<1>4. IsFiniteSet(Days(S)) /\ n \in Nat
  <2> DEFINE day == [t \in S |-> Day(t)]
  <2>1. day \in Surjection(S, Days(S))
    BY DEF Surjection, Days
  <2> HIDE DEF day
  <2> QED
    BY <1>1, <2>1, FS_Surjection, FS_CardinalityType
<1>5. /\ days \in [1..n -> Days(S)]
      /\ \A i, j \in 1..n : i < j => days[i] < days[j]
      /\ \A d \in Days(S) : \E i \in 1..n : days[i] = d
  BY <1>1, <1>4, AscendingIsSorted
<1> HIDE DEF n, days
<1>6. \A i, j \in 1..n : days[i] = days[j] => i = j
  <2> SUFFICES ASSUME NEW i \in 1..n, NEW j \in 1..n, i # j PROVE days[i] # days[j]
    OBVIOUS
  <2>1. days[i] \in Int /\ days[j] \in Int /\ (i < j \/ j < i)
    BY <1>1, <1>4, <1>5
  <2> QED
    BY <1>5, <2>1
<1>7. /\ DOMAIN list = 1..n
      /\ \A i \in 1..n : /\ list[i].date = days[i]
                         /\ list[i].count = Cardinality(On(S, days[i]))
  BY <1>5 DEF Counts
<1> HIDE DEF list
<1>8. ASSUME NEW i \in 1..n PROVE Cardinality(On(S, days[i])) > 0
  <2> DEFINE A == On(S, days[i])
  <2>1. A # {} /\ A \in SUBSET S
    BY <1>5, <1>8 DEF On, Days
  <2> HIDE DEF A
  <2>2. IsFiniteSet(A) /\ Cardinality(A) \in Nat /\ Cardinality(A) # 0
    BY <1>1, <2>1, FS_Subset, FS_CardinalityType, FS_EmptySet
  <2> QED
    BY <2>2 DEF A
<1>9. SumOfCounts(list) = Cardinality(S)
  BY <1>1, <1>4, <1>5, <1>6, <1>7, SumCounts
<1> QED
  BY <1>3, <1>5, <1>7, <1>8, <1>9

\* For boards of any size, every zone and any length of a day, the days of a
\* summary are in order and add up to its total
\* (AnalysisService.getCompletedTasksSummary).
THEOREM DaysAlwaysAddUp == Spec => []DaysAddUpToTotal
BY DaysAddUp, PTL

=============================================================================
