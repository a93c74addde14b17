------------------------- MODULE TaskSequencesProofs -------------------------
(***************************************************************************)
(* That the position fields of BoardContent stand for the sequences of     *)
(* TaskSequences, for any numbers of lists and tasks, when careful clients *)
(* are served one at a time and no request dies half-way.                  *)
(***************************************************************************)
EXTENDS BoardContentProofs, SequenceTheorems

-----------------------------------------------------------------------------
(* Sequences with an element taken out or put in *)

LEMMA RemovedAt ==
    ASSUME NEW S, NEW s \in Seq(S), NEW i \in 1..Len(s)
    PROVE  /\ Order!RemoveAt(s, i) \in Seq(S)
           /\ Len(Order!RemoveAt(s, i)) = Len(s) - 1
           /\ \A j \in 1..(Len(s) - 1) :
                 Order!RemoveAt(s, i)[j] = IF j < i THEN s[j] ELSE s[j + 1]
<1>. DEFINE front == SubSeq(s, 1, i - 1)
            back == SubSeq(s, i + 1, Len(s))
<1>1. Len(s) \in Nat
  OBVIOUS
<1>2. /\ front \in Seq(S) /\ Len(front) = i - 1
      /\ \A j \in 1..(i - 1) : front[j] = s[j]
  BY <1>1, SubSeqProperties
<1>3. /\ back \in Seq(S) /\ Len(back) = Len(s) - i
      /\ \A j \in 1..(Len(s) - i) : back[j] = s[j + i]
  BY <1>1, SubSeqProperties
<1>4. Order!RemoveAt(s, i) = front \o back
  BY DEF Order!RemoveAt
<1>. HIDE DEF front, back
<1>5. /\ front \o back \in Seq(S)
      /\ Len(front \o back) = Len(front) + Len(back)
      /\ \A j \in 1..(Len(front) + Len(back)) :
            (front \o back)[j] = IF j <= Len(front) THEN front[j]
                                 ELSE back[j - Len(front)]
  BY <1>2, <1>3, ConcatProperties
<1>6. ASSUME NEW j \in 1..(Len(s) - 1)
      PROVE  Order!RemoveAt(s, i)[j] = IF j < i THEN s[j] ELSE s[j + 1]
  <2>1. CASE j < i
    BY <1>1, <1>2, <1>3, <1>4, <1>5, <2>1
  <2>2. CASE j >= i
    <3>1. j - (i - 1) \in 1..(Len(s) - i) /\ (j - (i - 1)) + i = j + 1
      BY <1>1, <2>2
    <3>2. back[j - (i - 1)] = s[j + 1]
      BY <1>3, <3>1
    <3>. QED
      BY <1>1, <1>2, <1>3, <1>4, <1>5, <2>2, <3>2
  <2>. QED
    BY <1>1, <2>1, <2>2
<1>. QED
  BY <1>1, <1>2, <1>3, <1>4, <1>5, <1>6

LEMMA InsertedAt ==
    ASSUME NEW S, NEW s \in Seq(S), NEW i \in 1..(Len(s) + 1), NEW e \in S
    PROVE  /\ Order!InsertAt(s, i, e) \in Seq(S)
           /\ Len(Order!InsertAt(s, i, e)) = Len(s) + 1
           /\ \A j \in 1..(Len(s) + 1) :
                 Order!InsertAt(s, i, e)[j] = IF j < i THEN s[j]
                                              ELSE IF j = i THEN e
                                              ELSE s[j - 1]
<1>. DEFINE front == SubSeq(s, 1, i - 1)
            back == SubSeq(s, i, Len(s))
            middle == front \o <<e>>
<1>1. Len(s) \in Nat
  OBVIOUS
<1>2. /\ front \in Seq(S) /\ Len(front) = i - 1
      /\ \A j \in 1..(i - 1) : front[j] = s[j]
  BY <1>1, SubSeqProperties
<1>3. /\ back \in Seq(S) /\ Len(back) = Len(s) - i + 1
      /\ \A j \in 1..(Len(s) - i + 1) : back[j] = s[j + i - 1]
  BY <1>1, SubSeqProperties
<1>4. Order!InsertAt(s, i, e) = middle \o back
  BY DEF Order!InsertAt
<1>. HIDE DEF front, back
<1>5. /\ middle \in Seq(S) /\ Len(middle) = i
      /\ \A j \in 1..i : middle[j] = IF j < i THEN s[j] ELSE e
  <2>1. <<e>> \in Seq(S) /\ Len(<<e>>) = 1 /\ <<e>>[1] = e
    OBVIOUS
  <2>. QED
    BY <1>1, <1>2, <2>1, ConcatProperties
<1>. HIDE DEF middle
<1>6. /\ middle \o back \in Seq(S) /\ Len(middle \o back) = Len(s) + 1
      /\ \A j \in 1..(Len(s) + 1) :
            (middle \o back)[j] = IF j <= i THEN middle[j] ELSE back[j - i]
  <2>1. /\ middle \o back \in Seq(S)
        /\ Len(middle \o back) = Len(middle) + Len(back)
        /\ \A j \in 1..(Len(middle) + Len(back)) :
              (middle \o back)[j] = IF j <= Len(middle) THEN middle[j]
                                    ELSE back[j - Len(middle)]
    BY <1>3, <1>5, ConcatProperties
  <2>2. Len(middle) + Len(back) = Len(s) + 1
    BY <1>1, <1>3, <1>5
  <2>. QED
    BY <1>5, <2>1, <2>2
<1>7. ASSUME NEW j \in 1..(Len(s) + 1)
      PROVE  Order!InsertAt(s, i, e)[j] = IF j < i THEN s[j]
                                          ELSE IF j = i THEN e ELSE s[j - 1]
  <2>1. CASE j <= i
    BY <1>1, <1>4, <1>5, <1>6, <2>1
  <2>2. CASE j > i
    <3>1. j - i \in 1..(Len(s) - i + 1) /\ (j - i) + i - 1 = j - 1
      BY <1>1, <2>2
    <3>2. back[j - i] = s[j - 1]
      BY <1>3, <3>1
    <3>. QED
      BY <1>1, <1>4, <1>6, <2>2, <3>2
  <2>. QED
    BY <1>1, <2>1, <2>2
<1>. QED
  BY <1>4, <1>6, <1>7

-----------------------------------------------------------------------------
(* Sequences of tasks and their places *)

\* s lists the tasks of S, each one behind as many others as place says.
Ranked(S, place, s) ==
    /\ s \in Seq(S)
    /\ \A i \in 1..Len(s) : place[s[i]] = i - 1
    /\ \A t \in S : place[t] \in Nat /\ place[t] < Len(s) /\ s[place[t] + 1] = t

LEMMA RankedIsCounted ==
    ASSUME NEW S, NEW place, NEW s, Ranked(S, place, s)
    PROVE  IsFiniteSet(S) /\ Cardinality(S) = Len(s)
<1>1. s \in [1..Len(s) -> S] /\ Len(s) \in Nat
  BY DEF Ranked
<1>2. s \in Bijection(1..Len(s), S)
  <2>1. \A i, j \in 1..Len(s) : s[i] = s[j] => i = j
    BY <1>1 DEF Ranked
  <2>2. \A t \in S : \E i \in 1..Len(s) : s[i] = t
    <3>. TAKE t \in S
    <3>1. place[t] + 1 \in 1..Len(s) /\ s[place[t] + 1] = t
      BY <1>1 DEF Ranked
    <3>. QED
      BY <3>1
  <2>. QED
    BY <1>1, <2>1, <2>2 DEF Bijection, Injection, Surjection, IsInjective
<1>3. ExistsBijection(1..Len(s), S)
  BY <1>2 DEF ExistsBijection
<1>. QED
  BY <1>1, <1>3, FS_CountingElements, FS_NatBijection

LEMMA RankedOnce ==
    ASSUME NEW S, NEW place, NEW s, NEW other,
           Ranked(S, place, s), Ranked(S, place, other)
    PROVE  s = other
<1>1. Len(s) = Len(other)
  BY RankedIsCounted
<1>2. s \in Seq(S) /\ other \in Seq(S)
  BY DEF Ranked
<1>3. ASSUME NEW i \in 1..Len(s) PROVE s[i] = other[i]
  <2>1. other[i] \in S
    BY <1>1, <1>2, <1>3
  <2>2. place[other[i]] = i - 1 /\ s[place[other[i]] + 1] = other[i]
    BY <1>1, <1>3, <2>1 DEF Ranked
  <2>. QED
    BY <2>2
<1>. QED
  BY <1>1, <1>2, <1>3, SeqEqual

LEMMA RankedEmpty == ASSUME NEW place PROVE Ranked({}, place, <<>>)
BY DEF Ranked

LEMMA RankedElsewhere ==
    ASSUME NEW S, NEW place, NEW other, NEW s, Ranked(S, place, s),
           \A t \in S : other[t] = place[t]
    PROVE  Ranked(S, other, s)
<1>1. \A i \in 1..Len(s) : s[i] \in S
  BY DEF Ranked
<1>. QED
  BY <1>1 DEF Ranked

LEMMA RankedAppended ==
    ASSUME NEW S, NEW place, NEW after, NEW s, Ranked(S, place, s),
           NEW t, t \notin S, after[t] = Len(s),
           \A u \in S : after[u] = place[u]
    PROVE  Ranked(S \cup {t}, after, Append(s, t))
<1>1. s \in Seq(S \cup {t}) /\ Len(s) \in Nat
  BY DEF Ranked
<1>2. /\ Append(s, t) \in Seq(S \cup {t}) /\ Len(Append(s, t)) = Len(s) + 1
      /\ \A i \in 1..Len(s) : Append(s, t)[i] = s[i]
      /\ Append(s, t)[Len(s) + 1] = t
  BY <1>1, AppendProperties
<1>3. \A i \in 1..Len(s) : s[i] \in S /\ place[s[i]] = i - 1
  BY DEF Ranked
<1>4. ASSUME NEW i \in 1..(Len(s) + 1) PROVE after[Append(s, t)[i]] = i - 1
  BY <1>1, <1>2, <1>3, <1>4
<1>5. ASSUME NEW u \in S \cup {t}
      PROVE  after[u] \in Nat /\ after[u] < Len(s) + 1 /\ Append(s, t)[after[u] + 1] = u
  <2>1. CASE u = t
    BY <1>1, <1>2, <2>1
  <2>2. CASE u \in S
    <3>1. after[u] \in Nat /\ after[u] < Len(s) /\ s[after[u] + 1] = u
      BY <2>2 DEF Ranked
    <3>. QED
      BY <1>1, <1>2, <3>1
  <2>. QED
    BY <2>1, <2>2
<1>. QED
  BY <1>2, <1>4, <1>5 DEF Ranked

\* Closing the gap behind the place of t takes t out of the sequence.
LEMMA RankedRemoved ==
    ASSUME NEW S, NEW place, NEW after, NEW s, Ranked(S, place, s), NEW t \in S,
           \A u \in S \ {t} : after[u] = IF place[u] > place[t] THEN place[u] - 1
                                         ELSE place[u]
    PROVE  Ranked(S \ {t}, after, Order!RemoveAt(s, place[t] + 1))
<1>. DEFINE i == place[t] + 1
            w == Order!RemoveAt(s, i)
<1>1. /\ s \in Seq(S) /\ Len(s) \in Nat /\ i \in 1..Len(s) /\ s[i] = t
      /\ place[t] \in Nat /\ place[t] = i - 1
  BY DEF Ranked
<1>2. /\ w \in Seq(S) /\ Len(w) = Len(s) - 1
      /\ \A j \in 1..(Len(s) - 1) : w[j] = IF j < i THEN s[j] ELSE s[j + 1]
  BY <1>1, RemovedAt
<1>3. \A j \in 1..Len(s) : s[j] \in S /\ place[s[j]] = j - 1
  BY DEF Ranked
<1>. HIDE DEF i, w
<1>4. ASSUME NEW j \in 1..Len(w) PROVE w[j] \in S \ {t} /\ after[w[j]] = j - 1
  <2>1. CASE j < i
    <3>1. w[j] = s[j] /\ s[j] \in S /\ place[s[j]] = j - 1
      BY <1>1, <1>2, <1>3, <1>4, <2>1
    <3>2. s[j] # t /\ ~(place[s[j]] > place[t])
      BY <1>1, <2>1, <3>1
    <3>. QED
      BY <3>1, <3>2
  <2>2. CASE j >= i
    <3>1. w[j] = s[j + 1] /\ s[j + 1] \in S /\ place[s[j + 1]] = j
      BY <1>1, <1>2, <1>3, <1>4, <2>2
    <3>2. s[j + 1] # t /\ place[s[j + 1]] > place[t]
      BY <1>1, <2>2, <3>1
    <3>. QED
      BY <3>1, <3>2
  <2>. QED
    BY <1>1, <2>1, <2>2
<1>5. ASSUME NEW u \in S \ {t}
      PROVE  after[u] \in Nat /\ after[u] < Len(w) /\ w[after[u] + 1] = u
  <2>1. place[u] \in Nat /\ place[u] < Len(s) /\ s[place[u] + 1] = u
    BY <1>5 DEF Ranked
  <2>2. place[u] # place[t]
    BY <1>1, <1>5, <2>1
  <2>3. CASE place[u] > place[t]
    <3>1. after[u] = place[u] - 1
      BY <1>5, <2>3
    <3>. QED
      BY <1>1, <1>2, <2>1, <2>3, <3>1
  <2>4. CASE place[u] < place[t]
    <3>1. after[u] = place[u]
      BY <1>1, <1>5, <2>1, <2>4
    <3>2. after[u] + 1 \in 1..(Len(s) - 1) /\ after[u] + 1 < i
      BY <1>1, <2>1, <2>4, <3>1
    <3>3. w[after[u] + 1] = s[after[u] + 1]
      BY <1>2, <3>2
    <3>. QED
      BY <1>1, <1>2, <2>1, <3>1, <3>2, <3>3
  <2>. QED
    BY <1>1, <2>1, <2>2, <2>3, <2>4
<1>6. w \in Seq(S \ {t})
  BY <1>2, <1>4
<1>. QED
  BY <1>4, <1>5, <1>6 DEF Ranked, w, i

\* Making room at a place and standing there puts t into the sequence.
LEMMA RankedInserted ==
    ASSUME NEW S, NEW place, NEW after, NEW s, Ranked(S, place, s),
           NEW t, t \notin S, NEW i \in 1..(Len(s) + 1), after[t] = i - 1,
           \A u \in S : after[u] = IF place[u] >= i - 1 THEN place[u] + 1
                                   ELSE place[u]
    PROVE  Ranked(S \cup {t}, after, Order!InsertAt(s, i, t))
<1>. DEFINE w == Order!InsertAt(s, i, t)
<1>1. s \in Seq(S \cup {t}) /\ Len(s) \in Nat
  BY DEF Ranked
<1>2. /\ w \in Seq(S \cup {t}) /\ Len(w) = Len(s) + 1
      /\ \A j \in 1..(Len(s) + 1) : w[j] = IF j < i THEN s[j]
                                           ELSE IF j = i THEN t ELSE s[j - 1]
  <2>. DEFINE T == S \cup {t}
  <2>1. s \in Seq(T) /\ t \in T
    BY <1>1
  <2>. HIDE DEF T
  <2>2. /\ w \in Seq(T) /\ Len(w) = Len(s) + 1
        /\ \A j \in 1..(Len(s) + 1) : w[j] = IF j < i THEN s[j]
                                             ELSE IF j = i THEN t ELSE s[j - 1]
    BY <2>1, InsertedAt
  <2>. QED
    BY <2>2 DEF T
<1>3. \A j \in 1..Len(s) : s[j] \in S /\ place[s[j]] = j - 1
  BY DEF Ranked
<1>. HIDE DEF w
<1>4. ASSUME NEW j \in 1..Len(w) PROVE after[w[j]] = j - 1
  <2>1. CASE j < i
    <3>1. w[j] = s[j] /\ s[j] \in S /\ place[s[j]] = j - 1
      BY <1>1, <1>2, <1>3, <1>4, <2>1
    <3>. QED
      BY <1>1, <2>1, <3>1
  <2>2. CASE j = i
    <3>1. w[j] = t
      BY <1>1, <1>2, <1>4, <2>2
    <3>. QED
      BY <2>2, <3>1
  <2>3. CASE j > i
    <3>1. w[j] = s[j - 1] /\ s[j - 1] \in S /\ place[s[j - 1]] = j - 2
      BY <1>1, <1>2, <1>3, <1>4, <2>3
    <3>. QED
      BY <1>1, <2>3, <3>1
  <2>. QED
    BY <1>1, <2>1, <2>2, <2>3
<1>5. ASSUME NEW u \in S \cup {t}
      PROVE  after[u] \in Nat /\ after[u] < Len(w) /\ w[after[u] + 1] = u
  <2>1. CASE u = t
    BY <1>1, <1>2, <2>1
  <2>2. CASE u \in S
    <3>1. place[u] \in Nat /\ place[u] < Len(s) /\ s[place[u] + 1] = u
      BY <2>2 DEF Ranked
    <3>2. CASE place[u] >= i - 1
      <4>1. after[u] = place[u] + 1
        BY <2>2, <3>2
      <4>. QED
        BY <1>1, <1>2, <3>1, <3>2, <4>1
    <3>3. CASE place[u] < i - 1
      <4>1. after[u] = place[u]
        BY <1>1, <2>2, <3>1, <3>3
      <4>. QED
        BY <1>1, <1>2, <3>1, <3>3, <4>1
    <3>. QED
      BY <1>1, <3>1, <3>2, <3>3
  <2>. QED
    BY <2>1, <2>2
<1>. QED
  BY <1>2, <1>4, <1>5 DEF Ranked, w

-----------------------------------------------------------------------------
(* The sequence of a list *)

PlaceOf == [t \in Tasks |-> TaskPlace(t)]

\* The places of the n tasks of a list are 0 to n-1, each used once.
Formed == \A l \in Lists : Ranked(TasksOf(l), PlaceOf, InOrder(l))

LEMMA TasksOfLists ==
    ASSUME NEW l, NEW t \in TasksOf(l)
    PROVE  t \in Tasks /\ t \in LiveTasks /\ task[t] # Deleted /\ task[t].list = l
BY DEF TasksOf, LiveTasks

LEMMA InOrderIs ==
    \A l : \A s : Ranked(TasksOf(l), PlaceOf, s) => InOrder(l) = s
<1>. SUFFICES ASSUME NEW l, NEW s, Ranked(TasksOf(l), PlaceOf, s)
              PROVE  InOrder(l) = s
  OBVIOUS
<1>1. Cardinality(TasksOf(l)) = Len(s)
  BY RankedIsCounted
<1>2. s \in Seq(TasksOf(l)) /\ Len(s) \in Nat
  BY DEF Ranked
<1>3. ASSUME NEW i \in 1..Len(s) PROVE TaskAt(l, i - 1) = s[i]
  <2>1. \A t \in TasksOf(l) : TaskPlace(t) = PlaceOf[t]
    BY TasksOfLists DEF PlaceOf
  <2>2. s[i] \in TasksOf(l) /\ TaskPlace(s[i]) = i - 1
    BY <1>2, <1>3, <2>1 DEF Ranked
  <2>3. ASSUME NEW t \in TasksOf(l), TaskPlace(t) = i - 1 PROVE t = s[i]
    <3>1. PlaceOf[t] = i - 1 /\ s[PlaceOf[t] + 1] = t
      BY <2>1, <2>3 DEF Ranked
    <3>. QED
      BY <1>2, <1>3, <3>1
  <2>. QED
    BY <2>2, <2>3 DEF TaskAt
<1>4. InOrder(l) = [i \in 1..Len(s) |-> s[i]]
  BY <1>1, <1>3 DEF InOrder
<1>. QED
  BY <1>2, <1>4

LEMMA InOrderIsNext ==
    (\A l : \A s : Ranked(TasksOf(l), PlaceOf, s) => InOrder(l) = s)'
BY InOrderIs, PTL

LEMMA FormedInitially ==
    Init => Formed /\ [l \in Lists |-> InOrder(l)] = [l \in Lists |-> <<>>]
<1>. SUFFICES ASSUME Init PROVE \A l \in Lists : Ranked(TasksOf(l), PlaceOf, <<>>)
  BY InOrderIs DEF Formed
<1>1. \A l \in Lists : TasksOf(l) = {}
  BY DEF Init, TasksOf, LiveTasks
<1>. QED
  BY <1>1, RankedEmpty

LEMMA FormedNext ==
    ASSUME NEW seqs, \A l \in Lists : Ranked(TasksOf(l)', PlaceOf', seqs[l])
    PROVE  /\ Formed'
           /\ [l \in Lists |-> InOrder(l)]' = [l \in Lists |-> seqs[l]]
<1>1. \A l \in Lists : InOrder(l)' = seqs[l]
  BY InOrderIsNext
<1>. QED
  BY <1>1 DEF Formed

\* The task is in the sequence of its list, and there where its place says.
LEMMA HeldInItsList ==
    ASSUME Formed, NEW k \in Lists, NEW t \in TasksOf(k)
    PROVE  /\ Order!Holding(t) = {k}
           /\ PlaceOf[t] + 1 \in 1..Len(InOrder(k))
           /\ Order!IndexOf(t, k) = PlaceOf[t] + 1
<1>1. \A l \in Lists : Ranked(TasksOf(l), PlaceOf, InOrder(l))
  BY DEF Formed
<1>2. \A l \in Lists : \A i \in 1..Len(InOrder(l)) : InOrder(l)[i] \in TasksOf(l)
  BY <1>1 DEF Ranked
<1>3. /\ PlaceOf[t] + 1 \in 1..Len(InOrder(k))
      /\ InOrder(k)[PlaceOf[t] + 1] = t
  BY <1>1 DEF Ranked
<1>4. ASSUME NEW i \in 1..Len(InOrder(k)), InOrder(k)[i] = t
      PROVE  i = PlaceOf[t] + 1
  <2>1. PlaceOf[t] = i - 1
    BY <1>1, <1>4 DEF Ranked
  <2>. QED
    BY <2>1
<1>5. ASSUME NEW l \in Lists, NEW i \in 1..Len(InOrder(l)), InOrder(l)[i] = t
      PROVE  l = k
  BY <1>2, <1>5, TasksOfLists
<1>6. Order!Holding(t) = {k}
  BY <1>3, <1>5 DEF Order!Holding, Order!Contains
<1>7. Order!IndexOf(t, k) = PlaceOf[t] + 1
  BY <1>3, <1>4 DEF Order!IndexOf
<1>. QED
  BY <1>3, <1>6, <1>7

LEMMA HeldNowhere ==
    ASSUME Formed, NEW t, t \notin LiveTasks
    PROVE  Order!Holding(t) = {}
<1>1. \A l \in Lists : \A i \in 1..Len(InOrder(l)) : InOrder(l)[i] \in TasksOf(l)
  BY DEF Formed, Ranked
<1>2. ASSUME NEW l \in Lists, NEW i \in 1..Len(InOrder(l)), InOrder(l)[i] = t
      PROVE  FALSE
  BY <1>1, <1>2, TasksOfLists
<1>. QED
  BY <1>2 DEF Order!Holding, Order!Contains

LEMMA WithoutIt ==
    ASSUME Formed, NEW k \in Lists, NEW t \in TasksOf(k)
    PROVE  Order!Without(t) =
             [l \in Lists |->
                IF l = k THEN Order!RemoveAt(InOrder(k), PlaceOf[t] + 1)
                ELSE InOrder(l)]
<1>1. Order!Holding(t) = {k} /\ Order!IndexOf(t, k) = PlaceOf[t] + 1
  BY HeldInItsList
<1>. QED
  BY <1>1 DEF Order!Without

-----------------------------------------------------------------------------
(* What a request knows of the tasks *)

TaskReads(q) ==
    /\ q.op = "createTask" =>
          q.task \in Tasks /\ q.task \notin LiveTasks /\ q.call # "findLists"
    /\ q.op = "createTask" /\ q.call = "write" =>
          q.new = Cardinality(TasksOf(q.list))
    /\ q.op = "updateTask" => q.target = NoList
    /\ q.op \in {"placeTask", "removeTask", "moveTask"} =>
          /\ q.task \in LiveTasks /\ q.list = task[q.task].list
          /\ q.old = task[q.task].position
    /\ q.op = "placeTask" => 0 <= q.new /\ q.new < Cardinality(TasksOf(q.list))
    /\ q.op = "moveTask" =>
          0 <= q.new /\ q.new < Cardinality(TasksOf(q.target) \cup {q.task})

TaskReadsAreCurrent == \A r \in Requests : TaskReads(req[r])

LEMMA TaskReadsInitially == Init => TaskReadsAreCurrent
BY DEF Init, TaskReadsAreCurrent, TaskReads, Idle

LEMMA SameTasks ==
    ASSUME UNCHANGED task
    PROVE  LiveTasks' = LiveTasks /\ \A l : TasksOf(l)' = TasksOf(l)
BY DEF LiveTasks, TasksOf

LEMMA TaskReadsKept ==
    ASSUME ContentInv, OneAtATime, NEW r \in Requests, NEW q, TaskReads(q),
           req'[r] = q, UNCHANGED task
    PROVE  TaskReadsAreCurrent'
<1>1. TaskReads(q)'
  BY SameTasks DEF TaskReads
<1>. QED
  BY <1>1 DEF OneAtATime, TaskReadsAreCurrent

LEMMA FinishedTaskReads ==
    ASSUME ContentInv, OneAtATime, NEW r \in Requests, Finish(r)
    PROVE  TaskReadsAreCurrent'
<1>1. req'[r] = Idle
  BY DEF Finish, ContentInv, TypeOK
<1>. QED
  BY <1>1 DEF OneAtATime, TaskReadsAreCurrent, TaskReads, Idle

\* The task rows stand, and the request knows what it has read of them.
Received(r) ==
    /\ TaskReadsAreCurrent' /\ UNCHANGED task
    /\ ~Placing(r, "placeTask") /\ ~Placing(r, "placeTask")'

LEMMA ReceivedTaskReads ==
    ASSUME ContentInv, OneAtATime, Careful, NEW r \in Requests,
           \/ RequestCreateTask(r) \/ RequestUpdateTask(r) \/ RequestPlaceTask(r)
           \/ RequestRemoveTask(r) \/ RequestMoveTask(r) \/ RequestCreateList(r)
           \/ RequestUpdateList(r) \/ RequestPlaceList(r) \/ RequestRemoveList(r)
    PROVE  Received(r)
<1>1. ASSUME NEW q, Start(r, q), TaskReads(q),
             q.op = "placeTask" => q.call = "findLists"
      PROVE  Received(r)
  <2>1. req[r] = Idle /\ req'[r] = q /\ UNCHANGED task
    BY <1>1 DEF Start, ContentInv, TypeOK
  <2>. QED
    BY <1>1, <2>1, TaskReadsKept DEF Received, Placing, Idle
<1>2. ASSUME NEW q, Start(r, q),
             q.op \in {"createList", "updateList", "placeList", "removeList"}
      PROVE  Received(r)
  BY <1>1, <1>2 DEF TaskReads
<1>3. CASE RequestCreateTask(r)
  <2>1. PICK l \in LiveLists, t \in FreshTasks, status \in Statuses :
          Start(r, [Idle EXCEPT !.op = "createTask", !.call = "countByList",
                                !.task = t, !.list = l, !.status = status])
    BY <1>3 DEF RequestCreateTask
  <2>. DEFINE q == [Idle EXCEPT !.op = "createTask", !.call = "countByList",
                                !.task = t, !.list = l, !.status = status]
  <2>2. q.op = "createTask" /\ q.call = "countByList" /\ q.task = t
    BY DEF Idle
  <2>. HIDE DEF q
  <2>3. TaskReads(q)
    BY <2>2 DEF TaskReads, FreshTasks
  <2>. QED
    BY <1>1, <2>1, <2>2, <2>3 DEF q
<1>4. CASE RequestUpdateTask(r)
  <2>1. PICK t \in LiveTasks, status \in Statuses \cup {Keep} :
          Start(r, [Idle EXCEPT
                      !.op = "updateTask", !.call = "write", !.task = t,
                      !.target = NoList, !.status = status,
                      !.completed = CompletedEdit(task[t].status, status)])
    BY <1>4 DEF RequestUpdateTask
  <2>. DEFINE q == [Idle EXCEPT
                      !.op = "updateTask", !.call = "write", !.task = t,
                      !.target = NoList, !.status = status,
                      !.completed = CompletedEdit(task[t].status, status)]
  <2>2. q.op = "updateTask" /\ q.target = NoList
    BY DEF Idle
  <2>. HIDE DEF q
  <2>3. TaskReads(q)
    BY <2>2 DEF TaskReads
  <2>. QED
    BY <1>1, <2>1, <2>2, <2>3 DEF q
<1>5. ASSUME NEW op \in {"placeTask", "removeTask", "moveTask"},
             NEW t \in LiveTasks, NEW target, NEW new,
             ReadTask(r, op, t, target, new),
             op = "placeTask" => 0 <= new /\ new < Cardinality(TasksOf(task[t].list)),
             op = "moveTask" =>
               0 <= new /\ new < Cardinality(TasksOf(target) \cup {t})
      PROVE  Received(r)
  <2>. DEFINE q == [Idle EXCEPT !.op = op, !.call = "findLists", !.task = t,
                                !.list = task[t].list, !.target = target,
                                !.old = task[t].position, !.new = new]
  <2>1. Start(r, q)
    BY <1>5 DEF ReadTask
  <2>2. /\ q.op = op /\ q.call = "findLists" /\ q.task = t /\ q.list = task[t].list
        /\ q.target = target /\ q.old = task[t].position /\ q.new = new
    BY DEF Idle
  <2>. HIDE DEF q
  <2>3. TaskReads(q)
    BY <1>5, <2>2 DEF TaskReads
  <2>. QED
    BY <1>1, <2>1, <2>2, <2>3
<1>6. CASE RequestPlaceTask(r)
  <2>1. PICK t \in LiveTasks : \E new \in Places(t, task[t].list) :
          ReadTask(r, "placeTask", t, NoList, new)
    BY <1>6 DEF RequestPlaceTask
  <2>2. TasksOf(task[t].list) \cup {t} = TasksOf(task[t].list)
    BY <2>1 DEF TasksOf
  <2>. QED
    BY <1>5, <2>1, <2>2 DEF Places
<1>7. CASE RequestRemoveTask(r)
  BY <1>5, <1>7 DEF RequestRemoveTask
<1>8. CASE RequestMoveTask(r)
  BY <1>5, <1>8 DEF RequestMoveTask, Places
<1>9. CASE RequestCreateList(r)
  <2>1. PICK l, new : Start(r, [Idle EXCEPT !.op = "createList", !.call = "write",
                                            !.list = l, !.new = new])
    BY <1>9 DEF RequestCreateList
  <2>. DEFINE q == [Idle EXCEPT !.op = "createList", !.call = "write",
                                !.list = l, !.new = new]
  <2>2. q.op = "createList"
    BY DEF Idle
  <2>. HIDE DEF q
  <2>. QED
    BY <1>2, <2>1, <2>2 DEF q
<1>10. CASE RequestUpdateList(r)
  BY <1>10 DEF RequestUpdateList
<1>11. CASE RequestPlaceList(r)
  <2>1. PICK l, new : Start(r, [Idle EXCEPT !.op = "placeList",
                        !.call = IF new = listAt[l] THEN "write" ELSE "shift",
                        !.list = l, !.old = listAt[l], !.new = new])
    BY <1>11 DEF RequestPlaceList
  <2>. DEFINE q == [Idle EXCEPT !.op = "placeList",
                        !.call = IF new = listAt[l] THEN "write" ELSE "shift",
                        !.list = l, !.old = listAt[l], !.new = new]
  <2>2. q.op = "placeList"
    BY DEF Idle
  <2>. HIDE DEF q
  <2>. QED
    BY <1>2, <2>1, <2>2 DEF q
<1>12. CASE RequestRemoveList(r)
  <2>1. PICK l : Start(r, [Idle EXCEPT !.op = "removeList", !.call = "write",
                                       !.list = l])
    BY <1>12 DEF RequestRemoveList
  <2>. DEFINE q == [Idle EXCEPT !.op = "removeList", !.call = "write", !.list = l]
  <2>2. q.op = "removeList"
    BY DEF Idle
  <2>. HIDE DEF q
  <2>. QED
    BY <1>2, <2>1, <2>2 DEF q
<1>. QED
  BY <1>3, <1>4, <1>6, <1>7, <1>8, <1>9, <1>10, <1>11, <1>12

\* A shift of tasks moves none of them to another list, and leaves the task
\* that is being placed where it was read.
LEMMA ShiftedTasks ==
    ASSUME ContentInv, TaskReadsAreCurrent, NEW r \in Requests, ShiftForTask(r)
    PROVE  /\ LiveTasks' = LiveTasks /\ \A l : TasksOf(l)' = TasksOf(l)
           /\ \A t \in LiveTasks :
                /\ task'[t].list = task[t].list
                /\ task'[t].position =
                     IF task[t].list = req[r].list
                     THEN Shifted(task[t].position, req[r].old, req[r].new)
                     ELSE task[t].position
<1>1. \A t \in LiveTasks : t \in Tasks /\ task[t] \in Task
  BY InvGivesRows, LiveRow DEF LiveTasks
<1>2. req[r].old \in Int /\ req[r].new \in Int
  BY RequestFields, NotBelowIsInt
<1>3. task' = [t \in Tasks |->
                 IF t \in TasksOf(req[r].list)
                 THEN [task[t] EXCEPT !.position = Shifted(@, req[r].old, req[r].new)]
                 ELSE task[t]]
  BY DEF ShiftForTask, ShiftTasks
<1>4. ASSUME NEW t \in LiveTasks
      PROVE  /\ task'[t] # Deleted /\ task'[t].list = task[t].list
             /\ task'[t].position = IF task[t].list = req[r].list
                                    THEN Shifted(task[t].position, req[r].old, req[r].new)
                                    ELSE task[t].position
  <2>. DEFINE p == Shifted(task[t].position, req[r].old, req[r].new)
  <2>1. task[t] \in Task /\ t \in Tasks /\ task[t] # Deleted
    BY <1>1 DEF LiveTasks
  <2>2. CASE t \in TasksOf(req[r].list)
    <3>1. task'[t] = [task[t] EXCEPT !.position = p] /\ p \in Int
      BY <1>2, <1>3, <2>1, <2>2 DEF Shifted, Task
    <3>. HIDE DEF p
    <3>2. task'[t] \in Task /\ task'[t].list = task[t].list /\ task'[t].position = p
      BY <2>1, <3>1 DEF Task
    <3>. QED
      BY <2>2, <3>2, DeletedIsNoTask, TasksOfLists DEF p
  <2>3. CASE t \notin TasksOf(req[r].list)
    BY <1>3, <2>1, <2>3 DEF TasksOf
  <2>. QED
    BY <2>2, <2>3
<1>5. \A t \in Tasks : t \notin LiveTasks => task'[t] = Deleted
  BY <1>3, TasksOfLists DEF LiveTasks
<1>6. LiveTasks' = LiveTasks
  BY <1>1, <1>4, <1>5 DEF LiveTasks
<1>7. \A l : TasksOf(l)' = TasksOf(l)
  BY <1>4, <1>6 DEF TasksOf
<1>. QED
  BY <1>4, <1>6, <1>7

LEMMA MidwayTaskReads ==
    ASSUME ContentInv, TaskReadsAreCurrent, OneAtATime, NEW r \in Requests, Midway(r)
    PROVE  TaskReadsAreCurrent'
<1>1. req \in [Requests -> Request] /\ req[r] \in Request /\ TaskReads(req[r])
  BY DEF ContentInv, TypeOK, TaskReadsAreCurrent
<1>2. CASE CountByList(r)
  <2>. DEFINE q == [req[r] EXCEPT !.call = "write",
                                  !.new = Cardinality(TasksOf(req[r].list))]
  <2>1. req'[r] = q /\ UNCHANGED task
    BY <1>1, <1>2 DEF CountByList
  <2>2. /\ q.op = "createTask" /\ q.task = req[r].task /\ q.list = req[r].list
        /\ q.call = "write" /\ q.new = Cardinality(TasksOf(req[r].list))
    BY <1>1, <1>2 DEF CountByList, At, Request
  <2>. HIDE DEF q
  <2>3. TaskReads(q)
    BY <1>1, <1>2, <2>2 DEF TaskReads, CountByList, At
  <2>. QED
    BY <2>1, <2>3, TaskReadsKept
<1>3. ASSUME NEW call, Continue(r, call)
      PROVE  /\ req'[r] = [req[r] EXCEPT !.call = call]
             /\ req'[r].op = req[r].op /\ req'[r].call = call
             /\ req'[r].task = req[r].task /\ req'[r].list = req[r].list
             /\ req'[r].target = req[r].target
             /\ req'[r].old = req[r].old /\ req'[r].new = req[r].new
  BY <1>1, <1>3 DEF Continue, Request
<1>4. CASE FindLists(r) /\ Finish(r)
  BY <1>4, FinishedTaskReads
<1>5. CASE (FindLists(r) /\ ~Finish(r)) \/ ShiftForList(r)
  <2>1. UNCHANGED task
    BY <1>5 DEF FindLists, ShiftForList
  <2>2. PICK call : Continue(r, call)
    BY <1>5 DEF FindLists, ShiftForList
  <2>3. req[r].op # "createTask"
    BY <1>1, <1>5 DEF FindLists, ShiftForList, At, TaskReads
  <2>4. PICK q : q = [req[r] EXCEPT !.call = call]
    OBVIOUS
  <2>5. /\ q.op = req[r].op /\ q.task = req[r].task /\ q.list = req[r].list
        /\ q.target = req[r].target /\ q.old = req[r].old /\ q.new = req[r].new
    BY <1>1, <2>4 DEF Request
  <2>6. TaskReads(q)
    BY <1>1, <2>3, <2>5 DEF TaskReads
  <2>7. req'[r] = q
    BY <1>3, <2>2, <2>4
  <2>. QED
    BY <2>1, <2>6, <2>7, TaskReadsKept
<1>6. CASE ShiftForTask(r)
  <2>1. /\ req[r].op = "placeTask" /\ Continue(r, "write")
        /\ req[r].task \in LiveTasks /\ req[r].list = task[req[r].task].list
        /\ req[r].old = task[req[r].task].position
    BY <1>1, <1>6 DEF ShiftForTask, At, TaskReads
  <2>2. /\ LiveTasks' = LiveTasks /\ \A l : TasksOf(l)' = TasksOf(l)
        /\ task'[req[r].task].list = req[r].list
        /\ task'[req[r].task].position = Shifted(req[r].old, req[r].old, req[r].new)
    BY <1>6, <2>1, ShiftedTasks
  <2>3. Shifted(req[r].old, req[r].old, req[r].new) = req[r].old
    <3>1. req[r].old \in Int /\ req[r].new \in Int
      BY RequestFields, NotBelowIsInt
    <3>. QED
      BY <3>1 DEF Shifted
  <2>4. /\ req'[r].op = "placeTask" /\ req'[r].task \in LiveTasks'
        /\ req'[r].list = task'[req'[r].task].list
        /\ req'[r].old = task'[req'[r].task].position
    BY <1>3, <2>1, <2>2, <2>3
  <2>5. PICK l : l = req[r].list
    OBVIOUS
  <2>6. /\ req'[r].list = l /\ 0 <= req'[r].new
        /\ req'[r].new < Cardinality(TasksOf(l)')
    BY <1>1, <1>3, <2>1, <2>2, <2>5 DEF TaskReads
  <2>7. (req[r].new < Cardinality(TasksOf(req[r].list)))'
    BY <2>6 DEF TasksOf
  <2>. QED
    BY <2>4, <2>6, <2>7 DEF OneAtATime, TaskReadsAreCurrent, TaskReads
<1>. QED
  BY <1>2, <1>4, <1>5, <1>6 DEF Midway

-----------------------------------------------------------------------------
(* Every step is one of the sequences, or none *)

LEMMA PlacesOfTasks ==
    ASSUME OneAtATime, NEW r \in Requests, NEW t \in Tasks
    PROVE  PlaceOf[t] = IF Placing(r, "placeTask") /\ req[r].task = t
                        THEN req[r].new ELSE task[t].position
<1>1. \A s \in Requests : s = r
  BY DEF OneAtATime
<1>2. PlaceOf[t] = TaskPlace(t)
  BY DEF PlaceOf
<1>3. CASE Placing(r, "placeTask") /\ req[r].task = t
  <2>. DEFINE q == CHOOSE q \in {req[s] : s \in Requests} : q.task = t
  <2>1. q \in {req[s] : s \in Requests}
    BY <1>3
  <2>2. q = req[r]
    BY <1>1, <2>1
  <2>. QED
    BY <1>2, <1>3, <2>2 DEF TaskPlace
<1>4. CASE ~(Placing(r, "placeTask") /\ req[r].task = t)
  BY <1>1, <1>2, <1>4 DEF TaskPlace
<1>. QED
  BY <1>3, <1>4

LEMMA PlacesOfTasksNext ==
    ASSUME OneAtATime, NEW r \in Requests, NEW t \in Tasks
    PROVE  PlaceOf'[t] = IF Placing(r, "placeTask")' /\ req'[r].task = t
                         THEN req'[r].new ELSE task'[t].position
<1>1. \A s \in Requests : s = r
  BY DEF OneAtATime
<1>2. PlaceOf'[t] = TaskPlace(t)'
  BY DEF PlaceOf
<1>3. CASE Placing(r, "placeTask")' /\ req'[r].task = t
  <2>. DEFINE q == CHOOSE q \in {req'[s] : s \in Requests} : q.task = t
  <2>1. q \in {req'[s] : s \in Requests}
    BY <1>3
  <2>2. q = req'[r]
    BY <1>1, <2>1
  <2>. QED
    BY <1>2, <1>3, <2>2 DEF TaskPlace
<1>4. CASE ~(Placing(r, "placeTask")' /\ req'[r].task = t)
  BY <1>1, <1>2, <1>4 DEF TaskPlace
<1>. QED
  BY <1>3, <1>4

\* What a request knows, and that its list and position are what they are.
LEMMA RowsAndReads ==
    ASSUME ContentInv, TaskReadsAreCurrent, NEW r \in Requests
    PROVE  /\ req[r] \in Request /\ TaskReads(req[r])
           /\ req[r].old \in Int /\ req[r].new \in Int
           /\ \A t \in LiveTasks :
                /\ t \in Tasks /\ task[t] \in Task /\ task[t].list \in Lists
                /\ task[t].position \in Int /\ t \in TasksOf(task[t].list)
<1>1. \A t \in LiveTasks : /\ t \in Tasks /\ task[t] \in Task
                           /\ task[t].position \in Int
  BY InvGivesRows, LiveRow DEF LiveTasks, Task
<1>. QED
  BY <1>1, RequestFields, NotBelowIsInt
  DEF ContentInv, TypeOK, TaskReadsAreCurrent, Task, TasksOf

LEMMA PlaceIsNatural ==
    ASSUME Formed, NEW l \in Lists, NEW t \in TasksOf(l)
    PROVE  PlaceOf[t] \in Nat
BY DEF Formed, Ranked

LEMMA QuietStep ==
    ASSUME Formed, \A l \in Lists : TasksOf(l)' = TasksOf(l),
           \A t \in LiveTasks : PlaceOf'[t] = PlaceOf[t]
    PROVE  Formed' /\ UNCHANGED [l \in Lists |-> InOrder(l)]
<1>. DEFINE seqs == [l \in Lists |-> InOrder(l)]
<1>1. ASSUME NEW l \in Lists PROVE Ranked(TasksOf(l)', PlaceOf', seqs[l])
  <2>1. Ranked(TasksOf(l), PlaceOf, seqs[l])
    BY DEF Formed
  <2>2. \A t \in TasksOf(l) : PlaceOf'[t] = PlaceOf[t]
    BY TasksOfLists
  <2>. HIDE DEF seqs
  <2>3. Ranked(TasksOf(l), PlaceOf', seqs[l])
    BY <2>1, <2>2, RankedElsewhere
  <2>. QED
    BY <2>3
<1>2. seqs = [l \in Lists |-> seqs[l]]
  OBVIOUS
<1>. HIDE DEF seqs
<1>3. Formed' /\ [l \in Lists |-> InOrder(l)]' = seqs
  BY <1>1, <1>2, FormedNext
<1>. QED
  BY <1>3 DEF seqs

LEMMA QuietTasks ==
    ASSUME Formed, OneAtATime, NEW r \in Requests, UNCHANGED task,
           ~Placing(r, "placeTask"), ~Placing(r, "placeTask")'
    PROVE  Formed' /\ UNCHANGED [l \in Lists |-> InOrder(l)]
<1>1. \A t \in LiveTasks : PlaceOf'[t] = PlaceOf[t]
  BY PlacesOfTasks, PlacesOfTasksNext DEF LiveTasks
<1>. QED
  BY <1>1, SameTasks, QuietStep

LEMMA FinishedPlacesNothing ==
    ASSUME ContentInv, NEW r \in Requests, Finish(r)
    PROVE  ~Placing(r, "placeTask")'
BY DEF Finish, ContentInv, TypeOK, Idle, Placing

\* A new task joins the end of its list.
LEMMA CreatedJoins ==
    ASSUME ContentInv, TaskReadsAreCurrent, Formed, OneAtATime, NEW r \in Requests,
           CreateTask(r), ~Refuse(r)
    PROVE  /\ Formed' /\ req[r].list \in Lists /\ req[r].task \in Tasks
           /\ Order!Add(req[r].list, req[r].task)
<1>. DEFINE k == req[r].list
            t == req[r].task
            seqs == [l \in Lists |-> IF l = k THEN Append(InOrder(k), t)
                                     ELSE InOrder(l)]
<1>1. /\ t \in Tasks /\ t \notin LiveTasks /\ k \in Lists
      /\ req[r].new = Cardinality(TasksOf(k))
      /\ task' = [task EXCEPT ![t] = [list |-> k, position |-> req[r].new,
                                      status |-> req[r].status,
                                      completed |-> req[r].status = "DONE"]]
      /\ Finish(r) /\ ~Placing(r, "placeTask")
  BY RowsAndReads DEF CreateTask, At, TaskReads, LiveLists, Placing
<1>2. /\ task'[t] # Deleted /\ task'[t].list = k /\ task'[t].position = req[r].new
      /\ \A u \in Tasks : u # t => task'[u] = task[u]
  <2>1. task \in [Tasks -> Task \cup {Deleted}] /\ req[r].status \in Status
    BY RowsAndReads DEF ContentInv, TypeOK, RequestsSound, Sound, CreateTask, At
  <2>2. [list |-> k, position |-> req[r].new, status |-> req[r].status,
         completed |-> req[r].status = "DONE"] \in Task
    BY <1>1, <2>1, RowsAndReads DEF Task
  <2>. QED
    BY <1>1, <2>1, <2>2, DeletedIsNoTask
<1>3. /\ \A l \in Lists : TasksOf(l)' = IF l = k THEN TasksOf(k) \cup {t}
                                        ELSE TasksOf(l)
      /\ t \notin TasksOf(k)
  BY <1>1, <1>2 DEF TasksOf, LiveTasks
<1>4. PlaceOf'[t] = req[r].new /\ \A u \in LiveTasks : PlaceOf'[u] = PlaceOf[u]
  BY <1>1, <1>2, PlacesOfTasks, PlacesOfTasksNext, FinishedPlacesNothing DEF LiveTasks
<1>5. \A l \in Lists : Ranked(TasksOf(l), PlaceOf, InOrder(l))
  BY DEF Formed
<1>6. PlaceOf'[t] = Len(InOrder(k))
  BY <1>1, <1>4, <1>5, RankedIsCounted
<1>. HIDE DEF k, t
<1>7. ASSUME NEW l \in Lists PROVE Ranked(TasksOf(l)', PlaceOf', seqs[l])
  <2>1. \A u \in TasksOf(l) : PlaceOf'[u] = PlaceOf[u]
    BY <1>4, TasksOfLists
  <2>2. CASE l = k
    <3>1. Ranked(TasksOf(k) \cup {t}, PlaceOf', Append(InOrder(k), t))
      BY <1>1, <1>3, <1>5, <1>6, <2>1, <2>2, RankedAppended
    <3>. QED
      BY <1>1, <1>3, <2>2, <3>1
  <2>3. CASE l # k
    <3>1. Ranked(TasksOf(l), PlaceOf', InOrder(l))
      BY <1>5, <2>1, RankedElsewhere
    <3>. QED
      BY <1>3, <2>3, <3>1
  <2>. QED
    BY <2>2, <2>3
<1>8. seqs = [l \in Lists |-> seqs[l]]
  OBVIOUS
<1>9. Formed' /\ [l \in Lists |-> InOrder(l)]' = seqs
  <2>. HIDE DEF seqs
  <2>. QED
    BY <1>7, <1>8, FormedNext
<1>10. Order!Add(k, t)
  <2>1. Order!Holding(t) = {}
    BY <1>1, HeldNowhere
  <2>2. seqs = [[l \in Lists |-> InOrder(l)] EXCEPT ![k] = Append(@, t)]
    BY <1>1
  <2>. QED
    BY <1>9, <2>1, <2>2 DEF Order!Add
<1>. QED
  BY <1>1, <1>9, <1>10 DEF k, t

Closed(p, old) == IF p > old THEN p - 1 ELSE p
Opened(p, new) == IF p >= new THEN p + 1 ELSE p

\* The places once t has been taken out of list k.
PlacesWithout(t, k) ==
    [u \in Tasks |-> IF u \in TasksOf(k) THEN Closed(PlaceOf[u], PlaceOf[t])
                     ELSE PlaceOf[u]]

LEMMA RankedWithout ==
    ASSUME Formed, NEW k \in Lists, NEW t \in TasksOf(k), NEW l \in Lists
    PROVE  Ranked(TasksOf(l) \ {t}, PlacesWithout(t, k), Order!Without(t)[l])
<1>1. Order!Without(t)[l] = IF l = k THEN Order!RemoveAt(InOrder(k), PlaceOf[t] + 1)
                            ELSE InOrder(l)
  BY WithoutIt
<1>2. Ranked(TasksOf(l), PlaceOf, InOrder(l))
  BY DEF Formed
<1>3. CASE l = k
  <2>1. \A u \in TasksOf(k) \ {t} :
           PlacesWithout(t, k)[u] = IF PlaceOf[u] > PlaceOf[t] THEN PlaceOf[u] - 1
                                    ELSE PlaceOf[u]
    BY TasksOfLists DEF PlacesWithout, Closed
  <2>. QED
    BY <1>1, <1>2, <1>3, <2>1, RankedRemoved
<1>4. CASE l # k
  <2>1. \A u \in TasksOf(l) : PlacesWithout(t, k)[u] = PlaceOf[u]
    BY <1>4, TasksOfLists DEF PlacesWithout
  <2>2. TasksOf(l) \ {t} = TasksOf(l)
    BY <1>4, TasksOfLists
  <2>. QED
    BY <1>1, <1>2, <1>4, <2>1, <2>2, RankedElsewhere
<1>. QED
  BY <1>3, <1>4

\* A task taken out of its list, with the gap closed behind it.
LEMMA TakenOut ==
    ASSUME Formed, NEW k \in Lists, NEW t \in TasksOf(k),
           \A l \in Lists : TasksOf(l)' = TasksOf(l) \ {t},
           \A u \in LiveTasks : u # t => PlaceOf'[u] = PlacesWithout(t, k)[u]
    PROVE  Formed' /\ Order!Drop(t)
<1>. DEFINE seqs == Order!Without(t)
<1>1. ASSUME NEW l \in Lists PROVE Ranked(TasksOf(l)', PlaceOf', seqs[l])
  <2>1. Ranked(TasksOf(l) \ {t}, PlacesWithout(t, k), seqs[l])
    BY RankedWithout
  <2>2. \A u \in TasksOf(l) \ {t} : PlaceOf'[u] = PlacesWithout(t, k)[u]
    BY TasksOfLists
  <2>. HIDE DEF seqs
  <2>3. Ranked(TasksOf(l) \ {t}, PlaceOf', seqs[l])
    BY <2>1, <2>2, RankedElsewhere
  <2>. QED
    BY <2>3
<1>2. seqs = [l \in Lists |-> seqs[l]]
  BY DEF Order!Without
<1>3. Formed' /\ [l \in Lists |-> InOrder(l)]' = seqs
  <2>. HIDE DEF seqs
  <2>. QED
    BY <1>1, <1>2, FormedNext
<1>4. Order!Holding(t) # {}
  BY HeldInItsList
<1>. QED
  BY <1>3, <1>4 DEF Order!Drop

\* A task taken out of its list and put in at a place of a list.
LEMMA PutBack ==
    ASSUME Formed, NEW k \in Lists, NEW t \in TasksOf(k), NEW m \in Lists,
           NEW new \in Nat, new < Cardinality(TasksOf(m) \cup {t}),
           \A l \in Lists : TasksOf(l)' = IF l = m THEN (TasksOf(m) \ {t}) \cup {t}
                                          ELSE TasksOf(l) \ {t},
           PlaceOf'[t] = new,
           \A u \in LiveTasks : u # t =>
              PlaceOf'[u] = IF task[u].list = m
                            THEN Opened(PlacesWithout(t, k)[u], new)
                            ELSE PlacesWithout(t, k)[u]
    PROVE  Formed' /\ Order!Put(t, m, new + 1) /\ new + 1 \in 1..(Len(InOrder(m)) + 1)
<1>. DEFINE w == Order!Without(t)
            seqs == [w EXCEPT ![m] = Order!InsertAt(@, new + 1, t)]
<1>1. w = [l \in Lists |-> w[l]]
  BY DEF Order!Without
<1>2. \A l \in Lists : Ranked(TasksOf(l) \ {t}, PlacesWithout(t, k), w[l])
  BY RankedWithout
<1>3. Ranked(TasksOf(m), PlaceOf, InOrder(m))
  BY DEF Formed
<1>. HIDE DEF w
<1>4. Len(w[m]) \in Nat /\ Len(InOrder(m)) \in Nat
  BY <1>2, <1>3 DEF Ranked
<1>5. new <= Len(w[m]) /\ Len(w[m]) <= Len(InOrder(m))
  <2>1. /\ IsFiniteSet(TasksOf(m) \ {t}) /\ Cardinality(TasksOf(m) \ {t}) = Len(w[m])
        /\ IsFiniteSet(TasksOf(m)) /\ Cardinality(TasksOf(m)) = Len(InOrder(m))
    BY <1>2, <1>3, RankedIsCounted
  <2>2. (TasksOf(m) \ {t}) \cup {t} = TasksOf(m) \cup {t}
    OBVIOUS
  <2>3. Cardinality(TasksOf(m) \cup {t}) = Len(w[m]) + 1
    <3>1. Cardinality((TasksOf(m) \ {t}) \cup {t}) = Cardinality(TasksOf(m) \ {t}) + 1
      BY <2>1, FS_AddElement
    <3>. QED
      BY <2>1, <2>2, <3>1
  <2>4. Len(w[m]) <= Len(InOrder(m))
    <3>1. TasksOf(m) \ {t} \in SUBSET TasksOf(m)
      OBVIOUS
    <3>2. Cardinality(TasksOf(m) \ {t}) <= Cardinality(TasksOf(m))
      BY <2>1, <3>1, FS_Subset
    <3>. QED
      BY <2>1, <3>2
  <2>. QED
    BY <1>4, <2>3, <2>4
<1>6. new + 1 \in 1..(Len(w[m]) + 1) /\ new + 1 \in 1..(Len(InOrder(m)) + 1)
  BY <1>4, <1>5
<1>7. ASSUME NEW l \in Lists PROVE Ranked(TasksOf(l)', PlaceOf', seqs[l])
  <2>1. \A u \in TasksOf(l) \ {t} :
           PlaceOf'[u] = IF l = m THEN Opened(PlacesWithout(t, k)[u], new)
                         ELSE PlacesWithout(t, k)[u]
    BY TasksOfLists
  <2>2. CASE l = m
    <3>1. \A u \in TasksOf(m) \ {t} :
             PlaceOf'[u] = IF PlacesWithout(t, k)[u] >= (new + 1) - 1
                           THEN PlacesWithout(t, k)[u] + 1
                           ELSE PlacesWithout(t, k)[u]
      BY <2>1, <2>2 DEF Opened
    <3>2. PlaceOf'[t] = (new + 1) - 1 /\ t \notin TasksOf(m) \ {t}
      OBVIOUS
    <3>3. Ranked((TasksOf(m) \ {t}) \cup {t}, PlaceOf', Order!InsertAt(w[m], new + 1, t))
      <4>1. Ranked(TasksOf(m) \ {t}, PlacesWithout(t, k), w[m])
        BY <1>2
      <4>. QED
        BY <1>6, <3>1, <3>2, <4>1, RankedInserted
    <3>4. seqs[m] = Order!InsertAt(w[m], new + 1, t)
      BY <1>1
    <3>. QED
      BY <2>2, <3>3, <3>4
  <2>3. CASE l # m
    <3>1. Ranked(TasksOf(l) \ {t}, PlaceOf', w[l])
      BY <1>2, <2>1, <2>3, RankedElsewhere
    <3>2. seqs[l] = w[l]
      BY <1>1, <2>3
    <3>. QED
      BY <2>3, <3>1, <3>2
  <2>. QED
    BY <2>2, <2>3
<1>8. seqs = [l \in Lists |-> seqs[l]]
  BY <1>1
<1>9. Formed' /\ [l \in Lists |-> InOrder(l)]' = seqs
  <2>. HIDE DEF seqs
  <2>. QED
    BY <1>7, <1>8, FormedNext
<1>10. Order!Holding(t) # {}
  BY HeldInItsList
<1>11. Order!Put(t, m, new + 1)
  BY <1>6, <1>9, <1>10 DEF Order!Put, w
<1>. QED
  BY <1>6, <1>9, <1>11

\* A shift of the tasks in between is the task going where it is sent.
LEMMA ShiftIsPut ==
    ASSUME ContentInv, TaskReadsAreCurrent, Formed, OneAtATime, NEW r \in Requests,
           ShiftForTask(r)
    PROVE  /\ Formed' /\ req[r].task \in Tasks /\ req[r].list \in Lists
           /\ req[r].new + 1 \in 1..(Len(InOrder(req[r].list)) + 1)
           /\ Order!Put(req[r].task, req[r].list, req[r].new + 1)
<1>. DEFINE k == req[r].list
            t == req[r].task
            old == req[r].old
            new == req[r].new
<1>1. /\ t \in LiveTasks /\ k = task[t].list /\ old = task[t].position
      /\ 0 <= new /\ new < Cardinality(TasksOf(k)) /\ ~Placing(r, "placeTask")
  BY RowsAndReads DEF ShiftForTask, At, TaskReads, Placing
<1>2. /\ t \in Tasks /\ k \in Lists /\ t \in TasksOf(k)
      /\ old \in Int /\ new \in Nat
  BY <1>1, RowsAndReads
<1>3. Placing(r, "placeTask")' /\ req'[r].task = t /\ req'[r].new = new
  BY RowsAndReads DEF ContentInv, TypeOK, ShiftForTask, At, Continue, Placing, Request
<1>4. /\ \A l : TasksOf(l)' = TasksOf(l)
      /\ \A u \in LiveTasks :
           task'[u].position = IF task[u].list = k THEN Shifted(task[u].position, old, new)
                               ELSE task[u].position
  BY ShiftedTasks
<1>5. /\ \A u \in LiveTasks : /\ u \in Tasks /\ task[u].list \in Lists
                              /\ PlaceOf[u] = task[u].position /\ PlaceOf[u] \in Nat
      /\ PlaceOf'[t] = new
      /\ \A u \in LiveTasks : u # t => PlaceOf'[u] = task'[u].position
  BY <1>1, <1>2, <1>3, RowsAndReads, PlacesOfTasks, PlacesOfTasksNext,
     PlaceIsNatural
<1>. HIDE DEF k, t, old, new
<1>6. ASSUME NEW u \in LiveTasks, u # t
      PROVE  PlaceOf'[u] = IF task[u].list = k THEN Opened(PlacesWithout(t, k)[u], new)
                           ELSE PlacesWithout(t, k)[u]
  <2>1. CASE task[u].list = k
    <3>1. u \in TasksOf(k)
      BY <1>6, <2>1 DEF TasksOf
    <3>2. PlacesWithout(t, k)[u] = Closed(PlaceOf[u], old)
      BY <1>1, <1>5, <3>1, TasksOfLists DEF PlacesWithout
    <3>3. PlaceOf[u] # old
      <4>1. /\ InOrder(k)[PlaceOf[u] + 1] = u /\ InOrder(k)[PlaceOf[t] + 1] = t
        BY <1>2, <3>1 DEF Formed, Ranked
      <4>. QED
        BY <1>1, <1>5, <1>6, <4>1
    <3>4. PlaceOf'[u] = Shifted(PlaceOf[u], old, new) /\ PlaceOf[u] \in Nat
      BY <1>4, <1>5, <1>6, <2>1
    <3>5. Shifted(PlaceOf[u], old, new) = Opened(Closed(PlaceOf[u], old), new)
      BY <1>2, <3>3, <3>4 DEF Shifted, Opened, Closed
    <3>. QED
      BY <2>1, <3>2, <3>4, <3>5
  <2>2. CASE task[u].list # k
    <3>1. u \notin TasksOf(k)
      BY <2>2, TasksOfLists
    <3>. QED
      BY <1>4, <1>5, <1>6, <2>2, <3>1 DEF PlacesWithout
  <2>. QED
    BY <2>1, <2>2
<1>7. TasksOf(k) = TasksOf(k) \cup {t} /\ TasksOf(k) = (TasksOf(k) \ {t}) \cup {t}
  BY <1>2
<1>8. \A l \in Lists : TasksOf(l)' = IF l = k THEN (TasksOf(k) \ {t}) \cup {t}
                                     ELSE TasksOf(l) \ {t}
  BY <1>1, <1>4, <1>7, TasksOfLists
<1>9. /\ Formed' /\ Order!Put(t, k, new + 1) /\ new + 1 \in 1..(Len(InOrder(k)) + 1)
  BY <1>1, <1>2, <1>5, <1>6, <1>7, <1>8, PutBack
<1>. QED
  BY <1>2, <1>9 DEF k, t, new

\* Closing the gap behind a position takes a place from the tasks above it.
LEMMA GapsClosed ==
    ASSUME ContentInv, NEW l, NEW old \in Int, NEW u \in Tasks
    PROVE  /\ u \in LiveTasks =>
                /\ CloseGap(u, l, old) \in Task
                /\ CloseGap(u, l, old).list = task[u].list
                /\ CloseGap(u, l, old).position =
                     IF u \in TasksOf(l) THEN Closed(task[u].position, old)
                     ELSE task[u].position
           /\ u \notin LiveTasks => CloseGap(u, l, old) = Deleted
<1>1. CASE u \in LiveTasks
  <2>1. task[u] \in Task /\ task[u].position \in Int
    BY <1>1, InvGivesRows, LiveRow DEF LiveTasks, Task
  <2>2. CASE u \in TasksOf(l) /\ task[u].position > old
    <3>1. CloseGap(u, l, old) = [task[u] EXCEPT !.position = task[u].position - 1]
      BY <2>2 DEF CloseGap
    <3>. QED
      BY <1>1, <2>1, <2>2, <3>1 DEF Task, Closed
  <2>3. CASE ~(u \in TasksOf(l) /\ task[u].position > old)
    BY <1>1, <2>1, <2>3 DEF CloseGap, Closed
  <2>. QED
    BY <2>2, <2>3
<1>2. CASE u \notin LiveTasks
  BY <1>2, TasksOfLists DEF CloseGap, LiveTasks
<1>. QED
  BY <1>1, <1>2

\* A deleted task leaves the sequence of its list.
LEMMA DeletedLeaves ==
    ASSUME ContentInv, TaskReadsAreCurrent, Formed, OneAtATime, NEW r \in Requests,
           DeleteTaskWithReorder(r), ~Refuse(r)
    PROVE  Formed' /\ req[r].task \in Tasks /\ Order!Drop(req[r].task)
<1>. DEFINE k == req[r].list
            t == req[r].task
            old == req[r].old
<1>1. /\ t \in LiveTasks /\ k = task[t].list /\ old = task[t].position
      /\ ~Placing(r, "placeTask") /\ ~Placing(r, "placeTask")'
      /\ task' = [u \in Tasks |-> IF u = t THEN Deleted ELSE CloseGap(u, k, old)]
  BY RowsAndReads, FinishedPlacesNothing
  DEF DeleteTaskWithReorder, At, TaskReads, Placing
<1>2. t \in Tasks /\ k \in Lists /\ t \in TasksOf(k) /\ old \in Int
  BY <1>1, RowsAndReads
<1>. HIDE DEF k, t, old
<1>3. /\ task'[t] = Deleted
      /\ \A u \in LiveTasks : u # t =>
           /\ task'[u] # Deleted /\ task'[u].list = task[u].list
           /\ task'[u].position = IF u \in TasksOf(k) THEN Closed(task[u].position, old)
                                  ELSE task[u].position
      /\ \A u \in Tasks : u \notin LiveTasks => task'[u] = Deleted
  BY <1>1, <1>2, GapsClosed, DeletedIsNoTask DEF LiveTasks
<1>4. \A l \in Lists : TasksOf(l)' = TasksOf(l) \ {t}
  BY <1>2, <1>3 DEF TasksOf, LiveTasks
<1>5. \A u \in LiveTasks : u # t => PlaceOf'[u] = PlacesWithout(t, k)[u]
  <2>1. \A u \in LiveTasks : PlaceOf[u] = task[u].position /\ PlaceOf'[u] = task'[u].position
    BY <1>1, PlacesOfTasks, PlacesOfTasksNext DEF LiveTasks
  <2>. QED
    BY <1>1, <1>3, <2>1 DEF PlacesWithout, LiveTasks
<1>6. Formed' /\ Order!Drop(t)
  BY <1>2, <1>4, <1>5, TakenOut
<1>. QED
  BY <1>2, <1>6 DEF t

LEMMA RoomMade ==
    ASSUME NEW row \in Task, NEW l, NEW new \in Int
    PROVE  /\ MakeRoom(row, l, new) \in Task
           /\ MakeRoom(row, l, new).list = row.list
           /\ MakeRoom(row, l, new).position =
                IF row.list = l THEN Opened(row.position, new) ELSE row.position
<1>1. row.position \in Int /\ row # Deleted
  BY DeletedIsNoTask DEF Task
<1>2. CASE row.list = l /\ row.position >= new
  <2>1. MakeRoom(row, l, new) = [row EXCEPT !.position = row.position + 1]
    BY <1>1, <1>2 DEF MakeRoom
  <2>. QED
    BY <1>1, <1>2, <2>1 DEF Task, Opened
<1>3. CASE ~(row.list = l /\ row.position >= new)
  BY <1>1, <1>3 DEF MakeRoom, Opened
<1>. QED
  BY <1>2, <1>3

\* A moved task is taken out of its list and put into the target.
LEMMA MoveIsPut ==
    ASSUME ContentInv, TaskReadsAreCurrent, Formed, OneAtATime, NEW r \in Requests,
           MoveTaskBetweenLists(r), ~Refuse(r)
    PROVE  /\ Formed' /\ req[r].task \in Tasks /\ req[r].target \in Lists
           /\ req[r].new + 1 \in 1..(Len(InOrder(req[r].target)) + 1)
           /\ Order!Put(req[r].task, req[r].target, req[r].new + 1)
<1>. DEFINE k == req[r].list
            t == req[r].task
            m == req[r].target
            old == req[r].old
            new == req[r].new
<1>1. /\ t \in LiveTasks /\ k = task[t].list /\ old = task[t].position
      /\ m \in Lists /\ 0 <= new /\ new < Cardinality(TasksOf(m) \cup {t})
      /\ ~Placing(r, "placeTask") /\ ~Placing(r, "placeTask")'
      /\ task' = [u \in Tasks |->
                    IF u = t THEN [task[t] EXCEPT !.list = m, !.position = new]
                    ELSE MakeRoom(CloseGap(u, k, old), m, new)]
  BY RowsAndReads, FinishedPlacesNothing
  DEF MoveTaskBetweenLists, CanMove, At, TaskReads, Placing, LiveLists
<1>2. /\ t \in Tasks /\ k \in Lists /\ t \in TasksOf(k) /\ old \in Int /\ new \in Nat
      /\ task[t] \in Task
  BY <1>1, RowsAndReads
<1>. HIDE DEF k, t, m, old, new
<1>3. task'[t] # Deleted /\ task'[t].list = m /\ task'[t].position = new
  <2>1. task'[t] = [task[t] EXCEPT !.list = m, !.position = new]
    BY <1>1, <1>2
  <2>2. ASSUME NEW row \in Task
        PROVE  LET moved == [row EXCEPT !.list = m, !.position = new]
               IN  moved \in Task /\ moved.list = m /\ moved.position = new
    <3>1. new \in Int
      BY <1>2
    <3>. QED
      BY <1>1, <3>1 DEF Task
  <2>3. task'[t] \in Task /\ task'[t].list = m /\ task'[t].position = new
    BY <1>2, <2>1, <2>2
  <2>. QED
    BY <2>3, DeletedIsNoTask
<1>4. ASSUME NEW u \in LiveTasks, u # t
      PROVE  /\ task'[u] # Deleted /\ task'[u].list = task[u].list
             /\ task'[u].position =
                  IF task[u].list = m
                  THEN Opened(IF u \in TasksOf(k) THEN Closed(task[u].position, old)
                              ELSE task[u].position, new)
                  ELSE IF u \in TasksOf(k) THEN Closed(task[u].position, old)
                  ELSE task[u].position
  <2>. DEFINE row == CloseGap(u, k, old)
  <2>1. u \in Tasks
    BY DEF LiveTasks
  <2>2. /\ row \in Task /\ row.list = task[u].list
        /\ row.position = IF u \in TasksOf(k) THEN Closed(task[u].position, old)
                          ELSE task[u].position
    BY <1>2, <1>4, <2>1, GapsClosed
  <2>3. task'[u] = MakeRoom(row, m, new)
    BY <1>1, <1>4, <2>1
  <2>. HIDE DEF row
  <2>4. /\ task'[u] \in Task /\ task'[u].list = row.list
        /\ task'[u].position = IF row.list = m THEN Opened(row.position, new)
                               ELSE row.position
    BY <1>2, <2>2, <2>3, RoomMade
  <2>5. task'[u] # Deleted
    BY <2>4, DeletedIsNoTask
  <2>6. task'[u].position =
          IF task[u].list = m
          THEN Opened(IF u \in TasksOf(k) THEN Closed(task[u].position, old)
                      ELSE task[u].position, new)
          ELSE IF u \in TasksOf(k) THEN Closed(task[u].position, old)
          ELSE task[u].position
    <3>1. CASE u \in TasksOf(k)
      BY <2>2, <2>4, <3>1
    <3>2. CASE u \notin TasksOf(k)
      BY <2>2, <2>4, <3>2
    <3>. QED
      BY <3>1, <3>2
  <2>. QED
    BY <2>2, <2>4, <2>5, <2>6
<1>5. \A u \in Tasks : u \notin LiveTasks => task'[u] = Deleted
  BY <1>1, <1>2, GapsClosed DEF MakeRoom
<1>6. \A l \in Lists : TasksOf(l)' = IF l = m THEN (TasksOf(m) \ {t}) \cup {t}
                                     ELSE TasksOf(l) \ {t}
  BY <1>2, <1>3, <1>4, <1>5 DEF TasksOf, LiveTasks
<1>7. PlaceOf'[t] = new
  BY <1>1, <1>2, <1>3, PlacesOfTasksNext
<1>8. ASSUME NEW u \in LiveTasks, u # t
      PROVE  PlaceOf'[u] = IF task[u].list = m THEN Opened(PlacesWithout(t, k)[u], new)
                           ELSE PlacesWithout(t, k)[u]
  <2>1. u \in Tasks
    BY DEF LiveTasks
  <2>2. PlaceOf[u] = task[u].position /\ PlaceOf'[u] = task'[u].position /\ PlaceOf[t] = old
    BY <1>1, <1>2, <2>1, PlacesOfTasks, PlacesOfTasksNext
  <2>3. PlacesWithout(t, k)[u] = IF u \in TasksOf(k) THEN Closed(task[u].position, old)
                                 ELSE task[u].position
    BY <2>1, <2>2 DEF PlacesWithout
  <2>. QED
    BY <1>4, <1>8, <2>2, <2>3
<1>9. /\ Formed' /\ Order!Put(t, m, new + 1) /\ new + 1 \in 1..(Len(InOrder(m)) + 1)
  BY <1>1, <1>2, <1>6, <1>7, <1>8, PutBack
<1>. QED
  BY <1>1, <1>2, <1>9 DEF m, t, new

LEMMA MidwayIsQuiet ==
    ASSUME ContentInv, ReadsAreCurrent, TaskReadsAreCurrent, Formed, OneAtATime,
           NEW r \in Requests, Midway(r), ~ShiftForTask(r)
    PROVE  Formed' /\ UNCHANGED [l \in Lists |-> InOrder(l)]
<1>1. req \in [Requests -> Request] /\ req[r] \in Request /\ TaskReads(req[r])
  BY RowsAndReads DEF ContentInv, TypeOK
<1>2. CASE CountByList(r) \/ ShiftForList(r)
  <2>1. /\ UNCHANGED task /\ req[r].op # "placeTask" /\ req'[r].op = req[r].op
    BY <1>1, <1>2 DEF CountByList, ShiftForList, Continue, At, Request
  <2>. QED
    BY <2>1, QuietTasks DEF Placing
<1>3. CASE FindLists(r)
  <2>1. UNCHANGED task /\ req[r].call = "findLists" /\ ~Placing(r, "placeTask")
    BY <1>3 DEF FindLists, Placing
  <2>2. CASE Finish(r)
    BY <2>1, <2>2, FinishedPlacesNothing, QuietTasks
  <2>3. CASE ~Finish(r)
    <3>1. Continue(r, IF req[r].op = "placeTask" /\ req[r].new # req[r].old
                      THEN "shift" ELSE "write")
      BY <1>3, <2>3 DEF FindLists
    <3>2. /\ req'[r].op = req[r].op /\ req'[r].task = req[r].task
          /\ req'[r].new = req[r].new
          /\ req'[r].call = "write" /\ req[r].op = "placeTask" => req[r].new = req[r].old
      BY <1>1, <3>1 DEF Continue, Request
    <3>3. ASSUME NEW t \in LiveTasks PROVE PlaceOf'[t] = PlaceOf[t]
      <4>1. t \in Tasks /\ PlaceOf[t] = task[t].position
        BY <2>1, PlacesOfTasks DEF LiveTasks
      <4>2. CASE Placing(r, "placeTask")' /\ req'[r].task = t
        <5>1. req[r].op = "placeTask" /\ req[r].task = t /\ req[r].new = req[r].old
          BY <3>2, <4>2 DEF Placing
        <5>2. req[r].old = task[t].position
          BY <1>1, <5>1 DEF TaskReads
        <5>. QED
          BY <3>2, <4>1, <4>2, <5>1, <5>2, PlacesOfTasksNext
      <4>3. CASE ~(Placing(r, "placeTask")' /\ req'[r].task = t)
        BY <2>1, <4>1, <4>3, PlacesOfTasksNext
      <4>. QED
        BY <4>2, <4>3
    <3>. QED
      BY <2>1, <3>3, SameTasks, QuietStep
  <2>. QED
    BY <2>2, <2>3
<1>. QED
  BY <1>2, <1>3 DEF Midway

\* The last calls that change no sequence.
LEMMA FinalIsQuiet ==
    ASSUME ContentInv, ReadsAreCurrent, TaskReadsAreCurrent, Formed, OneAtATime,
           NEW r \in Requests, Final(r),
           CreateTask(r) \/ DeleteTaskWithReorder(r) \/ MoveTaskBetweenLists(r)
             => Refuse(r)
    PROVE  Formed' /\ UNCHANGED [l \in Lists |-> InOrder(l)]
<1>1. /\ req[r] \in Request /\ TaskReads(req[r])
      /\ \A t \in LiveTasks : t \in Tasks /\ task[t] \in Task
  BY RowsAndReads
<1>2. ~Placing(r, "placeTask")'
  BY FinalFinishes, FinishedPlacesNothing
<1>3. CASE PlaceTask(r)
  <2>1. /\ req[r].task \in LiveTasks /\ req[r].task \in Tasks
        /\ Placing(r, "placeTask") /\ task[req[r].task] \in Task
    BY <1>1, <1>3 DEF PlaceTask, At, TaskReads, Placing
  <2>2. task' = [task EXCEPT ![req[r].task].position = req[r].new]
    BY <1>3, <2>1 DEF PlaceTask, Refuse
  <2>. DEFINE row == [task[req[r].task] EXCEPT !.position = req[r].new]
  <2>3. /\ row \in Task /\ row.list = task[req[r].task].list
        /\ row.position = req[r].new
    BY <2>1, RowsAndReads DEF Task
  <2>4. \A t \in Tasks : task'[t] = IF t = req[r].task THEN row ELSE task[t]
    BY <2>1, <2>2 DEF ContentInv, TypeOK
  <2>. HIDE DEF row
  <2>5. \A l \in Lists : TasksOf(l)' = TasksOf(l)
    BY <2>1, <2>3, <2>4, DeletedIsNoTask DEF TasksOf, LiveTasks
  <2>6. \A t \in LiveTasks : PlaceOf'[t] = PlaceOf[t]
    BY <1>2, <2>1, <2>3, <2>4, PlacesOfTasks, PlacesOfTasksNext DEF LiveTasks
  <2>. QED
    BY <2>5, <2>6, QuietStep
<1>4. ASSUME ~PlaceTask(r) PROVE ~Placing(r, "placeTask")
  BY <1>4 DEF Final, CreateTask, UpdateTask, DeleteTaskWithReorder,
              MoveTaskBetweenLists, CreateList, UpdateList, DeleteList, At, Placing
<1>5. CASE UpdateTask(r) /\ ~Refuse(r)
  <2>. DEFINE t == req[r].task
              row == [list |-> IF req[r].target = NoList
                               THEN task[t].list ELSE req[r].target,
                      position |-> task[t].position,
                      status |-> Merged(task[t].status, req[r].status),
                      completed |-> Merged(task[t].completed, req[r].completed)]
  <2>1. /\ t \in LiveTasks /\ t \in Tasks /\ req[r].target = NoList
        /\ task[t] \in Task /\ ~Placing(r, "placeTask")
    BY <1>1, <1>5 DEF UpdateTask, CanUpdateTask, At, TaskReads, Placing
  <2>2. \A u \in Tasks : task'[u] = IF u = t THEN row ELSE task[u]
    BY <1>5, <2>1 DEF UpdateTask, ContentInv, TypeOK
  <2>3. row \in Task /\ row.list = task[t].list /\ row.position = task[t].position
    BY <1>1, <2>1 DEF Merged, Task, Request
  <2>. HIDE DEF t, row
  <2>4. \A l \in Lists : TasksOf(l)' = TasksOf(l)
    BY <2>1, <2>2, <2>3, DeletedIsNoTask DEF TasksOf, LiveTasks
  <2>5. \A u \in LiveTasks : PlaceOf'[u] = PlaceOf[u]
    BY <1>2, <2>1, <2>2, <2>3, PlacesOfTasks, PlacesOfTasksNext DEF LiveTasks
  <2>. QED
    BY <2>4, <2>5, QuietStep
<1>6. CASE ~PlaceTask(r) /\ ~(UpdateTask(r) /\ ~Refuse(r))
  <2>1. UNCHANGED task \/ DeleteList(r)
    BY <1>6 DEF Final, CreateList, UpdateList, Refuse
  <2>2. UNCHANGED task
    <3>1. task \in [Tasks -> Task \cup {Deleted}]
      BY DEF ContentInv, TypeOK
    <3>2. ASSUME DeleteList(r) PROVE UNCHANGED task
      <4>1. req[r].op = "removeList" /\ TasksOf(req[r].list) = {}
        BY <3>2 DEF DeleteList, At, ReadsAreCurrent
      <4>2. \/ UNCHANGED task
            \/ task' = [t \in Tasks |->
                          IF t \in TasksOf(req[r].list) THEN Deleted ELSE task[t]]
        BY <3>2 DEF DeleteList, Refuse
      <4>. QED
        BY <3>1, <4>1, <4>2
    <3>. QED
      BY <2>1, <3>2
  <2>. QED
    BY <1>2, <1>4, <1>6, <2>2, QuietTasks
<1>. QED
  BY <1>3, <1>5, <1>6

OrderInv ==
    ContentInv /\ ReadsAreCurrent /\ TaskReadsAreCurrent /\ Formed

LEMMA EveryStepIsOrdered ==
    ASSUME OrderInv, OneAtATime, Careful, ~MayFail, [Next]_vars
    PROVE  /\ TaskReadsAreCurrent' /\ Formed'
           /\ Order!Next \/ UNCHANGED [l \in Lists |-> InOrder(l)]
<1>. USE DEF OrderInv
<1>1. CASE UNCHANGED vars
  <2>1. /\ UNCHANGED task /\ TaskReadsAreCurrent'
    <3>1. UNCHANGED task /\ UNCHANGED req
      BY <1>1 DEF vars
    <3>. QED
      BY <3>1, SameTasks DEF TaskReadsAreCurrent, TaskReads
  <2>2. \A t \in LiveTasks : PlaceOf'[t] = PlaceOf[t]
    BY <1>1 DEF vars, PlaceOf, TaskPlace, Placing
  <2>. QED
    BY <2>1, <2>2, SameTasks, QuietStep
<1>2. ASSUME NEW r \in Requests, TaskStep(r) \/ ListStep(r) \/ Fail(r)
      PROVE  /\ TaskReadsAreCurrent' /\ Formed'
             /\ Order!Next \/ UNCHANGED [l \in Lists |-> InOrder(l)]
  <2>1. CASE \/ RequestCreateTask(r) \/ RequestUpdateTask(r) \/ RequestPlaceTask(r)
             \/ RequestRemoveTask(r) \/ RequestMoveTask(r) \/ RequestCreateList(r)
             \/ RequestUpdateList(r) \/ RequestPlaceList(r) \/ RequestRemoveList(r)
    <3>1. Received(r)
      BY <2>1, ReceivedTaskReads
    <3>. QED
      BY <3>1, QuietTasks DEF Received
  <2>2. CASE Midway(r)
    <3>1. TaskReadsAreCurrent'
      BY <2>2, MidwayTaskReads
    <3>2. CASE ~ShiftForTask(r)
      BY <2>2, <3>1, <3>2, MidwayIsQuiet
    <3>3. CASE ShiftForTask(r)
      <4>1. PICK t, l, i : t = req[r].task /\ l = req[r].list /\ i = req[r].new + 1
        OBVIOUS
      <4>2. /\ Formed' /\ t \in Tasks /\ l \in Lists
            /\ i \in 1..(Len(InOrder(l)) + 1) /\ Order!Put(t, l, i)
        BY <3>3, <4>1, ShiftIsPut
      <4>. QED
        BY <3>1, <4>2 DEF Order!Next
    <3>. QED
      BY <3>2, <3>3
  <2>3. CASE Final(r)
    <3>1. TaskReadsAreCurrent'
      BY <2>3, FinalFinishes, FinishedTaskReads
    <3>2. CASE CreateTask(r) /\ ~Refuse(r)
      <4>1. PICK t, l : t = req[r].task /\ l = req[r].list
        OBVIOUS
      <4>2. Formed' /\ t \in Tasks /\ l \in Lists /\ Order!Add(l, t)
        BY <3>2, <4>1, CreatedJoins
      <4>. QED
        BY <3>1, <4>2 DEF Order!Next
    <3>3. CASE DeleteTaskWithReorder(r) /\ ~Refuse(r)
      <4>1. PICK t : t = req[r].task
        OBVIOUS
      <4>2. Formed' /\ t \in Tasks /\ Order!Drop(t)
        BY <3>3, <4>1, DeletedLeaves
      <4>. QED
        BY <3>1, <4>2 DEF Order!Next
    <3>4. CASE MoveTaskBetweenLists(r) /\ ~Refuse(r)
      <4>1. PICK t, l, i : t = req[r].task /\ l = req[r].target /\ i = req[r].new + 1
        OBVIOUS
      <4>2. /\ Formed' /\ t \in Tasks /\ l \in Lists
            /\ i \in 1..(Len(InOrder(l)) + 1) /\ Order!Put(t, l, i)
        BY <3>4, <4>1, MoveIsPut
      <4>. QED
        BY <3>1, <4>2 DEF Order!Next
    <3>. QED
      BY <2>3, <3>1, <3>2, <3>3, <3>4, FinalIsQuiet
  <2>. QED
    BY <1>2, <2>1, <2>2, <2>3, StepForm
<1>. QED
  BY <1>1, <1>2 DEF Next

\* For careful clients, one request at a time that does not die, the positions
\* of a list with n tasks are 0 to n-1, each used once, and what has been read
\* of a task still holds when it is written.
THEOREM OrderInvariant ==
    Spec /\ OneAtATime /\ Careful /\ ~MayFail => []OrderInv
<1>1. ASSUME OneAtATime, Careful, ~MayFail PROVE Spec => []OrderInv
  <2>1. OrderInv /\ [Next]_vars => OrderInv'
    BY <1>1, InvKept, ReadsStayCurrent, EveryStepIsOrdered DEF OrderInv
  <2>2. Init => OrderInv
    BY InitInv, ReadsCurrentInitially, TaskReadsInitially, FormedInitially DEF OrderInv
  <2>. QED
    BY <2>1, <2>2, PTL DEF Spec
<1>. QED
  BY <1>1

\* For the same, every handler changes the positions of any number of tasks as
\* it would change a sequence: a new task joins the end of its list, a deleted
\* one leaves the others in order, a placed or moved one stands at the index
\* asked for (task.service.ts and task.repository.ts).
THEOREM TasksAreSequences ==
    Spec /\ OneAtATime /\ Careful /\ ~MayFail => TasksFormSequences
<1>1. ASSUME OneAtATime, Careful, ~MayFail PROVE Spec => TasksFormSequences
  <2>1. Init => [l \in Lists |-> InOrder(l)] = Order!Empty
    BY FormedInitially DEF Order!Empty
  <2>2. OrderInv /\ [Next]_vars => [Order!Next]_([l \in Lists |-> InOrder(l)])
    BY <1>1, EveryStepIsOrdered
  <2>3. Spec => []OrderInv
    BY <1>1, OrderInvariant
  <2>. QED
    BY <2>1, <2>2, <2>3, PTL DEF Spec, TasksFormSequences, Order!Spec
<1>. QED
  BY <1>1

=============================================================================
