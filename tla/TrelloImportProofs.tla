------------------------- MODULE TrelloImportProofs -------------------------
(***************************************************************************)
(* Imported cards stay in file order, and a completed import lacks at most *)
(* the one batch that its stream did not wait for: for files, batches and  *)
(* boards of any size, any number of runs, and whatever fails or is left   *)
(* over from an earlier run.                                               *)
(*                                                                         *)
(* The invariant says what a batch under way knows.  A list has the id of  *)
(* the run that made it, so a batch of an older run can only write to a    *)
(* list that its own run has made; it holds the next cards of that list,   *)
(* and no other batch holds cards for the same row.                        *)
(***************************************************************************)
EXTENDS TrelloImport, FiniteSetTheorems, TLAPS

-----------------------------------------------------------------------------
(* The inductive invariant *)

CardBatches == {b \in batches : b.stage # "lists"}
ListBatches == {b \in batches : b.stage = "lists"}
Unwritten == {b \in batches : b.stage \in {"count", "insert"}}

\* The cards of list l that the worker has read and given to a batch.
Taken(l) ==
    {c \in FileCards : listOf[c] = l /\ c <= worker.cursor} \ worker.tasksByList[l]

\* The cards of list l in a batch of the present run that is not written yet.
InBatches(l) ==
    {c \in FileCards :
        \E b \in Unwritten : b.run = worker.run /\ b.list = l /\ c \in b.items}

\* The cards of list l before all of items.
Before(items, l) == {c \in FileCards : listOf[c] = l /\ \A d \in items : c < d}

RowsOK ==
    /\ \A c \in FileCards : cardAt[c] # -1 =>
          /\ listOf[c] # 0 /\ listId[listOf[c]] # 0
          /\ cardAt[c] < TaskCount(listOf[c])
    /\ \A l \in FileLists : listId[l] <= worker.run

JobOK ==
    /\ job = "active" <=> worker.phase # "none"
    /\ job \in {"active", "completed"} => worker.run > 0
    /\ job = "waiting" => worker.run < MaxRuns

\* A run has one batch of a list, and one batch of lists.  Lists that a batch is
\* to insert are new for its run, and nobody knows their ids.
BatchesOK ==
    /\ \A a, b \in batches : a.run = b.run /\ a.list = b.list => a = b
    /\ \A b \in batches : b.items # {} /\ b.run <= worker.run
    /\ \A b \in ListBatches :
          /\ b.items \subseteq FileLists /\ b.list = 0
          /\ \A k \in FileLists, l \in b.items : listId[k] = b.run => k < l
          /\ \A l \in b.items : worker.listIdMap[l] # b.run
          /\ \A l \in b.items, a \in CardBatches : a.list = l => a.id # b.run

\* A batch of cards has the next cards of its list, if the list is still there.
CardBatchesOK ==
    /\ \A b \in CardBatches :
          /\ b.list # 0 /\ b.id # 0 /\ b.id <= b.run
          /\ b.items \subseteq {c \in FileCards : listOf[c] = b.list}
    /\ \A a, b \in CardBatches : a.list = b.list /\ a.id = b.id => a = b
    /\ \A b \in Unwritten : listId[b.list] = b.id =>
          /\ Imported(b.list) = Before(b.items, b.list)
          /\ \A c \in FileCards :
                listOf[c] = b.list => \/ c \in b.items \/ c \in Before(b.items, b.list)
                                      \/ \A d \in b.items : d < c
          /\ b.stage = "insert" =>
                /\ b.first <= TaskCount(b.list)
                /\ \A c \in Imported(b.list) : cardAt[c] < b.first

\* What the first stream has inserted is empty and unknown to older batches.
ListPhaseOK ==
    worker.phase \in {"lists", "lastLists", "map"} =>
        /\ worker.listIdMap = NoIds /\ worker.tasksByList = NoBuffer
        /\ worker.cursor <= NumLists /\ worker.unsentLists \subseteq 1..worker.cursor
        /\ worker.phase # "lists" =>
              worker.cursor = NumLists /\ worker.unsentLists = {}
        /\ worker.phase = "map" => ~Paused
        /\ \A k \in FileLists : listId[k] = worker.run =>
              k <= worker.cursor /\ \A l \in worker.unsentLists : k < l
        /\ \A b \in batches : b.run = worker.run =>
              /\ b.stage = "lists" /\ worker.unsentLists = {}
              /\ \A l \in b.items : l <= worker.cursor
        /\ \A l \in FileLists :
              \/ l > worker.cursor \/ l \in worker.unsentLists
              \/ \E b \in batches : b.run = worker.run /\ l \in b.items
              \/ /\ Imported(l) = {}
                 /\ \A b \in CardBatches : b.list = l => b.id # listId[l]

\* The batches of cards that go by the worker's map of ids are those of its run.
IdsOfBatches ==
    \A b \in batches :
        IF b.run = worker.run
        THEN b.stage # "lists" /\ b.id = worker.listIdMap[b.list]
        ELSE b.stage = "lists" \/ b.id # worker.listIdMap[b.list]

\* The second stream has read the cards that are imported, buffered or in a batch.
CardPhaseOK ==
    worker.phase \in {"cards", "lastCards"} =>
        /\ worker.unsentLists = {}
        /\ worker.cursor <= NumCards
        /\ worker.phase = "lastCards" =>
              worker.cursor = NumCards /\ worker.tasksByList = NoBuffer
        /\ \A l \in FileLists :
              /\ listId[l] = worker.run => worker.listIdMap[l] = worker.run
              /\ worker.listIdMap[l] <= worker.run
              /\ \A d \in worker.tasksByList[l] :
                    /\ listOf[d] = l /\ d <= worker.cursor
                    /\ worker.listIdMap[l] # 0
                    /\ \A c \in Taken(l) : c < d
              /\ listId[l] # 0 /\ listId[l] = worker.listIdMap[l] =>
                    Taken(l) = Imported(l) \cup InBatches(l)
        /\ IdsOfBatches

\* A full batch of the second stream ends with the last card that was read, and
\* its list has nothing in a buffer.  Unless it is written before the end, the
\* stream has ended in its pause, right behind that batch.
FullBatchesOK ==
    /\ worker.phase = "cards" \/ job = "completed" =>
          \A b \in batches : b.run = worker.run => ~b.last
    /\ worker.phase \in {"cards", "lastCards"} \/ job = "completed" =>
          \A b \in batches : b.run = worker.run =>
              /\ b.stage # "lists" /\ worker.tasksByList[b.list] = {}
              /\ ~b.last =>
                    /\ worker.cursor \in b.items /\ Cardinality(b.items) = BatchSize
                    /\ worker.phase # "cards" =>
                          worker.drained /\ worker.cursor = NumCards

ImportInv ==
    /\ TypeOK /\ RowsOK /\ JobOK /\ BatchesOK /\ CardBatchesOK
    /\ ListPhaseOK /\ CardPhaseOK /\ FullBatchesOK
    /\ ImportedInFileOrder /\ CompletedMeansImported

-----------------------------------------------------------------------------
(* Sizes, and the index in a batch *)

LEMMA Sizes ==
    /\ NumLists \in Nat \ {0} /\ NumCards \in Nat \ {0} /\ BatchSize \in Nat \ {0}
    /\ MaxRuns \in Nat \ {0} /\ MaxOthers \in Nat \ {0}
    /\ Ahead \in Nat \ {0}
BY SizesAreNatural

LEMMA FilesAreNatural == FileLists \subseteq Nat \ {0} /\ FileCards \subseteq Nat \ {0}
BY Sizes DEF FileLists, FileCards

LEMMA FilesAreFinite ==
    /\ \A S : S \subseteq FileLists => IsFiniteSet(S)
    /\ \A S : S \subseteq FileCards => IsFiniteSet(S)
<1>1. IsFiniteSet(FileLists) /\ IsFiniteSet(FileCards)
  BY Sizes, FS_Interval DEF FileLists, FileCards
<1> QED
  BY <1>1, FS_Subset

\* Index counts the items below: it is less than their number, and increases.
LEMMA IndexIsBounded ==
    ASSUME NEW items, items \subseteq FileLists \/ items \subseteq FileCards,
           NEW i \in items
    PROVE  /\ Index(i, items) \in Nat
           /\ Index(i, items) < Cardinality(items)
           /\ \A j \in items : i < j => Index(i, items) < Index(j, items)
<1> DEFINE Below(j) == {k \in items : k < j}
<1>1. IsFiniteSet(items) /\ items \subseteq Int
  BY FilesAreFinite, Sizes DEF FileLists, FileCards
<1>2. \A j : IsFiniteSet(Below(j)) /\ Cardinality(Below(j)) \in Nat
  BY <1>1, FS_Subset, FS_CardinalityType
<1>3. Cardinality(items \ {i}) = Cardinality(items) - 1 /\ IsFiniteSet(items \ {i})
  BY <1>1, FS_RemoveElement
<1>4. Cardinality(Below(i)) <= Cardinality(items) - 1
  <2>1. Below(i) \subseteq items \ {i}
    BY <1>1
  <2> QED
    BY <2>1, <1>3, FS_Subset
<1>5. ASSUME NEW j \in items, i < j
      PROVE  Cardinality(Below(i)) < Cardinality(Below(j))
  <2>1. Below(i) \subseteq Below(j) \ {i} /\ i \in Below(j)
    <3>1. i \in Int /\ j \in Int /\ \A k \in items : k \in Int
      BY <1>1
    <3>2. \A k \in items : k < i => k < j /\ k # i
      BY <3>1, <1>5
    <3> QED
      BY <3>2, <1>5
  <2>2. Cardinality(Below(j) \ {i}) = Cardinality(Below(j)) - 1
        /\ IsFiniteSet(Below(j) \ {i})
    BY <1>2, <2>1, FS_RemoveElement
  <2>3. Cardinality(Below(i)) <= Cardinality(Below(j)) - 1
    BY <2>1, <2>2, FS_Subset
  <2>4. Cardinality(Below(i)) \in Nat /\ Cardinality(Below(j)) \in Nat
    BY <1>2
  <2> QED
    BY <2>3, <2>4
<1>6. Cardinality(items) \in Nat
  BY <1>1, FS_CardinalityType
<1>7. \A j : Index(j, items) = Cardinality(Below(j))
  BY DEF Index
<1> HIDE DEF Below
<1>8. Cardinality(Below(i)) \in Nat
  BY <1>2
<1> QED
  BY <1>4, <1>5, <1>6, <1>7, <1>8

LEMMA InitEstablishesImportInv == Init => ImportInv
<1> SUFFICES ASSUME Init PROVE ImportInv
  OBVIOUS
<1>1. TypeOK
  <2>1. worker \in Worker
    BY Sizes DEF Init, Worker, Phase, NoBuffer, NoIds
  <2>2. Cardinality(worker.unsentLists) < BatchSize
        /\ \A l \in FileLists : Cardinality(worker.tasksByList[l]) < BatchSize
    <3>1. Cardinality({}) = 0
      BY FS_EmptySet
    <3> QED
      BY <3>1, Sizes DEF Init, NoBuffer
  <2> QED
    BY <2>1, <2>2, Sizes DEF Init, TypeOK, NoIds, JobState
<1>2. RowsOK /\ JobOK
  BY Sizes DEF Init, RowsOK, JobOK, NoIds, Paused
<1>3. BatchesOK /\ CardBatchesOK
  BY DEF Init, BatchesOK, CardBatchesOK, ListBatches, CardBatches, Unwritten
<1>4. ListPhaseOK /\ CardPhaseOK /\ FullBatchesOK
  BY DEF Init, ListPhaseOK, CardPhaseOK, FullBatchesOK
<1>5. ImportedInFileOrder /\ CompletedMeansImported
  BY DEF Init, ImportedInFileOrder, CompletedMeansImported, LiveLists, NoIds
<1> QED
  BY <1>1, <1>2, <1>3, <1>4, <1>5 DEF ImportInv

-----------------------------------------------------------------------------
(* Types *)

LEMMA EmptyIsSmall == Cardinality({}) = 0 /\ Cardinality({}) < BatchSize
BY FS_EmptySet, Sizes

LEMMA SmallOrFull ==
    ASSUME NEW items, items \subseteq FileLists \/ items \subseteq FileCards
    PROVE  ~Full(items) => Cardinality(items) < BatchSize
<1>1. Cardinality(items) \in Nat
  BY FilesAreFinite, FS_CardinalityType
<1> QED
  BY <1>1, Sizes DEF Full

LEMMA EndKeepsTypes ==
    ASSUME TypeOK, NEW state \in JobState, End(state)
    PROVE  /\ job' \in JobState /\ worker' \in Worker
           /\ worker'.unsentLists = worker.unsentLists
           /\ worker'.tasksByList = worker.tasksByList
BY DEF TypeOK, End, Worker, Phase

LEMMA FulfilKeepsTypes ==
    ASSUME TypeOK, NEW b \in batches, Fulfil(b) \/ Reject(b)
    PROVE  /\ job' \in JobState /\ worker' \in Worker /\ batches' \subseteq Batch
           /\ worker'.unsentLists = worker.unsentLists
           /\ worker'.tasksByList = worker.tasksByList
<1>1. batches' \subseteq Batch
  BY DEF TypeOK, Fulfil, Reject
<1>2. CASE UNCHANGED <<worker, job>>
  BY <1>1, <1>2 DEF TypeOK
<1>3. CASE UNCHANGED job /\ worker' = [worker EXCEPT !.phase = "map"]
  BY <1>1, <1>3 DEF TypeOK, Worker, Phase
<1>4. CASE End("completed") \/ End("failed")
  BY <1>1, <1>4, EndKeepsTypes DEF JobState
<1> QED
  BY <1>2, <1>3, <1>4 DEF Fulfil, Reject

LEMMA ImportedIsFinite ==
    ASSUME TypeOK, NEW l \in FileLists
    PROVE  /\ IsFiniteSet(Imported(l)) /\ Cardinality(Imported(l)) \in Nat
           /\ TaskCount(l) \in Nat /\ Cardinality(Imported(l)) <= TaskCount(l)
<1>1. Imported(l) \subseteq FileCards
  BY DEF Imported
<1>2. IsFiniteSet(Imported(l)) /\ Cardinality(Imported(l)) \in Nat
  BY <1>1, FilesAreFinite, FS_CardinalityType
<1>3. others[l] \in Nat
  BY Sizes DEF TypeOK
<1> QED
  BY <1>2, <1>3 DEF TaskCount

LEMMA TypesArePreserved ==
    ASSUME TypeOK, JobOK, CardBatchesOK, Next
    PROVE  TypeOK'
<1> USE Sizes
<1>a. job = "active" => worker.run \in 1..MaxRuns
  BY DEF JobOK, TypeOK, Worker
<1>1. CASE Upload
  BY <1>1 DEF Upload, TypeOK, Worker, JobState, rows
<1>2. CASE Begin
  <2>1. worker' \in Worker
    <3>1. worker.run + 1 \in 0..MaxRuns
      BY <1>2 DEF Begin, TypeOK, JobOK, Worker
    <3>2. NoBuffer \in [FileLists -> SUBSET FileCards]
          /\ NoIds \in [FileLists -> 0..MaxRuns]
      BY DEF NoBuffer, NoIds
    <3> QED
      BY <1>2, <3>1, <3>2 DEF Begin, TypeOK, Worker, Phase
  <2>2. worker'.unsentLists = {} /\ worker'.tasksByList = NoBuffer
    BY <1>2 DEF Begin, TypeOK, Worker
  <2> QED
    BY <1>2, <2>1, <2>2, EmptyIsSmall DEF Begin, TypeOK, JobState, NoBuffer, rows
<1>3. CASE ReadList
  <2> DEFINE next == worker.cursor + 1
             unsent == worker.unsentLists \cup {next}
  <2>1. next \in FileLists /\ unsent \in SUBSET FileLists
    BY <1>3 DEF ReadList, FileLists, TypeOK, Worker
  <2> DEFINE rest == IF Full(unsent) THEN {} ELSE unsent
  <2>2. worker' \in Worker
        /\ worker'.unsentLists = rest
        /\ worker'.tasksByList = worker.tasksByList
    <3>1. rest \in SUBSET FileLists /\ next \in Nat
      BY <2>1, FilesAreNatural
    <3>2. worker' = [worker EXCEPT !.cursor = next, !.unsentLists = rest]
      BY <1>3 DEF ReadList
    <3> HIDE DEF rest, next
    <3> QED
      BY <3>1, <3>2 DEF TypeOK, Worker
  <2>3. ListBatch(unsent, FALSE) \in Batch
    BY <1>3, <1>a, <2>1 DEF ReadList, Streaming, ListBatch, Batch
  <2>4. batches' \subseteq Batch
    BY <1>3, <2>3 DEF ReadList, TypeOK
  <2>5. Cardinality(worker'.unsentLists) < BatchSize
    BY <2>1, <2>2, SmallOrFull, EmptyIsSmall
  <2> QED
    BY <1>3, <2>2, <2>4, <2>5 DEF ReadList, TypeOK, rows
<1>4. CASE EndLists
  <2>1. worker' \in Worker
        /\ worker'.unsentLists = {} /\ worker'.tasksByList = worker.tasksByList
    BY <1>4 DEF EndLists, TypeOK, Worker, Phase
  <2>2. ListBatch(worker.unsentLists, TRUE) \in Batch
    BY <1>4, <1>a DEF EndLists, Streaming, ListBatch, Batch, TypeOK, Worker
  <2>3. batches' \subseteq Batch
    BY <1>4, <2>2 DEF EndLists, TypeOK
  <2> QED
    BY <1>4, <2>1, <2>3, EmptyIsSmall DEF EndLists, TypeOK, rows
<1>5. CASE BuildListIdMap
  <2>1. worker' \in Worker
        /\ worker'.unsentLists = worker.unsentLists
        /\ worker'.tasksByList = worker.tasksByList
    BY <1>5 DEF BuildListIdMap, TypeOK, Worker, Phase
  <2> QED
    BY <1>5, <2>1 DEF BuildListIdMap, TypeOK, rows
<1>6. CASE ReadCard
  <2> DEFINE c == worker.cursor + 1
             l == listOf[c]
             unsent == worker.tasksByList[l] \cup {c}
  <2>1. c \in FileCards /\ c \in Nat /\ l \in 0..NumLists
    BY <1>6 DEF ReadCard, FileCards, TypeOK, Worker
  <2> HIDE DEF c
  <2>2. Mapped(c) => l \in FileLists /\ unsent \in SUBSET FileCards
    <3>1. Mapped(c) => l \in FileLists
      BY <2>1 DEF Mapped, FileLists
    <3>2. l \in FileLists => worker.tasksByList[l] \in SUBSET FileCards
      BY DEF TypeOK, Worker
    <3> QED
      BY <2>1, <3>1, <3>2
  <2> HIDE DEF l
  <2>3. CASE worker' = [worker EXCEPT !.cursor = c] /\ batches' = batches
    <3>1. worker' \in Worker
          /\ worker'.unsentLists = worker.unsentLists
          /\ worker'.tasksByList = worker.tasksByList
      BY <2>1, <2>3 DEF TypeOK, Worker
    <3> QED
      BY <1>6, <2>3, <3>1 DEF ReadCard, TypeOK, rows
  <2>4. CASE /\ Mapped(c) /\ ~Full(unsent) /\ batches' = batches
             /\ worker' = [worker EXCEPT !.cursor = c, !.tasksByList[l] = unsent]
    <3>1. worker' \in Worker
          /\ worker'.unsentLists = worker.unsentLists
          /\ worker'.tasksByList = [worker.tasksByList EXCEPT ![l] = unsent]
      BY <2>1, <2>2, <2>4 DEF TypeOK, Worker
    <3>2. \A k \in FileLists : Cardinality(worker'.tasksByList[k]) < BatchSize
      BY <3>1, <2>2, <2>4, SmallOrFull DEF TypeOK, Worker
    <3> QED
      BY <1>6, <2>4, <3>1, <3>2 DEF ReadCard, TypeOK, rows
  <2>5. CASE /\ Mapped(c) /\ batches' = batches \cup {CardBatch(l, unsent, FALSE)}
             /\ worker' = [worker EXCEPT !.cursor = c, !.tasksByList[l] = {}]
    <3>1. worker' \in Worker
          /\ worker'.unsentLists = worker.unsentLists
          /\ worker'.tasksByList = [worker.tasksByList EXCEPT ![l] = {}]
      BY <2>1, <2>2, <2>5 DEF TypeOK, Worker
    <3>2. CardBatch(l, unsent, FALSE) \in Batch
      <4>1. worker.listIdMap[l] \in 0..MaxRuns
        BY <2>2, <2>5 DEF TypeOK, Worker
      <4> QED
        BY <1>6, <1>a, <2>1, <2>2, <2>5, <4>1 DEF ReadCard, Streaming, CardBatch, Batch
    <3>3. \A k \in FileLists : Cardinality(worker'.tasksByList[k]) < BatchSize
      BY <3>1, EmptyIsSmall DEF TypeOK, Worker
    <3> QED
      BY <1>6, <2>5, <3>1, <3>2, <3>3 DEF ReadCard, TypeOK, rows
  <2> QED
    BY <1>6, <2>3, <2>4, <2>5 DEF ReadCard, c, l
<1>7. CASE EndCards
  <2>1. CASE End("completed") /\ batches' = batches
    BY <1>7, <2>1, EndKeepsTypes DEF EndCards, JobState, TypeOK, rows
  <2>2. CASE /\ worker' = [worker EXCEPT !.phase = "lastCards", !.tasksByList = NoBuffer]
             /\ batches' = batches \cup
                  {CardBatch(l, worker.tasksByList[l], TRUE) :
                      l \in {k \in FileLists : worker.tasksByList[k] # {}}}
             /\ job' = job
    <3>1. worker' \in Worker
          /\ worker'.unsentLists = worker.unsentLists
          /\ worker'.tasksByList = NoBuffer
      BY <2>2 DEF TypeOK, Worker, Phase, NoBuffer
    <3>2. \A l \in FileLists : CardBatch(l, worker.tasksByList[l], TRUE) \in Batch
      BY <1>7, <1>a DEF EndCards, CardsEnd, CardBatch, Batch, TypeOK, Worker, FileLists
    <3>3. batches' \subseteq Batch
      BY <2>2, <3>2 DEF TypeOK
    <3> QED
      BY <1>7, <2>2, <3>1, <3>3, EmptyIsSmall DEF EndCards, TypeOK, NoBuffer, rows
  <2> QED
    BY <1>7, <2>1, <2>2 DEF EndCards
<1>8. CASE Crash
  <2>1. job' \in JobState /\ worker' \in Worker
        /\ worker'.unsentLists = worker.unsentLists
        /\ worker'.tasksByList = worker.tasksByList
    <3>1. CASE End("failed")
      BY <3>1, EndKeepsTypes DEF JobState
    <3>2. CASE job' = "waiting"
               /\ worker' = [worker EXCEPT !.stalled = TRUE, !.phase = "none"]
      BY <3>2 DEF TypeOK, Worker, Phase, JobState
    <3>3. CASE UNCHANGED <<job, worker>>
      BY <3>3 DEF TypeOK
    <3> QED
      BY <1>8, <3>1, <3>2, <3>3 DEF Crash
  <2> QED
    BY <1>8, <2>1 DEF Crash, TypeOK, rows
<1>9. CASE StreamFails
  BY <1>9, EndKeepsTypes DEF StreamFails, JobState, TypeOK, rows
<1>10. ASSUME NEW b \in batches, CreateLists(b) PROVE TypeOK'
  <2>1. b \in Batch
    BY DEF TypeOK
  <2>2. CASE b.items \cap LiveLists = {}
    <3>1. listId' \in [FileLists -> 0..MaxRuns]
      BY <1>10, <2>1, <2>2 DEF CreateLists, TypeOK, Batch
    <3>2. PICK last \in LastPositions :
             listAt' = [l \in FileLists |->
                          IF l \in b.items THEN last + 1 + Index(l, b.items)
                          ELSE listAt[l]]
      BY <1>10, <2>2 DEF CreateLists
    <3>3. last \in Nat
      BY DEF LastPositions, LiveLists, TypeOK
    <3>4. \A l \in b.items : Index(l, b.items) \in Nat
      BY <2>1, IndexIsBounded DEF Batch
    <3>5. listAt' \in [FileLists -> Nat]
      BY <3>2, <3>3, <3>4 DEF TypeOK
    <3> QED
      BY <1>10, <2>2, <3>1, <3>5, FulfilKeepsTypes DEF CreateLists, TypeOK
  <2>3. CASE b.items \cap LiveLists # {}
    BY <1>10, <2>3, FulfilKeepsTypes DEF CreateLists, TypeOK
  <2> QED
    BY <2>2, <2>3
<1>11. ASSUME NEW b \in batches, CountByList(b) PROVE TypeOK'
  <2>1. b \in Batch /\ b.list \in FileLists
    BY <1>11 DEF CountByList, CardBatchesOK, CardBatches, TypeOK, Batch, FileLists
  <2> DEFINE first == IF listId[b.list] = b.id THEN TaskCount(b.list) ELSE 0
  <2>2. first \in Nat
    BY <2>1, ImportedIsFinite
  <2>3. [b EXCEPT !.stage = "insert", !.first = first] \in Batch
    BY <2>1, <2>2 DEF Batch
  <2> QED
    BY <1>11, <2>3 DEF CountByList, TypeOK, rows
<1>12. ASSUME NEW b \in batches, CreateManyTasks(b) PROVE TypeOK'
  <2>1. b \in Batch
    BY DEF TypeOK
  <2>2. CASE CanInsert(b)
    <3>1. \A c \in b.items : Index(c, b.items) \in Nat
      BY <2>1, IndexIsBounded DEF Batch
    <3>2. cardAt' \in [FileCards -> Nat \cup {-1}]
      BY <1>12, <2>1, <2>2, <3>1 DEF CreateManyTasks, TypeOK, Batch
    <3>3. [b EXCEPT !.stage = "announce"] \in Batch
      BY <2>1 DEF Batch
    <3> QED
      BY <1>12, <2>2, <3>2, <3>3 DEF CreateManyTasks, TypeOK
  <2>3. CASE ~CanInsert(b)
    BY <1>12, <2>3, FulfilKeepsTypes DEF CreateManyTasks, TypeOK
  <2> QED
    BY <2>2, <2>3
<1>13. ASSUME NEW b \in batches, Announce(b) PROVE TypeOK'
  BY <1>13, FulfilKeepsTypes DEF Announce, TypeOK, rows
<1>14. ASSUME NEW b \in batches, BatchFails(b) PROVE TypeOK'
  BY <1>14, FulfilKeepsTypes DEF BatchFails, TypeOK, rows
<1>15. ASSUME NEW l \in FileLists, AddTask(l) PROVE TypeOK'
  BY <1>15 DEF AddTask, TypeOK
<1>16. ASSUME NEW l \in FileLists, RemoveList(l) PROVE TypeOK'
  BY <1>16 DEF RemoveList, TypeOK
<1>17. CASE ReadAhead
  BY <1>17 DEF ReadAhead, TypeOK, Worker, rows
<1> QED
  BY <1>1, <1>2, <1>3, <1>4, <1>5, <1>6, <1>7, <1>8, <1>9, <1>10, <1>11,
     <1>12, <1>13, <1>14, <1>15, <1>16, <1>17 DEF Next, Work, Stream, Write

-----------------------------------------------------------------------------
(* Steps that leave the rows alone *)

LEMMA RowsStay ==
    ASSUME ImportInv, UNCHANGED <<listOf, rows>>, TypeOK',
           worker'.run >= worker.run
    PROVE  RowsOK' /\ ImportedInFileOrder'
<1>1. RowsOK'
  BY DEF ImportInv, TypeOK, Worker, RowsOK, TaskCount, Imported, rows
<1>2. ImportedInFileOrder'
  BY DEF ImportInv, ImportedInFileOrder, LiveLists, rows
<1> QED
  BY <1>1, <1>2

\* Losing batches does no harm to the others.
LEMMA BatchesGo ==
    ASSUME ImportInv, UNCHANGED <<listOf, rows>>, batches' \subseteq batches,
           worker'.run = worker.run, worker'.listIdMap = worker.listIdMap
    PROVE  BatchesOK' /\ CardBatchesOK'
<1>1. BatchesOK'
  BY DEF ImportInv, BatchesOK, ListBatches, CardBatches, rows
<1>2. CardBatchesOK'
  BY DEF ImportInv, CardBatchesOK, CardBatches, Unwritten, Imported, Before, TaskCount, rows
<1> QED
  BY <1>1, <1>2

LEMMA UploadKeeps == ASSUME ImportInv, TypeOK', Upload PROVE ImportInv'
<1>1. /\ worker'.run = worker.run /\ worker'.listIdMap = worker.listIdMap
      /\ worker'.phase = worker.phase
  BY DEF Upload, ImportInv, TypeOK, Worker
<1>2. worker.phase = "none" /\ worker.run < MaxRuns
  BY DEF Upload, ImportInv, TypeOK, JobState, JobOK, Worker, Phase
<1>3. RowsOK' /\ ImportedInFileOrder'
  BY <1>1, RowsStay DEF Upload, ImportInv, TypeOK, Worker
<1>4. BatchesOK' /\ CardBatchesOK'
  BY <1>1, BatchesGo DEF Upload
<1>5. JobOK' /\ CompletedMeansImported'
  BY <1>1, <1>2 DEF Upload, JobOK, CompletedMeansImported
<1>6. ListPhaseOK' /\ CardPhaseOK' /\ FullBatchesOK'
  BY <1>1, <1>2 DEF Upload, ListPhaseOK, CardPhaseOK, FullBatchesOK
<1> QED
  BY <1>3, <1>4, <1>5, <1>6 DEF ImportInv

LEMMA BeginKeeps == ASSUME ImportInv, TypeOK', Begin PROVE ImportInv'
<1>1. /\ worker'.run = worker.run + 1 /\ worker'.listIdMap = NoIds
      /\ worker'.phase = "lists" /\ worker'.cursor = 0
      /\ worker'.unsentLists = {} /\ worker'.tasksByList = NoBuffer
  BY DEF Begin, ImportInv, TypeOK, Worker
<1>2. worker.run \in Nat /\ \A b \in batches : b.run \in Nat \ {0} /\ b.run <= worker.run
  BY Sizes DEF ImportInv, BatchesOK, TypeOK, Worker, Batch
<1>3. RowsOK' /\ ImportedInFileOrder'
  BY <1>1, <1>2, RowsStay DEF Begin
<1>4. BatchesOK'
  BY <1>1, <1>2 DEF Begin, ImportInv, BatchesOK, ListBatches, CardBatches, NoIds, rows
<1>5. CardBatchesOK'
  BY DEF Begin, ImportInv, CardBatchesOK, CardBatches, Unwritten, Imported, Before,
         TaskCount, rows
<1>6. JobOK' /\ CompletedMeansImported'
  BY <1>1, <1>2 DEF Begin, JobOK, CompletedMeansImported
<1>7. ListPhaseOK'
  <2>1. \A k \in FileLists : listId'[k] # worker'.run
    BY <1>1, <1>2 DEF Begin, ImportInv, RowsOK, TypeOK, rows
  <2>2. \A b \in batches' : b.run # worker'.run
    BY <1>1, <1>2 DEF Begin
  <2>3. \A l \in FileLists : l > worker'.cursor
    BY <1>1, FilesAreNatural
  <2> QED
    BY <1>1, <2>1, <2>2, <2>3, Sizes DEF ListPhaseOK
<1>8. CardPhaseOK' /\ FullBatchesOK'
  BY <1>1 DEF Begin, CardPhaseOK, FullBatchesOK
<1> QED
  BY <1>3, <1>4, <1>5, <1>6, <1>7, <1>8 DEF ImportInv

\* The job ends with an error, and perhaps with some batches of any run.
LEMMA FailureKeeps ==
    ASSUME ImportInv, TypeOK', UNCHANGED <<listOf, rows>>, batches' \subseteq batches,
           \/ End("failed")
           \/ /\ job = "active" /\ job' = "waiting" /\ worker.run < MaxRuns
              /\ worker' = [worker EXCEPT !.stalled = TRUE, !.phase = "none"]
           \/ job # "active" /\ UNCHANGED <<job, worker>>
    PROVE  ImportInv'
<1>1. /\ worker'.run = worker.run /\ worker'.listIdMap = worker.listIdMap
      /\ worker'.phase = "none"
  BY DEF End, ImportInv, JobOK, TypeOK, Worker
<1>2. RowsOK' /\ ImportedInFileOrder'
  BY <1>1, RowsStay DEF ImportInv, TypeOK, Worker
<1>3. BatchesOK' /\ CardBatchesOK'
  BY <1>1, BatchesGo
<1>4. JobOK'
  BY <1>1 DEF End, ImportInv, JobOK, Paused
<1>5. CompletedMeansImported'
  BY <1>1 DEF End, ImportInv, CompletedMeansImported, Missing, rows
<1>6. ListPhaseOK' /\ CardPhaseOK'
  BY <1>1 DEF ListPhaseOK, CardPhaseOK
<1>7. FullBatchesOK'
  BY <1>1 DEF End, ImportInv, FullBatchesOK
<1> QED
  BY <1>2, <1>3, <1>4, <1>5, <1>6, <1>7 DEF ImportInv

LEMMA CrashKeeps == ASSUME ImportInv, TypeOK', Crash PROVE ImportInv'
BY FailureKeeps DEF Crash

LEMMA StreamFailsKeeps == ASSUME ImportInv, TypeOK', StreamFails PROVE ImportInv'
BY FailureKeeps DEF StreamFails

-----------------------------------------------------------------------------
(* The first stream *)

LEMMA StreamingIsActive ==
    ASSUME ImportInv, NEW phase, Streaming(phase)
    PROVE  /\ job = "active" /\ worker.phase = phase /\ worker.run \in Nat \ {0}
           /\ \A b \in batches : b.run \in Nat /\ b.run < worker.run
BY Sizes DEF ImportInv, JobOK, BatchesOK, Streaming, Paused, TypeOK, Worker, Batch

\* A new batch of lists, from a stream that is in its first phase.
LEMMA ListsAreSent ==
    ASSUME ImportInv, Streaming("lists"), UNCHANGED <<listOf, rows>>,
           worker'.run = worker.run, worker'.listIdMap = worker.listIdMap,
           NEW items \in SUBSET FileLists, NEW last, items # {},
           \A k \in FileLists, l \in items : listId[k] = worker.run => k < l,
           batches' = batches \cup {ListBatch(items, last)}
    PROVE  BatchesOK' /\ CardBatchesOK'
<1> DEFINE n == ListBatch(items, last)
<1>1. /\ n.run = worker.run /\ n.stage = "lists" /\ n.list = 0 /\ n.items = items
  BY DEF ListBatch
<1>2. \A b \in batches : b.run # worker.run /\ b.run \in Nat /\ b.run <= worker.run
  BY StreamingIsActive
<1>3. CardBatches' = CardBatches /\ ListBatches' = ListBatches \cup {n}
  BY <1>1 DEF CardBatches, ListBatches
<1>4. worker.run # 0 /\ worker.run \in Nat
  BY StreamingIsActive
<1>5. \A a \in CardBatches : a.id # worker.run
  <2>1. \A a \in CardBatches : a.id <= a.run /\ a.run < worker.run
    BY StreamingIsActive DEF ImportInv, CardBatchesOK, CardBatches
  <2>2. \A a \in CardBatches : a.id \in Nat /\ a.run \in Nat
    BY Sizes DEF CardBatches, ImportInv, TypeOK, Batch
  <2> QED
    BY <1>4, <2>1, <2>2
<1>6. \A l \in FileLists : worker.listIdMap[l] = 0
  BY StreamingIsActive DEF ImportInv, ListPhaseOK, NoIds
<1> HIDE DEF n
<1>7. BatchesOK'
  <2>1. \A a, b \in batches' : a.run = b.run /\ a.list = b.list => a = b
    BY <1>1, <1>2 DEF ImportInv, BatchesOK, n
  <2>2. \A b \in batches' : b.items # {} /\ b.run <= worker'.run
    BY <1>1, <1>2, <1>4 DEF ImportInv, BatchesOK, n
  <2>3. \A b \in ListBatches' :
          /\ b.items \subseteq FileLists /\ b.list = 0
          /\ \A k \in FileLists, l \in b.items : listId'[k] = b.run => k < l
          /\ \A l \in b.items : worker'.listIdMap[l] # b.run
          /\ \A l \in b.items, a \in CardBatches' : a.list = l => a.id # b.run
    BY <1>1, <1>3, <1>4, <1>5, <1>6 DEF ImportInv, BatchesOK, rows
  <2> QED
    BY <2>1, <2>2, <2>3 DEF BatchesOK
<1>8. CardBatchesOK'
  <2>1. Unwritten' = Unwritten
    BY <1>1 DEF Unwritten, n
  <2> QED
    BY <1>3, <2>1 DEF ImportInv, CardBatchesOK, Imported, Before, TaskCount, rows
<1> QED
  BY <1>7, <1>8

LEMMA ReadListKeeps == ASSUME ImportInv, TypeOK', ReadList PROVE ImportInv'
<1> DEFINE next == worker.cursor + 1
           unsent == worker.unsentLists \cup {next}
           rest == IF Full(unsent) THEN {} ELSE unsent
<1>1. Streaming("lists") /\ worker.cursor < NumLists /\ UNCHANGED <<listOf, rows, job>>
  BY DEF ReadList
<1>2. /\ worker.cursor \in Nat /\ next \in FileLists /\ unsent \in SUBSET FileLists
      /\ worker.unsentLists \subseteq 1..worker.cursor
  <2>1. worker.cursor \in Nat /\ worker.unsentLists \in SUBSET FileLists
    BY DEF ImportInv, TypeOK, Worker
  <2>2. next \in FileLists
    BY <1>1, <2>1, Sizes DEF FileLists
  <2>3. worker.unsentLists \subseteq 1..worker.cursor
    BY <1>1, StreamingIsActive DEF ImportInv, ListPhaseOK
  <2> QED
    BY <2>1, <2>2, <2>3
<1>3. /\ worker'.run = worker.run /\ worker'.listIdMap = worker.listIdMap
      /\ worker'.phase = "lists" /\ worker'.cursor = next /\ worker'.unsentLists = rest
      /\ worker'.tasksByList = worker.tasksByList
  BY <1>1 DEF ReadList, Streaming, ImportInv, TypeOK, Worker
<1>4. batches' = batches \cup IF Full(unsent) THEN {ListBatch(unsent, FALSE)} ELSE {}
  BY DEF ReadList
<1>5. \A k \in FileLists : listId[k] = worker.run =>
          k <= worker.cursor /\ \A l \in unsent : k < l
  <2>1. \A k \in FileLists : listId[k] = worker.run =>
            k <= worker.cursor /\ \A l \in worker.unsentLists : k < l
    BY <1>1, StreamingIsActive DEF ImportInv, ListPhaseOK
  <2>2. \A k \in FileLists : k \in Nat
    BY FilesAreNatural
  <2> QED
    BY <1>2, <2>1, <2>2
<1> HIDE DEF next, unsent, rest
<1>6. RowsOK' /\ ImportedInFileOrder'
  BY <1>1, <1>3, RowsStay DEF ImportInv, TypeOK, Worker
<1>7. BatchesOK' /\ CardBatchesOK'
  <2>1. CASE Full(unsent)
    <3>1. unsent # {}
      BY DEF unsent
    <3> QED
      BY <1>1, <1>2, <1>3, <1>4, <1>5, <2>1, <3>1, ListsAreSent
  <2>2. CASE ~Full(unsent)
    BY <1>1, <1>3, <1>4, <2>2, BatchesGo
  <2> QED
    BY <2>1, <2>2
<1>8. JobOK' /\ CompletedMeansImported'
  BY <1>1, <1>3, StreamingIsActive DEF ImportInv, JobOK, CompletedMeansImported
<1>9. ListPhaseOK'
  <2>1. rest = unsent \/ (rest = {} /\ ListBatch(unsent, FALSE) \in batches')
    BY <1>4 DEF rest
  <2>2. \A b \in batches' : b.run = worker'.run =>
            b.stage = "lists" /\ worker'.unsentLists = {} /\ b.items = unsent
    BY <1>1, <1>3, <1>4, StreamingIsActive DEF ListBatch, rest
  <2>3. \A l \in unsent : l <= next /\ l \in 1..next
    BY <1>2 DEF next, unsent
  <2>4. \A k \in FileLists : listId'[k] = worker'.run =>
              k <= worker'.cursor /\ \A l \in worker'.unsentLists : k < l
    <3>1. \A k \in FileLists : k <= worker.cursor => k <= next
      <4>1. \A k \in FileLists : k \in Nat
        BY FilesAreNatural
      <4> QED
        BY <1>2, <4>1 DEF next
    <3> QED
      BY <1>1, <1>3, <1>5, <3>1 DEF rest, rows
  <2>5. \A l \in FileLists :
              \/ l > worker'.cursor \/ l \in worker'.unsentLists
              \/ \E b \in batches' : b.run = worker'.run /\ l \in b.items
              \/ /\ Imported(l)' = {}
                 /\ \A b \in CardBatches' : b.list = l => b.id # listId'[l]
    <3> SUFFICES ASSUME NEW l \in FileLists, l <= next, l \notin unsent
                 PROVE  /\ Imported(l)' = {}
                        /\ \A b \in CardBatches' : b.list = l => b.id # listId'[l]
      <4>1. \A l \in FileLists : l > next \/ l <= next
        BY <1>2, FilesAreNatural DEF next
      <4>2. \A l \in unsent : \/ l \in worker'.unsentLists
                              \/ \E b \in batches' : b.run = worker'.run /\ l \in b.items
        BY <1>3, <2>1 DEF ListBatch
      <4> QED
        BY <1>3, <4>1, <4>2
    <3>1. l <= worker.cursor /\ l \notin worker.unsentLists
      BY <1>2, FilesAreNatural DEF next, unsent
    <3>2. /\ Imported(l) = {}
          /\ \A b \in CardBatches : b.list = l => b.id # listId[l]
      BY <1>1, <1>2, <3>1, StreamingIsActive, FilesAreNatural DEF ImportInv, ListPhaseOK
    <3>3. CardBatches' = CardBatches
      BY <1>4 DEF CardBatches, ListBatch
    <3> QED
      BY <1>1, <3>2, <3>3 DEF Imported, rows
  <2>6. /\ worker'.listIdMap = NoIds /\ worker'.tasksByList = NoBuffer
        /\ worker'.cursor <= NumLists /\ worker'.unsentLists \subseteq 1..worker'.cursor
    BY <1>1, <1>2, <1>3, <2>3, StreamingIsActive, Sizes
    DEF ImportInv, ListPhaseOK, rest, next
  <2> QED
    BY <1>3, <2>2, <2>3, <2>4, <2>5, <2>6 DEF ListPhaseOK
<1>10. CardPhaseOK' /\ FullBatchesOK'
  BY <1>1, <1>3, StreamingIsActive DEF CardPhaseOK, FullBatchesOK
<1> QED
  BY <1>6, <1>7, <1>8, <1>9, <1>10 DEF ImportInv

LEMMA EndListsKeeps == ASSUME ImportInv, TypeOK', EndLists PROVE ImportInv'
<1> DEFINE unsent == worker.unsentLists
<1>1. Streaming("lists") /\ worker.cursor = NumLists /\ UNCHANGED <<listOf, rows, job>>
  BY DEF EndLists
<1>2. /\ worker'.run = worker.run /\ worker'.listIdMap = worker.listIdMap
      /\ worker'.phase = (IF unsent = {} THEN "map" ELSE "lastLists")
      /\ worker'.cursor = NumLists /\ worker'.unsentLists = {}
      /\ worker'.tasksByList = worker.tasksByList
  BY <1>1 DEF EndLists, ImportInv, TypeOK, Worker
<1>3. batches' = batches \cup IF unsent = {} THEN {} ELSE {ListBatch(unsent, TRUE)}
  BY DEF EndLists
<1>4. unsent \in SUBSET FileLists
  BY DEF ImportInv, TypeOK, Worker
<1>5. \A k \in FileLists, l \in unsent : listId[k] = worker.run => k < l
  BY <1>1, StreamingIsActive DEF ImportInv, ListPhaseOK
<1>6. \A l \in FileLists : l <= NumLists /\ ~(l > NumLists)
  BY Sizes DEF FileLists
<1>7. RowsOK' /\ ImportedInFileOrder'
  BY <1>1, <1>2, RowsStay DEF ImportInv, TypeOK, Worker
<1>8. BatchesOK' /\ CardBatchesOK'
  <2>1. CASE unsent # {}
    BY <1>1, <1>2, <1>3, <1>4, <1>5, <2>1, ListsAreSent
  <2>2. CASE unsent = {}
    BY <1>1, <1>2, <1>3, <2>2, BatchesGo
  <2> QED
    BY <2>1, <2>2
<1>9. JobOK' /\ CompletedMeansImported'
  BY <1>1, <1>2, StreamingIsActive DEF ImportInv, JobOK, CompletedMeansImported
<1>10. ListPhaseOK'
  <2>1. \A b \in batches' : b.run = worker'.run => b.stage = "lists" /\ b.items = unsent
    BY <1>1, <1>2, <1>3, StreamingIsActive DEF ListBatch
  <2>2. unsent = {} => ~Paused'
    BY <1>1, <1>2, <1>3, StreamingIsActive DEF Paused
  <2>3. \A l \in FileLists :
              \/ \E b \in batches' : b.run = worker'.run /\ l \in b.items
              \/ /\ Imported(l)' = {}
                 /\ \A b \in CardBatches' : b.list = l => b.id # listId'[l]
    <3> SUFFICES ASSUME NEW l \in FileLists, l \notin unsent
                 PROVE  /\ Imported(l)' = {}
                        /\ \A b \in CardBatches' : b.list = l => b.id # listId'[l]
      <4>1. ListBatch(unsent, TRUE).run = worker.run /\ ListBatch(unsent, TRUE).items = unsent
        BY DEF ListBatch
      <4>2. unsent # {} => ListBatch(unsent, TRUE) \in batches'
        BY <1>3
      <4> QED
        BY <1>2, <4>1, <4>2
    <3>1. /\ Imported(l) = {}
          /\ \A b \in CardBatches : b.list = l => b.id # listId[l]
      BY <1>1, <1>6, StreamingIsActive DEF ImportInv, ListPhaseOK
    <3>2. CardBatches' = CardBatches
      BY <1>3 DEF CardBatches, ListBatch
    <3> QED
      BY <1>1, <3>1, <3>2 DEF Imported, rows
  <2>4. worker'.listIdMap = NoIds /\ worker'.tasksByList = NoBuffer
    BY <1>1, <1>2, StreamingIsActive DEF ImportInv, ListPhaseOK
  <2> QED
    BY <1>2, <1>4, <1>6, <2>1, <2>2, <2>3, <2>4, Sizes DEF ListPhaseOK
<1>11. CardPhaseOK' /\ FullBatchesOK'
  BY <1>1, <1>2, StreamingIsActive DEF CardPhaseOK, FullBatchesOK
<1> QED
  BY <1>7, <1>8, <1>9, <1>10, <1>11 DEF ImportInv

LEMMA BuildListIdMapKeeps == ASSUME ImportInv, TypeOK', BuildListIdMap PROVE ImportInv'
<1>1. Streaming("map") /\ UNCHANGED <<listOf, rows, job, batches>>
  BY DEF BuildListIdMap
<1>2. /\ worker'.run = worker.run /\ worker'.listIdMap = listId
      /\ worker'.phase = "cards" /\ worker'.cursor = 0 /\ worker'.unsentLists = {}
      /\ worker'.tasksByList = NoBuffer
  BY <1>1, StreamingIsActive DEF BuildListIdMap, ImportInv, ListPhaseOK, TypeOK, Worker
<1>3. \A b \in batches : b.run # worker.run
  BY <1>1, StreamingIsActive
<1>4. RowsOK' /\ ImportedInFileOrder'
  BY <1>1, <1>2, RowsStay DEF ImportInv, TypeOK, Worker
<1>5. BatchesOK'
  <2>1. \A b \in ListBatches : \A l \in b.items : listId[l] # b.run
    <3>1. \A l \in FileLists : ~(l < l)
      BY FilesAreNatural
    <3> QED
      BY <3>1 DEF ImportInv, BatchesOK
  <2> QED
    BY <1>1, <1>2, <2>1 DEF ImportInv, BatchesOK, ListBatches, CardBatches, rows
<1>6. CardBatchesOK'
  BY <1>1 DEF ImportInv, CardBatchesOK, CardBatches, Unwritten, Imported, Before,
              TaskCount, rows
<1>7. JobOK' /\ CompletedMeansImported'
  BY <1>1, <1>2, StreamingIsActive DEF ImportInv, JobOK, CompletedMeansImported
<1>8. ListPhaseOK'
  BY <1>2 DEF ListPhaseOK
<1>9. CardPhaseOK'
  <2>1. \A l \in FileLists :
            /\ Imported(l) = {}
            /\ \A b \in CardBatches : b.list = l => b.id # listId[l]
    <3>1. \A l \in FileLists : ~(l > worker.cursor) /\ l \notin worker.unsentLists
      BY <1>1, StreamingIsActive, Sizes DEF ImportInv, ListPhaseOK, FileLists
    <3> QED
      BY <1>1, <1>3, <3>1, StreamingIsActive DEF ImportInv, ListPhaseOK
  <2>2. \A l \in FileLists : /\ Taken(l)' = {} /\ Imported(l)' = {} /\ InBatches(l)' = {}
                             /\ worker'.tasksByList[l] = {}
    <3>1. \A c \in FileCards : ~(c <= 0)
      BY Sizes DEF FileCards
    <3> QED
      BY <1>1, <1>2, <1>3, <2>1, <3>1
      DEF Taken, Imported, InBatches, Unwritten, NoBuffer, rows
  <2>3. \A b \in batches : b.stage = "lists" \/ b.id # listId[b.list]
    BY <2>1 DEF CardBatches, ImportInv, CardBatchesOK, TypeOK, Batch, FileLists
  <2>4. \A l \in FileLists : listId[l] <= worker.run
    BY DEF ImportInv, RowsOK
  <2> QED
    BY <1>1, <1>2, <1>3, <2>2, <2>3, <2>4, Sizes DEF CardPhaseOK, IdsOfBatches, rows
<1>10. FullBatchesOK'
  BY <1>1, <1>2, <1>3 DEF FullBatchesOK
<1> QED
  BY <1>4, <1>5, <1>6, <1>7, <1>8, <1>9, <1>10 DEF ImportInv

-----------------------------------------------------------------------------
(* The second stream *)

\* items are the next cards of list l.
NextCards(items, l) ==
    /\ items # {} /\ items \subseteq {c \in FileCards : listOf[c] = l}
    /\ worker.listIdMap[l] # 0
    /\ listId[l] = worker.listIdMap[l] =>
          /\ Imported(l) = Before(items, l)
          /\ \A c \in FileCards :
                listOf[c] = l => \/ c \in items \/ c \in Before(items, l)
                                 \/ \A d \in items : d < c

\* The present run has no batch of list l under way.
NoBatchOf(l) == \A b \in batches : b.run = worker.run => b.list # l

\* New batches of cards, from a stream that is in its second phase.
LEMMA CardsAreSent ==
    ASSUME ImportInv, job = "active", worker.phase = "cards",
           UNCHANGED <<listOf, rows>>, TypeOK',
           worker'.run = worker.run, worker'.listIdMap = worker.listIdMap,
           NEW L \in SUBSET FileLists, NEW items, NEW last \in BOOLEAN,
           \A l \in L : NextCards(items[l], l) /\ NoBatchOf(l),
           batches' = batches \cup {CardBatch(l, items[l], last) : l \in L}
    PROVE  /\ BatchesOK' /\ CardBatchesOK' /\ IdsOfBatches'
           /\ \A l \in FileLists : InBatches(l)' = IF l \in L THEN items[l] ELSE InBatches(l)
<1> DEFINE n(l) == CardBatch(l, items[l], last)
<1>1. \A l \in L :
         /\ n(l).run = worker.run /\ n(l).stage = "count" /\ n(l).list = l
         /\ n(l).items = items[l] /\ n(l).id = worker.listIdMap[l]
  BY DEF CardBatch
<1>2. \A b \in batches : /\ b.run = worker.run => b.list \notin L
                         /\ b.run \in Nat /\ b.run <= worker.run
  BY Sizes DEF NoBatchOf, ImportInv, BatchesOK, TypeOK, Batch
<1>3. batches' = batches \cup {n(l) : l \in L}
  OBVIOUS
<1> HIDE DEF n
<1>4. /\ CardBatches' = CardBatches \cup {n(l) : l \in L}
      /\ ListBatches' = ListBatches
      /\ Unwritten' = Unwritten \cup {n(l) : l \in L}
  BY <1>1, <1>3 DEF CardBatches, ListBatches, Unwritten
<1>5. worker.run # 0 /\ worker.run \in Nat
  BY Sizes DEF ImportInv, JobOK, TypeOK, Worker
<1>6. L \subseteq Nat \ {0}
  BY FilesAreNatural
<1>7. \A b \in CardBatches : b.list \in L => b.id # worker.listIdMap[b.list]
  BY <1>2 DEF ImportInv, CardPhaseOK, IdsOfBatches, CardBatches
<1>8. BatchesOK'
  <2>1. \A a, b \in batches' : a.run = b.run /\ a.list = b.list => a = b
    BY <1>1, <1>2, <1>3 DEF ImportInv, BatchesOK
  <2>2. \A b \in batches' : b.items # {} /\ b.run <= worker'.run
    BY <1>1, <1>2, <1>3, <1>5 DEF ImportInv, BatchesOK, NextCards
  <2>3. \A b \in ListBatches' :
          /\ b.items \subseteq FileLists /\ b.list = 0
          /\ \A k \in FileLists, l \in b.items : listId'[k] = b.run => k < l
          /\ \A l \in b.items : worker'.listIdMap[l] # b.run
          /\ \A l \in b.items, a \in CardBatches' : a.list = l => a.id # b.run
    BY <1>1, <1>4 DEF ImportInv, BatchesOK, rows
  <2> QED
    BY <2>1, <2>2, <2>3 DEF BatchesOK
<1>9. CardBatchesOK'
  <2>1. \A b \in CardBatches' :
          /\ b.list # 0 /\ b.id # 0 /\ b.id <= b.run
          /\ b.items \subseteq {c \in FileCards : listOf'[c] = b.list}
    <3>1. \A l \in L : worker.listIdMap[l] <= worker.run
      BY DEF ImportInv, CardPhaseOK
    <3> QED
      BY <1>1, <1>4, <1>6, <3>1 DEF ImportInv, CardBatchesOK, NextCards
  <2>2. \A a, b \in CardBatches' : a.list = b.list /\ a.id = b.id => a = b
    BY <1>1, <1>4, <1>7 DEF ImportInv, CardBatchesOK
  <2>3. ASSUME NEW b \in Unwritten', listId'[b.list] = b.id
        PROVE  /\ Imported(b.list)' = Before(b.items, b.list)'
               /\ \A c \in FileCards :
                     listOf'[c] = b.list =>
                         \/ c \in b.items \/ c \in Before(b.items, b.list)'
                         \/ \A d \in b.items : d < c
               /\ b.stage = "insert" =>
                     /\ b.first <= TaskCount(b.list)'
                     /\ \A c \in Imported(b.list)' : cardAt'[c] < b.first
    <3>1. CASE b \in Unwritten
      BY <2>3, <3>1 DEF ImportInv, CardBatchesOK, Imported, Before, TaskCount, rows
    <3>2. CASE b \in {n(l) : l \in L}
      <4>1. PICK l \in L : b = n(l)
        BY <3>2
      <4>2. /\ Imported(l) = Before(items[l], l)
            /\ \A c \in FileCards :
                  listOf[c] = l => \/ c \in items[l] \/ c \in Before(items[l], l)
                                   \/ \A d \in items[l] : d < c
        BY <1>1, <2>3, <4>1 DEF NextCards, rows
      <4> QED
        BY <1>1, <4>1, <4>2 DEF Imported, Before, rows
    <3> QED
      BY <1>4, <3>1, <3>2
  <2> QED
    BY <2>1, <2>2, <2>3 DEF CardBatchesOK
<1>10. IdsOfBatches'
  <2>1. IdsOfBatches
    BY DEF ImportInv, CardPhaseOK
  <2>2. \A l \in L : n(l).run = worker'.run /\ n(l).stage # "lists"
                     /\ n(l).id = worker'.listIdMap[n(l).list]
    BY <1>1
  <2> QED
    BY <1>3, <2>1, <2>2 DEF IdsOfBatches
<1>11. ASSUME NEW l \in FileLists
       PROVE  InBatches(l)' = IF l \in L THEN items[l] ELSE InBatches(l)
  <2>0. CASE l \notin L
    <3>1. \A b : b \in Unwritten' /\ b.list = l <=> b \in Unwritten /\ b.list = l
      BY <1>1, <1>4, <2>0
    <3> QED
      BY <2>0, <3>1 DEF InBatches
  <2>1. l \in L => \A b \in Unwritten' : b.run = worker'.run /\ b.list = l => b = n(l)
    BY <1>1, <1>2, <1>4 DEF Unwritten
  <2>2. l \in L => n(l) \in Unwritten' /\ n(l).run = worker'.run /\ n(l).list = l
    BY <1>1, <1>4
  <2>3. l \in L => items[l] \subseteq FileCards
    BY DEF NextCards
  <2> QED
    BY <1>1, <2>0, <2>1, <2>2, <2>3 DEF InBatches
<1> QED
  BY <1>8, <1>9, <1>10, <1>11

\* With nothing of a list in a batch of the run, what was taken is imported.
LEMMA TakenIsImported ==
    ASSUME ImportInv, worker.phase = "cards", NEW l \in FileLists, NoBatchOf(l)
    PROVE  /\ InBatches(l) = {}
           /\ listId[l] # 0 /\ listId[l] = worker.listIdMap[l] => Imported(l) = Taken(l)
<1>1. InBatches(l) = {}
  BY DEF InBatches, Unwritten, NoBatchOf
<1>2. listId[l] # 0 /\ listId[l] = worker.listIdMap[l] => Taken(l) = Imported(l) \cup InBatches(l)
  BY DEF ImportInv, CardPhaseOK
<1> QED
  BY <1>1, <1>2

\* A stream that is not paused has no batch under way.
LEMMA StreamingHasNoBatch ==
    ASSUME Streaming("cards"), NEW l PROVE NoBatchOf(l) /\ worker.phase = "cards"
BY DEF Streaming, Paused, NoBatchOf

LEMMA ReadCardKeeps == ASSUME ImportInv, TypeOK', ReadCard PROVE ImportInv'
<1> DEFINE c == worker.cursor + 1
           l == listOf[c]
           unsent == worker.tasksByList[l] \cup {c}
<1>1. Streaming("cards") /\ worker.cursor < NumCards /\ UNCHANGED <<listOf, rows, job>>
  BY DEF ReadCard
<1>2. c \in FileCards /\ c \in Nat /\ worker.cursor \in Nat /\ c = worker.cursor + 1
  BY <1>1, Sizes DEF ImportInv, TypeOK, Worker, FileCards
<1>3. Mapped(c) => l \in FileLists /\ worker.listIdMap[l] # 0
  <2>1. listOf[c] \in 0..NumLists
    BY <1>2 DEF ImportInv, TypeOK
  <2> HIDE DEF c
  <2> QED
    BY <2>1, Sizes DEF Mapped, FileLists
<1>4. \/ /\ ~Mapped(c)
         /\ worker' = [worker EXCEPT !.cursor = c]
         /\ UNCHANGED batches
      \/ /\ Mapped(c) /\ ~Full(unsent)
         /\ worker' = [worker EXCEPT !.cursor = c, !.tasksByList[l] = unsent]
         /\ UNCHANGED batches
      \/ /\ Mapped(c) /\ Full(unsent)
         /\ worker' = [worker EXCEPT !.cursor = c, !.tasksByList[l] = {}]
         /\ batches' = batches \cup {CardBatch(l, unsent, FALSE)}
  BY DEF ReadCard
<1> DEFINE rest(k) == IF Mapped(c) /\ k = l THEN (IF Full(unsent) THEN {} ELSE unsent)
                                            ELSE worker.tasksByList[k]
<1> HIDE DEF c, l
<1>5. /\ worker'.run = worker.run /\ worker'.listIdMap = worker.listIdMap
      /\ worker'.phase = "cards" /\ worker'.cursor = c
      /\ worker'.unsentLists = worker.unsentLists
  BY <1>1, <1>4, StreamingIsActive DEF ImportInv, TypeOK, Worker
<1> HIDE DEF unsent
<1>6. \A k \in FileLists : worker'.tasksByList[k] = rest(k)
  <2>1. worker.tasksByList \in [FileLists -> SUBSET FileCards] /\ worker \in Worker
    BY DEF ImportInv, TypeOK, Worker
  <2>2. CASE ~Mapped(c)
    BY <1>4, <2>1, <2>2 DEF Worker
  <2>3. CASE Mapped(c) /\ ~Full(unsent)
    BY <1>3, <1>4, <2>1, <2>3 DEF Worker
  <2>4. CASE Mapped(c) /\ Full(unsent)
    BY <1>3, <1>4, <2>1, <2>4 DEF Worker
  <2> QED
    BY <2>2, <2>3, <2>4
<1>7. \A d \in FileCards : d \in Nat /\ (d <= c <=> d <= worker.cursor \/ d = c)
  <2>1. \A d \in FileCards : d \in Nat
    BY FilesAreNatural
  <2> QED
    BY <1>2, <2>1
<1>8. \A k \in FileLists : \A d \in worker.tasksByList[k] :
          /\ d \in FileCards /\ d \in Nat /\ listOf[d] = k
          /\ d <= worker.cursor /\ worker.listIdMap[k] # 0
          /\ \A e \in Taken(k) : e < d
  <2>1. \A k \in FileLists : worker.tasksByList[k] \subseteq FileCards
    BY DEF ImportInv, TypeOK, Worker
  <2>2. \A k \in FileLists : \A d \in worker.tasksByList[k] :
                /\ listOf[d] = k /\ d <= worker.cursor /\ worker.listIdMap[k] # 0
                /\ \A e \in Taken(k) : e < d
    BY <1>1, StreamingIsActive DEF ImportInv, CardPhaseOK
  <2> QED
    BY <1>7, <2>1, <2>2
<1>9. Mapped(c) => NextCards(unsent, l)
  <2> SUFFICES ASSUME Mapped(c) PROVE NextCards(unsent, l)
    OBVIOUS
  <2>1. unsent # {} /\ unsent \subseteq {d \in FileCards : listOf[d] = l}
    BY <1>2, <1>3, <1>8 DEF l, unsent
  <2>2. \A d \in unsent : d = c \/ d \in worker.tasksByList[l]
    BY DEF unsent
  <2>3. \A d \in unsent : d \in Nat /\ d <= c /\ d \in FileCards
    BY <1>2, <1>3, <1>7, <1>8, <2>2
  <2>4. \A d \in Taken(l) : d \in Before(unsent, l)
    <3>1. ASSUME NEW d \in Taken(l) PROVE d < c
      BY <1>2, <1>7 DEF Taken
    <3> QED
      BY <1>3, <1>8, <2>2, <3>1 DEF Taken, Before
  <2>5. \A d \in Before(unsent, l) : d \in Taken(l)
    <3> SUFFICES ASSUME NEW d \in Before(unsent, l) PROVE d \in Taken(l)
      OBVIOUS
    <3>1. d \in FileCards /\ listOf[d] = l /\ \A e \in unsent : d < e
      BY DEF Before
    <3>2. d < c /\ d \notin unsent
      BY <1>7, <3>1 DEF unsent
    <3> QED
      BY <1>2, <1>7, <3>1, <3>2 DEF Taken, unsent
  <2>6. listId[l] = worker.listIdMap[l] => Imported(l) = Before(unsent, l)
    BY <1>1, <1>3, <2>4, <2>5, TakenIsImported, StreamingHasNoBatch
  <2>7. ASSUME NEW d \in FileCards, listOf[d] = l
        PROVE  \/ d \in unsent \/ d \in Before(unsent, l)
               \/ \A e \in unsent : e < d
    <3>1. CASE d <= worker.cursor
      <4>1. d \in worker.tasksByList[l] \/ d \in Taken(l)
        BY <2>7, <3>1 DEF Taken
      <4> QED
        BY <2>4, <4>1 DEF unsent
    <3>2. CASE d = c
      BY <3>2 DEF unsent
    <3>3. CASE ~(d <= c)
      BY <1>2, <1>7, <2>3, <3>3
    <3> QED
      BY <1>7, <3>1, <3>2, <3>3
  <2> QED
    BY <1>3, <2>1, <2>6, <2>7 DEF NextCards
<1>10. /\ BatchesOK' /\ CardBatchesOK' /\ IdsOfBatches'
       /\ \A k \in FileLists :
             InBatches(k)' = IF Mapped(c) /\ Full(unsent) /\ k = l THEN unsent ELSE {}
  <2>1. CASE Mapped(c) /\ Full(unsent)
    <3> DEFINE items == [k \in {l} |-> unsent]
    <3>1. batches' = batches \cup {CardBatch(k, items[k], FALSE) : k \in {l}}
      BY <1>4, <2>1
    <3>2. \A k \in {l} : NextCards(items[k], k)
      BY <1>9, <2>1
    <3>3. {l} \in SUBSET FileLists
      BY <1>3, <2>1
    <3>4. items[l] = unsent
      OBVIOUS
    <3> HIDE DEF items
    <3>5. /\ BatchesOK' /\ CardBatchesOK' /\ IdsOfBatches'
          /\ \A k \in FileLists : InBatches(k)' = IF k \in {l} THEN items[k] ELSE {}
      <4>1. /\ \A k \in {l} : NextCards(items[k], k) /\ NoBatchOf(k)
            /\ worker.phase = "cards" /\ job = "active"
        BY <1>1, <3>2, StreamingHasNoBatch, StreamingIsActive
      <4>2. \A k \in FileLists : InBatches(k) = {}
        BY <1>1, TakenIsImported, StreamingHasNoBatch
      <4>3. /\ BatchesOK' /\ CardBatchesOK' /\ IdsOfBatches'
            /\ \A k \in FileLists :
                  InBatches(k)' = IF k \in {l} THEN items[k] ELSE InBatches(k)
        BY <1>1, <1>5, <3>1, <3>3, <4>1, CardsAreSent
      <4> QED
        BY <4>2, <4>3
    <3> QED
      BY <2>1, <3>4, <3>5
  <2>2. CASE ~(Mapped(c) /\ Full(unsent))
    <3>1. batches' = batches
      BY <1>4, <2>2
    <3>2. IdsOfBatches'
      BY <1>1, <1>5, <3>1, StreamingIsActive DEF ImportInv, CardPhaseOK, IdsOfBatches
    <3>3. \A k \in FileLists : InBatches(k)' = {}
      BY <1>1, <1>5, <3>1, TakenIsImported, StreamingHasNoBatch DEF InBatches, Unwritten
    <3> QED
      BY <1>1, <1>5, <2>2, <3>1, <3>2, <3>3, BatchesGo
  <2> QED
    BY <2>1, <2>2
<1>11. RowsOK' /\ ImportedInFileOrder'
  BY <1>1, <1>5, RowsStay DEF ImportInv, TypeOK, Worker
<1>12. JobOK' /\ CompletedMeansImported'
  BY <1>1, <1>5, StreamingIsActive DEF ImportInv, JobOK, CompletedMeansImported
<1>13. ListPhaseOK'
  BY <1>5 DEF ListPhaseOK
<1>14. CardPhaseOK'
  <2>1. ASSUME NEW k \in FileLists
        PROVE  Taken(k)' = Taken(k) \cup
                   IF Mapped(c) /\ Full(unsent) /\ k = l THEN unsent
                   ELSE IF ~Mapped(c) /\ k = l THEN {c} ELSE {}
    <3> DEFINE read == {d \in FileCards : listOf[d] = k /\ d <= c}
    <3>1. Taken(k)' = read \ rest(k)
      BY <1>1, <1>5, <1>6 DEF Taken
    <3>2. read = {d \in FileCards : listOf[d] = k /\ d <= worker.cursor}
                   \cup IF k = l THEN {c} ELSE {}
      BY <1>2, <1>7 DEF l
    <3>3. c \notin worker.tasksByList[k]
      BY <1>2, <1>8
    <3>4. worker.tasksByList[k] \subseteq {d \in FileCards : listOf[d] = k /\ d <= worker.cursor}
      BY <1>8
    <3> HIDE DEF read
    <3>5. CASE k # l
      BY <3>1, <3>2, <3>5 DEF Taken
    <3>6. CASE k = l /\ ~Mapped(c)
      BY <3>1, <3>2, <3>3, <3>6 DEF Taken
    <3>7. CASE k = l /\ Mapped(c) /\ ~Full(unsent)
      <4>1. ~(c <= worker.cursor)
        BY <1>2
      <4> QED
        BY <3>1, <3>2, <3>3, <3>7, <4>1 DEF Taken, unsent
    <3>8. CASE k = l /\ Mapped(c) /\ Full(unsent)
      BY <3>1, <3>2, <3>3, <3>4, <3>8 DEF Taken, unsent
    <3> QED
      BY <3>5, <3>6, <3>7, <3>8
  <2>2. ASSUME NEW k \in FileLists
        PROVE  /\ listId'[k] = worker'.run => worker'.listIdMap[k] = worker'.run
               /\ worker'.listIdMap[k] <= worker'.run
               /\ \A d \in worker'.tasksByList[k] :
                     /\ listOf'[d] = k /\ d <= worker'.cursor
                     /\ worker'.listIdMap[k] # 0
                     /\ \A e \in Taken(k)' : e < d
               /\ listId'[k] # 0 /\ listId'[k] = worker'.listIdMap[k] =>
                     Taken(k)' = Imported(k)' \cup InBatches(k)'
    <3>1. /\ listId'[k] = worker'.run => worker'.listIdMap[k] = worker'.run
          /\ worker'.listIdMap[k] <= worker'.run
      BY <1>1, <1>5, StreamingIsActive DEF ImportInv, CardPhaseOK, rows
    <3>2. ASSUME NEW d \in worker'.tasksByList[k]
          PROVE  /\ listOf'[d] = k /\ d <= worker'.cursor
                 /\ worker'.listIdMap[k] # 0
                 /\ \A e \in Taken(k)' : e < d
      <4>1. CASE d \in worker.tasksByList[k]
        <5>1. ~(~Mapped(c) /\ k = l)
          BY <1>8, <4>1, FilesAreNatural DEF Mapped, l
        <5>2. ~(Mapped(c) /\ Full(unsent) /\ k = l)
          BY <1>6, <3>2
        <5>3. d <= c
          BY <1>7, <1>8, <4>1
        <5> QED
          BY <1>1, <1>5, <1>8, <2>1, <4>1, <5>1, <5>2, <5>3
      <4>2. CASE Mapped(c) /\ ~Full(unsent) /\ k = l /\ d = c
        <5>1. \A e \in Taken(k) : e < c
          BY <1>2, <1>7 DEF Taken
        <5> QED
          BY <1>1, <1>2, <1>3, <1>5, <2>1, <4>2, <5>1 DEF l
      <4> QED
        BY <1>6, <3>2, <4>1, <4>2 DEF unsent
    <3>3. ASSUME listId'[k] # 0, listId'[k] = worker'.listIdMap[k]
          PROVE  Taken(k)' = Imported(k)' \cup InBatches(k)'
      <4>1. Imported(k)' = Taken(k)
        <5>1. Imported(k) = Taken(k)
          BY <1>1, <1>5, <3>3, TakenIsImported, StreamingHasNoBatch DEF rows
        <5> QED
          BY <1>1, <5>1 DEF Imported, rows
      <4>2. ~(~Mapped(c) /\ k = l)
        BY <1>1, <1>5, <3>3, FilesAreNatural DEF Mapped, l, rows
      <4> QED
        BY <1>10, <2>1, <4>1, <4>2
    <3> QED
      BY <3>1, <3>2, <3>3
  <2>3. worker'.unsentLists = {} /\ worker'.cursor <= NumCards
    BY <1>1, <1>2, <1>5, StreamingIsActive, Sizes DEF ImportInv, CardPhaseOK
  <2> QED
    BY <1>5, <1>10, <2>2, <2>3 DEF CardPhaseOK
<1>15. FullBatchesOK'
  <2>1. \A b \in batches : b.run # worker.run
    BY <1>1, StreamingIsActive
  <2>2. job' = "active"
    BY <1>1, StreamingIsActive
  <2>3. CASE ~(Mapped(c) /\ Full(unsent))
    <3>1. batches' = batches
      BY <1>4, <2>3
    <3> QED
      BY <1>5, <2>1, <3>1 DEF FullBatchesOK
  <2>4. CASE Mapped(c) /\ Full(unsent)
    <3> DEFINE n == CardBatch(l, unsent, FALSE)
    <3>1. /\ n.run = worker.run /\ n.stage = "count" /\ n.list = l /\ ~n.last
          /\ n.items = unsent
      BY DEF CardBatch
    <3>2. batches' = batches \cup {n}
      BY <1>4, <2>4
    <3> HIDE DEF n
    <3>3. worker'.tasksByList[l] = {}
      BY <1>3, <1>6, <2>4
    <3>4. Cardinality(unsent) = BatchSize
      <4>1. worker.tasksByList[l] \subseteq FileCards
            /\ Cardinality(worker.tasksByList[l]) < BatchSize
        BY <1>3, <2>4 DEF ImportInv, TypeOK, Worker
      <4>2. IsFiniteSet(worker.tasksByList[l]) /\ Cardinality(worker.tasksByList[l]) \in Nat
        BY <4>1, FilesAreFinite, FS_CardinalityType
      <4>3. Cardinality(unsent) \in {Cardinality(worker.tasksByList[l]),
                                    Cardinality(worker.tasksByList[l]) + 1}
        BY <4>2, FS_AddElement DEF unsent
      <4>4. Cardinality(unsent) >= BatchSize
        BY <2>4 DEF Full
      <4> QED
        BY <4>1, <4>2, <4>3, <4>4, Sizes
    <3>5. c \in unsent
      BY DEF unsent
    <3>6. \A b \in batches' : b.run = worker'.run => b = n
      BY <1>5, <2>1, <3>2
    <3> QED
      BY <1>5, <2>2, <3>1, <3>3, <3>4, <3>5, <3>6 DEF FullBatchesOK
  <2> QED
    BY <2>3, <2>4
<1> QED
  BY <1>10, <1>11, <1>12, <1>13, <1>14, <1>15 DEF ImportInv

LEMMA ReadAheadKeeps == ASSUME ImportInv, TypeOK', ReadAhead PROVE ImportInv'
<1>1. /\ job = "active" /\ worker.phase = "cards"
      /\ UNCHANGED <<listOf, rows, job, batches>>
  BY DEF ReadAhead
<1>2. /\ worker'.run = worker.run /\ worker'.listIdMap = worker.listIdMap
      /\ worker'.phase = worker.phase /\ worker'.cursor = worker.cursor
      /\ worker'.unsentLists = worker.unsentLists
      /\ worker'.tasksByList = worker.tasksByList
  BY DEF ReadAhead, ImportInv, TypeOK, Worker
<1>3. RowsOK' /\ ImportedInFileOrder'
  BY <1>1, <1>2, RowsStay DEF ImportInv, TypeOK, Worker
<1>4. BatchesOK' /\ CardBatchesOK'
  BY <1>1, <1>2, BatchesGo
<1>5. JobOK' /\ CompletedMeansImported' /\ ListPhaseOK'
  BY <1>1, <1>2 DEF ImportInv, JobOK, CompletedMeansImported, ListPhaseOK
<1>6. CardPhaseOK' /\ FullBatchesOK'
  BY <1>1, <1>2 DEF ImportInv, CardPhaseOK, IdsOfBatches, Taken, Imported, InBatches,
                    Unwritten, FullBatchesOK, rows
<1> QED
  BY <1>3, <1>4, <1>5, <1>6 DEF ImportInv

\* With the stream at its end, all cards of a list without a buffer are taken.
LEMMA AllAreTaken ==
    ASSUME ImportInv, worker.cursor = NumCards, NEW l \in FileLists
    PROVE  Taken(l) = {c \in FileCards : listOf[c] = l} \ worker.tasksByList[l]
<1>1. \A c \in FileCards : c <= NumCards
  BY Sizes DEF FileCards
<1> QED
  BY <1>1 DEF Taken

\* When all cards have been given to batches and the partial batches are written,
\* then what is missing is in the full batch that the last card has filled.
LEMMA OneBatchIsMissing ==
    ASSUME ImportInv, job = "active", worker.phase \in {"cards", "lastCards"},
           worker.cursor = NumCards,
           \A l \in FileLists : worker.tasksByList[l] = {},
           \A b \in Unwritten : b.run = worker.run => ~b.last,
           Missing # {}
    PROVE  \E b \in Unwritten :
               /\ b.run = worker.run /\ ~b.last /\ Missing = b.items
               /\ NumCards \in Missing /\ Cardinality(Missing) = BatchSize
               /\ \A c \in Missing : listOf[c] = b.list
<1>1. ASSUME NEW c \in Missing
      PROVE  \E b \in Unwritten : /\ b.run = worker.run /\ b.list = listOf[c] /\ c \in b.items
                                  /\ b.id = worker.run /\ listId[b.list] = b.id
  <2> DEFINE l == listOf[c]
  <2>1. c \in FileCards /\ l # 0 /\ listId[l] = worker.run /\ cardAt[c] = -1
    BY DEF Missing
  <2>2. l \in FileLists
    BY <2>1, Sizes DEF ImportInv, TypeOK, FileLists
  <2>3. worker.run # 0
    BY Sizes DEF ImportInv, JobOK, TypeOK, Worker
  <2>4. worker.listIdMap[l] = worker.run /\ Taken(l) = Imported(l) \cup InBatches(l)
    BY <2>1, <2>2, <2>3 DEF ImportInv, CardPhaseOK
  <2>5. c \in Taken(l) /\ c \notin Imported(l)
    BY <2>1, <2>2, AllAreTaken DEF Imported
  <2>6. PICK b \in Unwritten : b.run = worker.run /\ b.list = l /\ c \in b.items
    BY <2>4, <2>5 DEF InBatches
  <2>7. b.id = worker.run
    BY <2>4, <2>6 DEF ImportInv, CardPhaseOK, IdsOfBatches, Unwritten
  <2> QED
    BY <2>1, <2>6, <2>7
<1>2. PICK c \in Missing : TRUE
  OBVIOUS
<1>3. PICK b \in Unwritten : /\ b.run = worker.run /\ b.list = listOf[c] /\ c \in b.items
                             /\ b.id = worker.run /\ listId[b.list] = b.id
  BY <1>1
<1>4. \A a \in Unwritten : a.run = worker.run =>
          NumCards \in a.items /\ Cardinality(a.items) = BatchSize
  BY DEF ImportInv, FullBatchesOK, Unwritten
<1>5. \A a \in Unwritten : a \in CardBatches /\ a \in batches
  BY DEF Unwritten, CardBatches
<1>6. \A a \in Unwritten : \A d \in a.items : d \in FileCards /\ listOf[d] = a.list
  BY <1>5 DEF ImportInv, CardBatchesOK
<1>7. \A a \in Unwritten : a.run = worker.run => a = b
  BY <1>3, <1>4, <1>5, <1>6 DEF ImportInv, BatchesOK
<1>8. Missing \subseteq b.items
  BY <1>1, <1>7
<1>9. b.items \subseteq Missing
  <2> SUFFICES ASSUME NEW d \in b.items PROVE d \in Missing
    OBVIOUS
  <2>1. d \in FileCards /\ listOf[d] = b.list /\ b.list # 0
    BY <1>5, <1>6 DEF ImportInv, CardBatchesOK
  <2>2. Imported(b.list) = Before(b.items, b.list)
    BY <1>3 DEF ImportInv, CardBatchesOK
  <2>3. d \notin Before(b.items, b.list)
    BY <2>1, FilesAreNatural DEF Before
  <2>4. cardAt[d] = -1
    BY <2>1, <2>2, <2>3 DEF Imported
  <2> QED
    BY <1>3, <2>1, <2>4 DEF Missing
<1>10. Missing = b.items
  BY <1>8, <1>9
<1>11. NumCards \in Missing /\ Cardinality(Missing) = BatchSize
  BY <1>3, <1>4, <1>10
<1>12. \A d \in Missing : listOf[d] = b.list
  BY <1>6, <1>10
<1> QED
  BY <1>3, <1>10, <1>11, <1>12

\* So the job may report "completed".
LEMMA OnlyOneBatchIsMissing ==
    ASSUME ImportInv, job = "active", worker.phase \in {"cards", "lastCards"},
           worker.cursor = NumCards,
           \A l \in FileLists : worker.tasksByList[l] = {},
           \A b \in Unwritten : b.run = worker.run => ~b.last,
           worker.phase = "cards" => worker.drained \/ ~Paused,
           UNCHANGED <<listOf, rows>>, worker'.run = worker.run,
           worker'.drained = worker.drained
    PROVE  CompletedMeansImported'
<1>1. Missing' = Missing
  BY DEF Missing, rows
<1>2. CASE Missing = {}
  BY <1>1, <1>2 DEF CompletedMeansImported
<1>3. CASE Missing # {}
  <2>1. PICK b \in Unwritten :
               /\ b.run = worker.run /\ ~b.last /\ Missing = b.items
               /\ NumCards \in Missing /\ Cardinality(Missing) = BatchSize
               /\ \A c \in Missing : listOf[c] = b.list
    BY <1>3, OneBatchIsMissing
  <2>2. Paused /\ b \in batches
    BY <2>1 DEF Paused, Unwritten
  <2>3. worker.drained
    BY <2>1, <2>2 DEF ImportInv, FullBatchesOK
  <2> QED
    BY <1>1, <2>1, <2>3 DEF CompletedMeansImported
<1> QED
  BY <1>2, <1>3

LEMMA EndCardsKeeps == ASSUME ImportInv, TypeOK', EndCards PROVE ImportInv'
<1> DEFINE left == {l \in FileLists : worker.tasksByList[l] # {}}
<1>1. /\ job = "active" /\ worker.phase = "cards" /\ worker.cursor = NumCards
      /\ worker.drained \/ ~Paused
      /\ UNCHANGED <<listOf, rows>>
  BY DEF EndCards, CardsEnd
<1>a. \A b \in batches : b.run = worker.run =>
          /\ ~b.last /\ worker.tasksByList[b.list] = {} /\ b.stage # "lists"
          /\ NumCards \in b.items /\ Cardinality(b.items) = BatchSize
          /\ worker.drained
  BY <1>1 DEF ImportInv, FullBatchesOK, Paused
<1>2. CASE left = {}
  <2>1. End("completed") /\ batches' = batches
    BY <1>2 DEF EndCards
  <2>2. /\ worker'.run = worker.run /\ worker'.listIdMap = worker.listIdMap
        /\ worker'.phase = "none" /\ job' = "completed"
        /\ worker'.drained = worker.drained /\ worker'.cursor = worker.cursor
        /\ worker'.tasksByList = worker.tasksByList
    BY <2>1 DEF End, ImportInv, TypeOK, Worker
  <2>3. RowsOK' /\ ImportedInFileOrder'
    BY <1>1, <2>2, RowsStay DEF ImportInv, TypeOK, Worker
  <2>4. BatchesOK' /\ CardBatchesOK'
    BY <1>1, <2>1, <2>2, BatchesGo
  <2>5. JobOK'
    BY <1>1, <2>2 DEF ImportInv, JobOK
  <2>6. CompletedMeansImported'
    <3>1. \A b \in Unwritten : b.run = worker.run => ~b.last
      BY <1>a DEF Unwritten
    <3>2. \A l \in FileLists : worker.tasksByList[l] = {}
      BY <1>2
    <3> QED
      BY <1>1, <2>2, <3>1, <3>2, OnlyOneBatchIsMissing
  <2>7. FullBatchesOK'
    BY <1>1, <1>a, <2>1, <2>2 DEF FullBatchesOK
  <2> QED
    BY <2>2, <2>3, <2>4, <2>5, <2>6, <2>7 DEF ImportInv, ListPhaseOK, CardPhaseOK
<1>3. CASE left # {}
  <2>1. /\ batches' = batches \cup {CardBatch(l, worker.tasksByList[l], TRUE) : l \in left}
        /\ worker' = [worker EXCEPT !.phase = "lastCards", !.tasksByList = NoBuffer]
        /\ job' = job
    BY <1>3 DEF EndCards
  <2>2. /\ worker'.run = worker.run /\ worker'.listIdMap = worker.listIdMap
        /\ worker'.phase = "lastCards" /\ worker'.cursor = NumCards
        /\ worker'.drained = worker.drained
        /\ worker'.tasksByList = NoBuffer /\ worker'.unsentLists = worker.unsentLists
    BY <1>1, <2>1 DEF ImportInv, TypeOK, Worker
  <2>3. \A l \in FileLists : \A d \in worker.tasksByList[l] :
            /\ d \in FileCards /\ d \in Nat /\ listOf[d] = l /\ worker.listIdMap[l] # 0
            /\ \A c \in Taken(l) : c < d
    <3>1. \A l \in FileLists : worker.tasksByList[l] \subseteq FileCards
      BY DEF ImportInv, TypeOK, Worker
    <3> QED
      BY <1>1, <3>1, FilesAreNatural DEF ImportInv, CardPhaseOK
  <2>4. ASSUME NEW l \in left PROVE NextCards(worker.tasksByList[l], l) /\ NoBatchOf(l)
    <3> DEFINE items == worker.tasksByList[l]
    <3>1. l \in FileLists /\ items # {}
      OBVIOUS
    <3>2. worker.listIdMap[l] # 0 /\ items \subseteq {c \in FileCards : listOf[c] = l}
      BY <2>3, <3>1
    <3>3. \A c \in FileCards : ~(c < c)
      BY FilesAreNatural
    <3>4. Before(items, l) = Taken(l)
      BY <1>1, <2>3, <3>1, <3>3, AllAreTaken DEF Before
    <3>5. \A c \in FileCards : listOf[c] = l => c \in items \/ c \in Before(items, l)
      BY <1>1, <3>1, <3>4, AllAreTaken
    <3>6. NoBatchOf(l)
      BY <1>a, <3>1 DEF NoBatchOf
    <3> QED
      BY <1>1, <3>1, <3>2, <3>4, <3>5, <3>6, TakenIsImported DEF NextCards
  <2>5. /\ BatchesOK' /\ CardBatchesOK' /\ IdsOfBatches'
        /\ \A l \in FileLists :
              InBatches(l)' = IF l \in left THEN worker.tasksByList[l] ELSE InBatches(l)
    <3> HIDE DEF left
    <3>1. left \in SUBSET FileLists
      BY DEF left
    <3> QED
      BY <1>1, <2>1, <2>2, <2>4, <3>1, CardsAreSent
  <2>6. RowsOK' /\ ImportedInFileOrder'
    BY <1>1, <2>2, RowsStay DEF ImportInv, TypeOK, Worker
  <2>7. JobOK' /\ CompletedMeansImported'
    BY <1>1, <2>1, <2>2 DEF ImportInv, JobOK, CompletedMeansImported
  <2>8. ASSUME NEW l \in FileLists, listId[l] # 0, listId[l] = worker.listIdMap[l]
        PROVE  Taken(l)' = Imported(l)' \cup InBatches(l)'
    <3>1. Imported(l)' = Imported(l)
      BY <1>1 DEF Imported, rows
    <3>2. Taken(l) = Imported(l) \cup InBatches(l)
      BY <1>1, <2>8 DEF ImportInv, CardPhaseOK
    <3>3. Taken(l)' = {c \in FileCards : listOf[c] = l}
      <4>1. \A c \in FileCards : c <= NumCards
        BY Sizes DEF FileCards
      <4> QED
        BY <1>1, <2>2, <4>1 DEF Taken, NoBuffer
    <3>4. worker.tasksByList[l] \subseteq {c \in FileCards : listOf[c] = l}
      BY <2>3
    <3>5. Taken(l) = {c \in FileCards : listOf[c] = l} \ worker.tasksByList[l]
      BY <1>1, AllAreTaken
    <3>6. CASE l \in left
      <4>1. InBatches(l) = {}
        BY <1>1, <2>4, <3>6, TakenIsImported
      <4> QED
        BY <2>5, <3>1, <3>2, <3>3, <3>4, <3>5, <3>6, <4>1
    <3>7. CASE l \notin left
      <4>1. worker.tasksByList[l] = {}
        BY <3>7
      <4> QED
        BY <2>5, <3>1, <3>2, <3>3, <3>5, <3>7, <4>1
    <3> QED
      BY <3>6, <3>7
  <2>9. CardPhaseOK'
    <3>1. \A l \in FileLists :
              /\ listId[l] = worker.run => worker.listIdMap[l] = worker.run
              /\ worker.listIdMap[l] <= worker.run
      BY <1>1 DEF ImportInv, CardPhaseOK
    <3>2. worker.unsentLists = {} /\ NumCards <= NumCards
      BY <1>1, Sizes DEF ImportInv, CardPhaseOK
    <3>3. \A l \in FileLists : worker'.tasksByList[l] = {}
      BY <2>2 DEF NoBuffer
    <3> QED
      BY <1>1, <2>2, <2>5, <2>8, <3>1, <3>2, <3>3 DEF CardPhaseOK, rows
  <2>10. FullBatchesOK'
    <3>1. \A b \in batches' : b \in batches \/ (b.last /\ b.stage # "lists" /\ b.list \in left)
      <4>1. \A l : CardBatch(l, worker.tasksByList[l], TRUE).last
        BY DEF CardBatch
      <4>2. \A l : /\ CardBatch(l, worker.tasksByList[l], TRUE).stage # "lists"
                  /\ CardBatch(l, worker.tasksByList[l], TRUE).list = l
        BY DEF CardBatch
      <4> HIDE DEF left
      <4>3. \A b \in batches' \ batches :
                \E l \in left : b = CardBatch(l, worker.tasksByList[l], TRUE)
        BY <2>1
      <4> SUFFICES ASSUME NEW b \in batches' \ batches
                   PROVE  b.last /\ b.stage # "lists" /\ b.list \in left
        OBVIOUS
      <4>4. PICK l \in left : b = CardBatch(l, worker.tasksByList[l], TRUE)
        BY <4>3
      <4>5. b.last
        BY <4>1, <4>4
      <4>6. b.stage # "lists" /\ b.list \in left
        BY <4>2, <4>4
      <4> QED
        BY <4>5, <4>6
    <3>2. \A b \in batches : b.run = worker.run => b.list \in FileLists
      <4>1. \A b \in batches : b.list \in 0..NumLists
        BY DEF ImportInv, TypeOK, Batch
      <4>2. \A b \in batches : b.run = worker.run => b.list # 0
        BY <1>a DEF ImportInv, CardBatchesOK, CardBatches
      <4> QED
        BY <4>1, <4>2, Sizes DEF FileLists
    <3>3. \A l \in FileLists : worker'.tasksByList[l] = {}
      BY <2>2 DEF NoBuffer
    <3>4. job' = "active"
      BY <1>1, <2>1
    <3> HIDE DEF left
    <3>5. left \subseteq FileLists
      BY DEF left
    <3> QED
      BY <1>a, <2>2, <3>1, <3>2, <3>3, <3>4, <3>5 DEF FullBatchesOK
  <2> QED
    BY <2>2, <2>5, <2>6, <2>7, <2>9, <2>10 DEF ImportInv, ListPhaseOK
<1> QED
  BY <1>2, <1>3

-----------------------------------------------------------------------------
(* Batches that end without a write *)

\* A batch that the worker does not wait for, whatever becomes of it.
LEMMA OtherBatchEndsKeeps ==
    ASSUME ImportInv, TypeOK', NEW b \in batches, ~Current(b),
           batches' = batches \ {b}, UNCHANGED <<listOf, rows, worker, job>>
    PROVE  ImportInv'
<1>1. RowsOK' /\ ImportedInFileOrder'
  BY RowsStay DEF ImportInv, TypeOK, Worker
<1>2. BatchesOK' /\ CardBatchesOK'
  BY BatchesGo
<1>3. JobOK' /\ CompletedMeansImported' /\ FullBatchesOK'
  BY DEF ImportInv, JobOK, CompletedMeansImported, Missing, FullBatchesOK, rows
<1>4. CASE job # "active"
  <2>1. worker'.phase = "none"
    BY <1>4 DEF ImportInv, JobOK
  <2> QED
    BY <1>1, <1>2, <1>3, <2>1 DEF ImportInv, ListPhaseOK, CardPhaseOK
<1>5. CASE b.run # worker.run
  <2>1. ListPhaseOK'
    BY <1>5 DEF ImportInv, ListPhaseOK, Paused, CardBatches, Imported, rows
  <2>2. \A l \in FileLists : InBatches(l)' = InBatches(l)
    BY <1>5 DEF InBatches, Unwritten
  <2>3. CardPhaseOK'
    BY <2>2 DEF ImportInv, CardPhaseOK, IdsOfBatches, Taken, Imported, rows
  <2> QED
    BY <1>1, <1>2, <1>3, <2>1, <2>3 DEF ImportInv
<1> QED
  BY <1>4, <1>5 DEF Current

LEMMA RejectKeeps ==
    ASSUME ImportInv, TypeOK', NEW b \in batches, Reject(b), UNCHANGED <<listOf, rows>>
    PROVE  ImportInv'
<1>1. CASE Current(b)
  BY <1>1, FailureKeeps DEF Reject
<1>2. CASE ~Current(b)
  BY <1>2, OtherBatchEndsKeeps DEF Reject
<1> QED
  BY <1>1, <1>2

\* What the phase of the worker says of a batch it waits for.
LEMMA CurrentBatch ==
    ASSUME ImportInv, NEW b \in batches, Current(b)
    PROVE  IF b.stage = "lists" THEN worker.phase \in {"lists", "lastLists"}
                                ELSE worker.phase \in {"cards", "lastCards"}
BY DEF ImportInv, Current, JobOK, TypeOK, Worker, Phase, ListPhaseOK, CardPhaseOK,
       IdsOfBatches, Paused

LEMMA AnnounceKeeps ==
    ASSUME ImportInv, TypeOK', NEW b \in batches, Announce(b) PROVE ImportInv'
<1>1. Fulfil(b) /\ b.stage = "announce" /\ UNCHANGED <<listOf, rows>>
      /\ batches' = batches \ {b}
  BY DEF Announce, Fulfil
<1>2. CASE ~Current(b)
  BY <1>1, <1>2, OtherBatchEndsKeeps DEF Fulfil
<1>3. CASE Current(b)
  <2>1. worker.phase \in {"cards", "lastCards"} /\ job = "active" /\ b.run = worker.run
    BY <1>1, <1>3, CurrentBatch DEF Current
  <2>2. \A l \in FileLists : InBatches(l)' = InBatches(l) \/ worker'.run # worker.run
    BY <1>1 DEF InBatches, Unwritten
  <2>3. CASE UNCHANGED <<worker, job>>
    <3>1. RowsOK' /\ ImportedInFileOrder'
      BY <1>1, <2>3, RowsStay DEF ImportInv, TypeOK, Worker
    <3>2. BatchesOK' /\ CardBatchesOK'
      BY <1>1, <2>3, BatchesGo
    <3>3. JobOK' /\ CompletedMeansImported'
      BY <2>1, <2>3 DEF ImportInv, JobOK, CompletedMeansImported
    <3>4. ListPhaseOK' /\ CardPhaseOK'
      BY <1>1, <2>1, <2>2, <2>3
      DEF ImportInv, ListPhaseOK, CardPhaseOK, IdsOfBatches, Taken, Imported, rows
    <3>5. FullBatchesOK'
      BY <1>1, <2>3 DEF ImportInv, FullBatchesOK
    <3> QED
      BY <3>1, <3>2, <3>3, <3>4, <3>5 DEF ImportInv
  <2>4. CASE worker.phase = "lastCards" /\ End("completed")
             /\ \A a \in batches' : a.run = b.run => ~a.last
    <3>1. /\ worker'.run = worker.run /\ worker'.listIdMap = worker.listIdMap
          /\ worker'.phase = "none" /\ job' = "completed"
          /\ worker'.drained = worker.drained /\ worker'.cursor = worker.cursor
          /\ worker'.tasksByList = worker.tasksByList
      BY <2>4 DEF End, ImportInv, TypeOK, Worker
    <3>2. RowsOK' /\ ImportedInFileOrder'
      BY <1>1, <3>1, RowsStay DEF ImportInv, TypeOK, Worker
    <3>3. BatchesOK' /\ CardBatchesOK'
      BY <1>1, <3>1, BatchesGo
    <3>4. JobOK'
      BY <2>1, <3>1 DEF ImportInv, JobOK
    <3>5. CompletedMeansImported'
      <4>1. worker.cursor = NumCards /\ \A l \in FileLists : worker.tasksByList[l] = {}
        BY <2>1, <2>4 DEF ImportInv, CardPhaseOK, NoBuffer
      <4>2. \A a \in Unwritten : a.run = worker.run => ~a.last
        BY <1>1, <2>1, <2>4 DEF Unwritten
      <4> QED
        BY <1>1, <2>1, <2>4, <3>1, <4>1, <4>2, OnlyOneBatchIsMissing
    <3>6. FullBatchesOK'
      BY <1>1, <2>1, <2>4, <3>1 DEF ImportInv, FullBatchesOK
    <3> QED
      BY <3>1, <3>2, <3>3, <3>4, <3>5, <3>6 DEF ImportInv, ListPhaseOK, CardPhaseOK
  <2> QED
    BY <1>1, <1>3, <2>1, <2>3, <2>4 DEF Fulfil
<1> QED
  BY <1>2, <1>3

\* A batch of cards goes on to its next stage.
LEMMA BatchGoesOn ==
    ASSUME ImportInv, NEW b \in CardBatches, NEW n,
           n.stage # "lists", n.run = b.run, n.list = b.list, n.id = b.id,
           n.items = b.items, n.last = b.last, batches' = (batches \ {b}) \cup {n},
           UNCHANGED <<listOf, listId, worker, job>>
    PROVE  /\ BatchesOK' /\ JobOK' /\ FullBatchesOK' /\ Paused' = Paused
           /\ IdsOfBatches <=> IdsOfBatches'
           /\ CardBatches' = (CardBatches \ {b}) \cup {n}
<1>1. CardBatches' = (CardBatches \ {b}) \cup {n} /\ ListBatches' = ListBatches
  BY DEF CardBatches, ListBatches
<1>2. b \in batches /\ b.stage # "lists"
  BY DEF CardBatches
<1>3. BatchesOK'
  <2>1. \A a, c \in batches' : a.run = c.run /\ a.list = c.list => a = c
    BY <1>2 DEF ImportInv, BatchesOK
  <2>2. \A a \in batches' : a.items # {} /\ a.run <= worker'.run
    BY <1>2 DEF ImportInv, BatchesOK
  <2>3. \A a \in ListBatches' :
          /\ a.items \subseteq FileLists /\ a.list = 0
          /\ \A k \in FileLists, l \in a.items : listId'[k] = a.run => k < l
          /\ \A l \in a.items : worker'.listIdMap[l] # a.run
          /\ \A l \in a.items, c \in CardBatches' : c.list = l => c.id # a.run
    BY <1>1, <1>2 DEF ImportInv, BatchesOK
  <2> QED
    BY <2>1, <2>2, <2>3 DEF BatchesOK
<1>4. Paused' = Paused
  BY <1>2 DEF Paused
<1>5. JobOK'
  BY <1>4 DEF ImportInv, JobOK
<1>6. IdsOfBatches <=> IdsOfBatches'
  BY <1>2 DEF IdsOfBatches
<1>7. FullBatchesOK'
  BY <1>2 DEF ImportInv, FullBatchesOK
<1> QED
  BY <1>1, <1>3, <1>4, <1>5, <1>6, <1>7

LEMMA CountByListKeeps ==
    ASSUME ImportInv, TypeOK', NEW b \in batches, CountByList(b) PROVE ImportInv'
<1> DEFINE n == [b EXCEPT !.stage = "insert",
                          !.first = IF listId[b.list] = b.id
                                    THEN TaskCount(b.list) ELSE 0]
<1>1. /\ b.stage = "count" /\ batches' = (batches \ {b}) \cup {n}
      /\ UNCHANGED <<listOf, rows, job, worker>>
  BY DEF CountByList
<1>2. b \in Batch /\ b \in CardBatches /\ b \in Unwritten
  BY <1>1 DEF ImportInv, TypeOK, CardBatches, Unwritten
<1>3. /\ n.stage = "insert" /\ n.run = b.run /\ n.list = b.list /\ n.id = b.id
      /\ n.items = b.items /\ n.last = b.last
      /\ n.first = IF listId[b.list] = b.id THEN TaskCount(b.list) ELSE 0
  BY <1>2 DEF Batch
<1> HIDE DEF n
<1>4. /\ BatchesOK' /\ JobOK' /\ FullBatchesOK' /\ Paused' = Paused
      /\ IdsOfBatches <=> IdsOfBatches'
      /\ CardBatches' = (CardBatches \ {b}) \cup {n}
  BY <1>1, <1>2, <1>3, BatchGoesOn DEF rows
<1>5. Unwritten' = (Unwritten \ {b}) \cup {n}
  BY <1>1, <1>3 DEF Unwritten
<1>6. RowsOK' /\ ImportedInFileOrder'
  BY <1>1, RowsStay DEF ImportInv, TypeOK, Worker
<1>7. \A l : /\ Imported(l)' = Imported(l) /\ TaskCount(l)' = TaskCount(l)
             /\ \A items : Before(items, l)' = Before(items, l)
  BY <1>1 DEF Imported, TaskCount, Before, rows
<1>8. CardBatchesOK'
  <2>1. \A a \in CardBatches' :
          /\ a.list # 0 /\ a.id # 0 /\ a.id <= a.run
          /\ a.items \subseteq {c \in FileCards : listOf'[c] = a.list}
    BY <1>1, <1>2, <1>3, <1>4 DEF ImportInv, CardBatchesOK
  <2>2. \A a, c \in CardBatches' : a.list = c.list /\ a.id = c.id => a = c
    BY <1>2, <1>3, <1>4 DEF ImportInv, CardBatchesOK
  <2>3. ASSUME NEW a \in Unwritten', listId'[a.list] = a.id
        PROVE  /\ Imported(a.list)' = Before(a.items, a.list)'
               /\ \A c \in FileCards :
                     listOf'[c] = a.list =>
                         \/ c \in a.items \/ c \in Before(a.items, a.list)'
                         \/ \A d \in a.items : d < c
               /\ a.stage = "insert" =>
                     /\ a.first <= TaskCount(a.list)'
                     /\ \A c \in Imported(a.list)' : cardAt'[c] < a.first
    <3>1. CASE a \in Unwritten
      BY <1>1, <1>7, <2>3, <3>1 DEF ImportInv, CardBatchesOK, rows
    <3>2. CASE a = n
      <4>1. b.list \in FileLists
        BY <1>2 DEF ImportInv, CardBatchesOK, Batch, FileLists
      <4>2. /\ Imported(b.list) = Before(b.items, b.list)
            /\ \A c \in FileCards :
                  listOf[c] = b.list =>
                      \/ c \in b.items \/ c \in Before(b.items, b.list)
                      \/ \A d \in b.items : d < c
        BY <1>1, <1>2, <1>3, <2>3, <3>2 DEF ImportInv, CardBatchesOK, rows
      <4>3. n.first = TaskCount(b.list) /\ TaskCount(b.list) \in Nat
        BY <1>1, <1>3, <2>3, <3>2, <4>1, ImportedIsFinite DEF ImportInv, rows
      <4>4. \A c \in Imported(b.list) : cardAt[c] < TaskCount(b.list)
        BY DEF ImportInv, RowsOK, Imported
      <4> QED
        BY <1>1, <1>3, <1>7, <3>2, <4>2, <4>3, <4>4 DEF rows
    <3> QED
      BY <1>5, <3>1, <3>2
  <2> QED
    BY <2>1, <2>2, <2>3 DEF CardBatchesOK
<1>9. ListPhaseOK'
  BY <1>1, <1>2, <1>3, <1>4, <1>7 DEF ImportInv, ListPhaseOK, rows
<1>10. CardPhaseOK'
  <2>1. \A l : InBatches(l)' = InBatches(l)
    BY <1>1, <1>2, <1>3, <1>5 DEF InBatches
  <2>2. \A l : Taken(l)' = Taken(l)
    BY <1>1 DEF Taken
  <2> QED
    BY <1>1, <1>4, <1>7, <2>1, <2>2 DEF ImportInv, CardPhaseOK, rows
<1>11. CompletedMeansImported'
  BY <1>1 DEF ImportInv, CompletedMeansImported, Missing, rows
<1> QED
  BY <1>4, <1>6, <1>8, <1>9, <1>10, <1>11 DEF ImportInv

-----------------------------------------------------------------------------
(* Writes *)

LEMMA ImportedCard ==
    ASSUME ImportInv, NEW c \in FileCards, cardAt[c] # -1
    PROVE  \E k \in FileLists :
               /\ k = listOf[c] /\ listId[k] # 0
               /\ cardAt[c] \in Nat /\ cardAt[c] < TaskCount(k)
<1>1. listOf[c] # 0 /\ listId[listOf[c]] # 0 /\ cardAt[c] < TaskCount(listOf[c])
  BY DEF ImportInv, RowsOK
<1>2. listOf[c] \in 0..NumLists /\ cardAt[c] \in Nat
  BY DEF ImportInv, TypeOK
<1>3. listOf[c] \in FileLists
  BY <1>1, <1>2, Sizes DEF FileLists
<1> QED
  BY <1>1, <1>2, <1>3

LEMMA CreateManyTasksKeeps ==
    ASSUME ImportInv, TypeOK', NEW b \in batches, CreateManyTasks(b), CanInsert(b)
    PROVE  ImportInv'
<1> DEFINE n == [b EXCEPT !.stage = "announce"]
           l == b.list
<1>1. /\ b.stage = "insert" /\ batches' = (batches \ {b}) \cup {n}
      /\ cardAt' = [c \in FileCards |->
                      IF c \in b.items THEN b.first + Index(c, b.items) ELSE cardAt[c]]
      /\ UNCHANGED <<listOf, listId, listAt, others, job, worker>>
  BY DEF CreateManyTasks
<1>2. /\ b \in Batch /\ b \in CardBatches /\ b \in Unwritten /\ b.first \in Nat
      /\ l \in FileLists
  BY <1>1 DEF ImportInv, CardBatchesOK, TypeOK, CardBatches, Unwritten, Batch, FileLists
<1>3. /\ n.stage = "announce" /\ n.run = b.run /\ n.list = b.list /\ n.id = b.id
      /\ n.items = b.items /\ n.last = b.last
  BY <1>2 DEF Batch
<1> HIDE DEF n
<1>4. /\ BatchesOK' /\ JobOK' /\ FullBatchesOK' /\ Paused' = Paused
      /\ IdsOfBatches <=> IdsOfBatches'
      /\ CardBatches' = (CardBatches \ {b}) \cup {n}
  BY <1>1, <1>2, <1>3, BatchGoesOn
<1>5. Unwritten' = Unwritten \ {b}
  BY <1>1, <1>3 DEF Unwritten
<1>6. /\ listId[l] = b.id /\ b.id # 0
      /\ b.items \subseteq {c \in FileCards : listOf[c] = l}
      /\ \A c \in b.items : cardAt[c] = -1
      /\ Imported(l) = Before(b.items, l)
      /\ \A c \in FileCards : listOf[c] = l => \/ c \in b.items \/ c \in Before(b.items, l)
                                               \/ \A d \in b.items : d < c
      /\ b.first <= TaskCount(l)
      /\ \A c \in Imported(l) : cardAt[c] < b.first
  BY <1>1, <1>2 DEF CanInsert, ImportInv, CardBatchesOK
<1>7. \A c \in b.items : /\ Index(c, b.items) \in Nat
                         /\ Index(c, b.items) < Cardinality(b.items)
                         /\ \A d \in b.items : c < d => Index(c, b.items) < Index(d, b.items)
  BY <1>6, IndexIsBounded
<1>8. /\ \A c \in b.items : /\ c \in FileCards /\ cardAt'[c] = b.first + Index(c, b.items)
                            /\ cardAt'[c] # -1
      /\ \A c \in FileCards \ b.items : cardAt'[c] = cardAt[c]
  BY <1>1, <1>2, <1>6, <1>7
<1>9. /\ Imported(l)' = Imported(l) \cup b.items
      /\ \A k \in FileLists \ {l} : Imported(k)' = Imported(k)
  BY <1>1, <1>6, <1>8 DEF Imported
<1>10. /\ TaskCount(l)' = TaskCount(l) + Cardinality(b.items)
       /\ Cardinality(b.items) \in Nat
       /\ \A k \in FileLists \ {l} : TaskCount(k)' = TaskCount(k)
  <2>1. IsFiniteSet(b.items) /\ Cardinality(b.items) \in Nat
    BY <1>6, FilesAreFinite, FS_CardinalityType
  <2>2. Imported(l) \cap b.items = {}
    BY <1>6 DEF Imported
  <2>3. Cardinality(Imported(l) \cup b.items) = Cardinality(Imported(l)) + Cardinality(b.items)
    <3>1. IsFiniteSet(Imported(l)) /\ Cardinality(Imported(l)) \in Nat
      BY <1>2, ImportedIsFinite DEF ImportInv
    <3>2. Cardinality(Imported(l) \cup b.items)
             = Cardinality(Imported(l)) + Cardinality(b.items)
               - Cardinality(Imported(l) \cap b.items)
      BY <2>1, <3>1, FS_Union
    <3>3. Cardinality(Imported(l) \cap b.items) = 0
      BY <2>2, FS_EmptySet
    <3> QED
      BY <2>1, <3>1, <3>2, <3>3
  <2>4. others[l] \in Nat /\ Cardinality(Imported(l)) \in Nat
    BY <1>2, Sizes, ImportedIsFinite DEF ImportInv, TypeOK
  <2> QED
    BY <1>1, <1>9, <2>1, <2>3, <2>4 DEF TaskCount
<1>11. RowsOK'
  <2>1. ASSUME NEW c \in FileCards, cardAt'[c] # -1
        PROVE  /\ listOf'[c] # 0 /\ listId'[listOf'[c]] # 0
               /\ cardAt'[c] < TaskCount(listOf[c])'
    <3>1. CASE c \in b.items
      <4>1. listOf[c] = l /\ l # 0
        BY <1>2, <1>6, <3>1, FilesAreNatural
      <4>2. TaskCount(l) \in Nat
        BY <1>2, ImportedIsFinite DEF ImportInv
      <4>3. cardAt'[c] < TaskCount(l)'
        BY <1>2, <1>6, <1>7, <1>8, <1>10, <3>1, <4>2
      <4>4. listOf'[c] = l
        BY <1>1, <4>1
      <4> QED
        BY <1>1, <1>6, <4>1, <4>3, <4>4
    <3>2. CASE c \notin b.items
      <4>1. cardAt'[c] = cardAt[c] /\ cardAt[c] # -1
        BY <1>8, <2>1, <3>2
      <4>2. PICK k \in FileLists :
               /\ k = listOf[c] /\ listId[k] # 0
               /\ cardAt[c] \in Nat /\ cardAt[c] < TaskCount(k)
        BY <4>1, ImportedCard
      <4>3. TaskCount(k) \in Nat /\ TaskCount(k)' \in Nat /\ TaskCount(k) <= TaskCount(k)'
        BY <1>10, ImportedIsFinite DEF ImportInv
      <4>4. cardAt'[c] < TaskCount(k)'
        BY <4>1, <4>2, <4>3
      <4>5. k # 0 /\ listOf'[c] = k
        BY <1>1, <4>2, FilesAreNatural
      <4> QED
        BY <1>1, <4>2, <4>4, <4>5
    <3> QED
      BY <3>1, <3>2
  <2> QED
    BY <1>1, <2>1 DEF ImportInv, RowsOK
<1>12. ImportedInFileOrder'
  <2>1. ASSUME NEW c \in FileCards, NEW d \in FileCards,
               c < d, listOf[c] = listOf[d], cardAt'[d] # -1
        PROVE  cardAt'[c] # -1 /\ cardAt'[c] < cardAt'[d]
    <3>1. CASE d \notin b.items
      <4>1. cardAt'[d] = cardAt[d] /\ cardAt[c] # -1 /\ cardAt[c] < cardAt[d]
        BY <1>8, <2>1, <3>1 DEF ImportInv, ImportedInFileOrder
      <4> QED
        BY <1>6, <1>8, <4>1
    <3>2. CASE d \in b.items /\ c \in b.items
      BY <1>2, <1>7, <1>8, <2>1, <3>2
    <3>3. CASE d \in b.items /\ c \notin b.items
      <4>1. c \in Nat /\ d \in Nat
        BY FilesAreNatural
      <4>2. c \in Imported(l)
        BY <1>6, <2>1, <3>3, <4>1
      <4>3. cardAt[c] # -1 /\ cardAt[c] < b.first /\ cardAt'[c] = cardAt[c] /\ cardAt[c] \in Int
        BY <1>6, <1>8, <3>3, <4>2 DEF Imported, ImportInv, TypeOK
      <4> QED
        BY <1>2, <1>7, <1>8, <3>3, <4>3
    <3> QED
      BY <3>1, <3>2, <3>3
  <2>2. LiveLists' = LiveLists
    BY <1>1 DEF LiveLists
  <2> QED
    BY <1>1, <2>1, <2>2 DEF ImportInv, ImportedInFileOrder
<1>13. CardBatchesOK'
  <2>1. \A a \in CardBatches' :
          /\ a.list # 0 /\ a.id # 0 /\ a.id <= a.run
          /\ a.items \subseteq {c \in FileCards : listOf'[c] = a.list}
    BY <1>1, <1>2, <1>3, <1>4 DEF ImportInv, CardBatchesOK
  <2>2. \A a, c \in CardBatches' : a.list = c.list /\ a.id = c.id => a = c
    BY <1>2, <1>3, <1>4 DEF ImportInv, CardBatchesOK
  <2>3. ASSUME NEW a \in Unwritten', listId'[a.list] = a.id
        PROVE  /\ Imported(a.list)' = Before(a.items, a.list)'
               /\ \A c \in FileCards :
                     listOf'[c] = a.list =>
                         \/ c \in a.items \/ c \in Before(a.items, a.list)'
                         \/ \A d \in a.items : d < c
               /\ a.stage = "insert" =>
                     /\ a.first <= TaskCount(a.list)'
                     /\ \A c \in Imported(a.list)' : cardAt'[c] < a.first
    <3>1. a \in Unwritten /\ a # b /\ a \in CardBatches /\ a \in Batch
      BY <1>5 DEF Unwritten, CardBatches, ImportInv, TypeOK
    <3>2. a.list # l
      BY <1>1, <1>2, <1>6, <2>3, <3>1 DEF ImportInv, CardBatchesOK
    <3>3. a.list \in FileLists
      BY <3>1 DEF ImportInv, CardBatchesOK, Batch, FileLists
    <3>4. /\ Imported(a.list)' = Imported(a.list) /\ TaskCount(a.list)' = TaskCount(a.list)
          /\ Before(a.items, a.list)' = Before(a.items, a.list)
      BY <1>1, <1>9, <1>10, <3>2, <3>3 DEF Before
    <3>5. \A c \in Imported(a.list) : cardAt'[c] = cardAt[c]
      BY <1>6, <1>8 DEF Imported
    <3> QED
      BY <1>1, <2>3, <3>1, <3>4, <3>5 DEF ImportInv, CardBatchesOK
  <2> QED
    BY <2>1, <2>2, <2>3 DEF CardBatchesOK
<1>14. ListPhaseOK'
  <2> SUFFICES ASSUME worker.phase \in {"lists", "lastLists", "map"}
               PROVE  ListPhaseOK'
    BY <1>1 DEF ListPhaseOK
  <2>1. b.run # worker.run
    BY <1>1 DEF ImportInv, ListPhaseOK
  <2>2. ASSUME NEW k \in FileLists
        PROVE  \/ k > worker.cursor \/ k \in worker.unsentLists
               \/ \E a \in batches' : a.run = worker.run /\ k \in a.items
               \/ /\ Imported(k)' = {}
                  /\ \A a \in CardBatches' : a.list = k => a.id # listId[k]
    <3>1. \/ k > worker.cursor \/ k \in worker.unsentLists
          \/ \E a \in batches : a.run = worker.run /\ k \in a.items
          \/ /\ Imported(k) = {}
             /\ \A a \in CardBatches : a.list = k => a.id # listId[k]
      BY DEF ImportInv, ListPhaseOK
    <3>2. ASSUME Imported(k) = {}, \A a \in CardBatches : a.list = k => a.id # listId[k]
          PROVE  /\ Imported(k)' = {}
                 /\ \A a \in CardBatches' : a.list = k => a.id # listId[k]
      BY <1>2, <1>3, <1>4, <1>6, <1>9, <3>2
    <3> QED
      BY <1>1, <2>1, <3>1, <3>2
  <2> QED
    BY <1>1, <1>3, <1>4, <2>1, <2>2 DEF ImportInv, ListPhaseOK
<1>15. CardPhaseOK'
  <2> SUFFICES ASSUME worker.phase \in {"cards", "lastCards"}
               PROVE  CardPhaseOK'
    BY <1>1 DEF CardPhaseOK
  <2>1. ASSUME NEW k \in FileLists, listId[k] # 0, listId[k] = worker.listIdMap[k]
        PROVE  Taken(k) = Imported(k)' \cup InBatches(k)'
    <3>1. Taken(k) = Imported(k) \cup InBatches(k)
      BY <2>1 DEF ImportInv, CardPhaseOK
    <3>2. CASE k = l
      <4>1. b.run = worker.run
        BY <1>1, <1>6, <2>1, <3>2 DEF ImportInv, CardPhaseOK, IdsOfBatches
      <4>2. \A a \in Unwritten : a.run = worker.run /\ a.list = l => a = b
        BY <4>1 DEF Unwritten, ImportInv, BatchesOK
      <4>3. InBatches(l) = b.items
        BY <1>2, <1>6, <4>1, <4>2 DEF InBatches
      <4>4. InBatches(l)' = {}
        BY <1>1, <1>5, <4>2 DEF InBatches
      <4> QED
        BY <1>9, <3>1, <3>2, <4>3, <4>4
    <3>3. CASE k # l
      <4>1. InBatches(k)' = InBatches(k)
        BY <1>1, <1>5, <3>3 DEF InBatches
      <4> QED
        BY <1>9, <3>1, <3>3, <4>1
    <3> QED
      BY <3>2, <3>3
  <2>2. \A k : Taken(k)' = Taken(k)
    BY <1>1 DEF Taken
  <2> QED
    BY <1>1, <1>4, <2>1, <2>2 DEF ImportInv, CardPhaseOK
<1>16. CompletedMeansImported'
  <2> SUFFICES ASSUME job = "completed", Missing' # {} PROVE CompletedMeansImported'
    BY <1>1 DEF CompletedMeansImported
  <2>1. Missing' \subseteq Missing
    BY <1>1, <1>8 DEF Missing
  <2>2. /\ worker.drained /\ NumCards \in Missing /\ Cardinality(Missing) = BatchSize
        /\ \A c \in Missing : listOf[c] = listOf[NumCards]
    BY <2>1 DEF ImportInv, CompletedMeansImported
  <2>3. CASE listId[l] # worker.run
    <3>1. Missing' = Missing
      BY <1>1, <1>6, <1>8, <2>3 DEF Missing
    <3> QED
      BY <1>1, <2>2, <3>1 DEF CompletedMeansImported
  <2>4. CASE listId[l] = worker.run
    <3>1. b.run = worker.run
      <4>1. b.run \in Nat /\ b.id \in Nat /\ worker.run \in Nat
        BY <1>2, Sizes DEF Batch, ImportInv, TypeOK, Worker
      <4>2. b.id <= b.run /\ b.run <= worker.run
        BY <1>2 DEF ImportInv, CardBatchesOK, BatchesOK
      <4> QED
        BY <1>6, <2>4, <4>1, <4>2
    <3>2. NumCards \in b.items
      <4>1. worker.phase = "none"
        BY DEF ImportInv, JobOK
      <4>2. ~b.last
        BY <3>1 DEF ImportInv, FullBatchesOK
      <4>3. ~b.last => worker.cursor \in b.items /\ worker.cursor = NumCards
        BY <3>1, <4>1 DEF ImportInv, FullBatchesOK
      <4> QED
        BY <4>2, <4>3
    <3>3. \A c \in FileCards : c \in Nat /\ c <= NumCards
      BY Sizes DEF FileCards
    <3>4. ASSUME NEW c \in Missing' PROVE FALSE
      <4>1. c \in FileCards /\ listOf[c] = l /\ cardAt'[c] = -1
        BY <1>6, <2>1, <2>2, <3>2, <3>4 DEF Missing
      <4>2. c \notin b.items /\ cardAt[c] = -1
        BY <1>8, <4>1
      <4>3. c \notin Before(b.items, l)
        BY <1>6, <4>2 DEF Imported
      <4>4. NumCards < c
        BY <1>6, <3>2, <4>1, <4>2, <4>3
      <4> QED
        BY <3>3, <4>1, <4>4, Sizes
    <3> QED
      BY <3>4
  <2> QED
    BY <2>3, <2>4
<1> QED
  BY <1>4, <1>11, <1>12, <1>13, <1>14, <1>15, <1>16 DEF ImportInv

LEMMA AddTaskKeeps ==
    ASSUME ImportInv, TypeOK', NEW l \in FileLists, AddTask(l) PROVE ImportInv'
<1>1. /\ others' = [others EXCEPT ![l] = @ + 1]
      /\ UNCHANGED <<listOf, listId, listAt, cardAt, job, worker, batches>>
  BY DEF AddTask
<1>2. \A k : Imported(k)' = Imported(k) /\ Taken(k)' = Taken(k) /\ InBatches(k)' = InBatches(k)
  BY <1>1 DEF Imported, Taken, InBatches, Unwritten
<1>3. \A k \in FileLists : /\ TaskCount(k) \in Nat /\ TaskCount(k)' \in Nat
                           /\ TaskCount(k) <= TaskCount(k)'
  <2>1. \A k \in FileLists : others[k] \in Nat /\ others'[k] \in Nat /\ others[k] <= others'[k]
    BY <1>1, Sizes DEF ImportInv, TypeOK
  <2>2. \A k \in FileLists : Cardinality(Imported(k)) \in Nat
    BY ImportedIsFinite DEF ImportInv
  <2> QED
    BY <1>2, <2>1, <2>2 DEF TaskCount
<1>4. RowsOK'
  <2>1. ASSUME NEW c \in FileCards, cardAt[c] # -1
        PROVE  cardAt[c] < TaskCount(listOf[c])'
    <3>1. PICK k \in FileLists :
             /\ k = listOf[c] /\ listId[k] # 0
             /\ cardAt[c] \in Nat /\ cardAt[c] < TaskCount(k)
      BY <2>1, ImportedCard
    <3>2. cardAt[c] < TaskCount(k)'
      BY <1>3, <3>1
    <3>3. listOf'[c] = k
      BY <1>1, <3>1
    <3> QED
      BY <3>2, <3>3
  <2> QED
    BY <1>1, <2>1 DEF ImportInv, RowsOK
<1>5. CardBatchesOK'
  <2>1. \A b \in Unwritten : b.list \in FileLists /\ b.first \in Nat
    BY DEF ImportInv, CardBatchesOK, CardBatches, Unwritten, TypeOK, Batch, FileLists
  <2>2. \A b \in Unwritten : b.first <= TaskCount(b.list) => b.first <= TaskCount(b.list)'
    BY <1>3, <2>1
  <2>3. Unwritten' = Unwritten /\ CardBatches' = CardBatches
    BY <1>1 DEF Unwritten, CardBatches
  <2> QED
    BY <1>1, <1>2, <2>2, <2>3 DEF ImportInv, CardBatchesOK, Before
<1>6. JobOK' /\ BatchesOK' /\ ImportedInFileOrder' /\ CompletedMeansImported'
  BY <1>1 DEF ImportInv, JobOK, Paused, BatchesOK, ListBatches, CardBatches,
              ImportedInFileOrder, LiveLists, CompletedMeansImported, Missing
<1>7. ListPhaseOK' /\ CardPhaseOK' /\ FullBatchesOK'
  BY <1>1, <1>2 DEF ImportInv, ListPhaseOK, Paused, CardBatches, CardPhaseOK, IdsOfBatches,
                    FullBatchesOK
<1> QED
  BY <1>4, <1>5, <1>6, <1>7 DEF ImportInv

LEMMA MappedListsAreListed ==
    ASSUME TypeOK PROVE \A c \in FileCards : listOf[c] # 0 => listOf[c] \in FileLists
<1>1. \A c \in FileCards : listOf[c] \in 0..NumLists
  BY DEF TypeOK
<1> QED
  BY <1>1, Sizes DEF FileLists

LEMMA RemoveListKeeps ==
    ASSUME ImportInv, TypeOK', NEW l \in FileLists, RemoveList(l) PROVE ImportInv'
<1>1. /\ listId' = [listId EXCEPT ![l] = 0] /\ listAt' = [listAt EXCEPT ![l] = 0]
      /\ TaskCount(l) = 0
      /\ UNCHANGED <<listOf, cardAt, others, job, worker, batches>>
  BY DEF RemoveList
<1>2. \A k \in FileLists : listId'[k] = IF k = l THEN 0 ELSE listId[k]
  BY <1>1 DEF ImportInv, TypeOK
<1>3. Imported(l) = {}
  <2>1. others[l] \in Nat /\ IsFiniteSet(Imported(l)) /\ Cardinality(Imported(l)) \in Nat
    BY Sizes, ImportedIsFinite DEF ImportInv, TypeOK
  <2>2. Cardinality(Imported(l)) = 0
    BY <1>1, <2>1 DEF TaskCount
  <2> QED
    BY <2>1, <2>2, FS_EmptySet
<1>4. /\ \A k : /\ Imported(k)' = Imported(k) /\ TaskCount(k)' = TaskCount(k)
                /\ Taken(k)' = Taken(k) /\ InBatches(k)' = InBatches(k)
                /\ \A items : Before(items, k)' = Before(items, k)
      /\ Unwritten' = Unwritten /\ CardBatches' = CardBatches
      /\ ListBatches' = ListBatches /\ Paused' = Paused
  BY <1>1 DEF Imported, TaskCount, Taken, InBatches, Unwritten, CardBatches,
              ListBatches, Paused, Before
<1>5. /\ worker.run \in Nat
      /\ \A b \in batches : b.run \in Nat /\ b.run # 0
      /\ \A b \in CardBatches : b.id # 0 /\ b.list \in FileLists
  <2>1. \A b \in batches : b.run \in 1..MaxRuns /\ b.list \in 0..NumLists
    BY DEF ImportInv, TypeOK, Batch
  <2>2. \A b \in CardBatches : b \in batches /\ b.id # 0 /\ b.list # 0
    BY DEF ImportInv, CardBatchesOK, CardBatches
  <2>3. \A b \in batches : b.run \in Nat /\ b.run # 0
    BY <2>1, Sizes
  <2>4. \A b \in CardBatches : b.list \in FileLists
    BY <2>1, <2>2, Sizes DEF FileLists
  <2>5. worker.run \in Nat
    BY Sizes DEF ImportInv, TypeOK, Worker
  <2> QED
    BY <2>2, <2>3, <2>4, <2>5
<1>6. RowsOK'
  <2>1. ASSUME NEW c \in FileCards, cardAt[c] # -1
        PROVE  /\ listOf'[c] # 0 /\ listId'[listOf'[c]] # 0
               /\ cardAt'[c] < TaskCount(listOf[c])'
    <3>1. PICK k \in FileLists :
             /\ k = listOf[c] /\ listId[k] # 0
             /\ cardAt[c] \in Nat /\ cardAt[c] < TaskCount(k)
      BY <2>1, ImportedCard
    <3>2. k # l /\ k # 0 /\ listOf'[c] = k
      BY <1>1, <1>3, <2>1, <3>1, FilesAreNatural DEF Imported
    <3> QED
      BY <1>1, <1>2, <1>4, <3>1, <3>2
  <2>2. \A k \in FileLists : listId'[k] <= worker.run
    BY <1>2, <1>5 DEF ImportInv, RowsOK
  <2> QED
    BY <1>1, <2>1, <2>2 DEF RowsOK
<1>7. BatchesOK'
  <2>1. \A b \in ListBatches, k \in FileLists : listId'[k] = b.run => listId[k] = b.run
    BY <1>2, <1>5 DEF ListBatches
  <2> QED
    BY <1>1, <1>4, <2>1 DEF ImportInv, BatchesOK
<1>8. CardBatchesOK'
  <2>1. \A b \in Unwritten : b \in CardBatches
    BY DEF Unwritten, CardBatches
  <2>2. \A b \in Unwritten : listId'[b.list] = b.id => listId[b.list] = b.id
    BY <1>2, <1>5, <2>1
  <2> QED
    BY <1>1, <1>4, <2>2 DEF ImportInv, CardBatchesOK
<1>9. JobOK'
  BY <1>1, <1>4 DEF ImportInv, JobOK
<1>10. worker.phase # "none" \/ job = "completed" => worker.run # 0
  BY <1>5 DEF ImportInv, JobOK
<1>11. ListPhaseOK'
  <2> SUFFICES ASSUME worker.phase \in {"lists", "lastLists", "map"} PROVE ListPhaseOK'
    BY <1>1 DEF ListPhaseOK
  <2>1. \A k \in FileLists : listId'[k] = worker.run => listId[k] = worker.run
    BY <1>2, <1>10
  <2>2. ASSUME NEW k \in FileLists
        PROVE  \/ k > worker.cursor \/ k \in worker.unsentLists
               \/ \E b \in batches : b.run = worker.run /\ k \in b.items
               \/ /\ Imported(k) = {}
                  /\ \A b \in CardBatches : b.list = k => b.id # listId'[k]
    <3>1. CASE k = l
      BY <1>2, <1>3, <1>5, <3>1
    <3>2. CASE k # l
      BY <1>2, <3>2 DEF ImportInv, ListPhaseOK
    <3> QED
      BY <3>1, <3>2
  <2> QED
    BY <1>1, <1>4, <2>1, <2>2 DEF ImportInv, ListPhaseOK
<1>12. CardPhaseOK'
  <2> SUFFICES ASSUME worker.phase \in {"cards", "lastCards"} PROVE CardPhaseOK'
    BY <1>1 DEF CardPhaseOK
  <2>1. \A k \in FileLists : /\ listId'[k] = worker.run => listId[k] = worker.run
                             /\ listId'[k] # 0 => listId[k] = listId'[k]
    BY <1>2, <1>10
  <2>2. IdsOfBatches'
    BY <1>1 DEF ImportInv, CardPhaseOK, IdsOfBatches
  <2> QED
    BY <1>1, <1>4, <2>1, <2>2 DEF ImportInv, CardPhaseOK
<1>13. ImportedInFileOrder'
  <2>1. LiveLists' = LiveLists \ {l}
    BY <1>2 DEF LiveLists
  <2>2. \A k \in FileLists \ {l} : listId'[k] = listId[k] /\ listAt'[k] = listAt[k]
    BY <1>1, <1>2 DEF ImportInv, TypeOK
  <2>3. LiveLists \subseteq FileLists
    BY DEF LiveLists
  <2> QED
    BY <1>1, <2>1, <2>2, <2>3 DEF ImportInv, ImportedInFileOrder
<1>14. CompletedMeansImported'
  <2> SUFFICES ASSUME job = "completed", Missing' # {} PROVE CompletedMeansImported'
    BY <1>1 DEF CompletedMeansImported
  <2>1. \A c \in FileCards : listOf[c] # 0 => listOf[c] \in FileLists
    BY MappedListsAreListed DEF ImportInv
  <2>2. Missing' = {c \in Missing : listOf[c] # l}
    BY <1>1, <1>2, <1>10, <2>1 DEF Missing
  <2>3. /\ worker.drained /\ NumCards \in Missing /\ Cardinality(Missing) = BatchSize
        /\ \A c \in Missing : listOf[c] = listOf[NumCards]
    BY <2>2 DEF ImportInv, CompletedMeansImported
  <2>4. Missing' = Missing
    BY <2>2, <2>3
  <2> QED
    BY <1>1, <2>3, <2>4 DEF CompletedMeansImported
<1>15. FullBatchesOK'
  BY <1>1 DEF ImportInv, FullBatchesOK
<1> QED
  BY <1>6, <1>7, <1>8, <1>9, <1>11, <1>12, <1>13, <1>14, <1>15 DEF ImportInv

\* A step of a batch of lists leaves these parts of the worker alone.
LEMMA FulfilKeepsWorker ==
    ASSUME ImportInv, NEW b \in batches, b.stage = "lists", Fulfil(b)
    PROVE  /\ batches' = batches \ {b} /\ job' = job
           /\ worker'.run = worker.run /\ worker'.cursor = worker.cursor
           /\ worker'.listIdMap = worker.listIdMap
           /\ worker'.unsentLists = worker.unsentLists
           /\ worker'.tasksByList = worker.tasksByList
           /\ worker'.drained = worker.drained
           /\ worker'.phase = IF Current(b) /\ worker.phase = "lastLists" THEN "map"
                              ELSE worker.phase
<1>1. batches' = batches \ {b}
  BY DEF Fulfil
<1>2. Current(b) => worker.phase \in {"lists", "lastLists"}
  BY CurrentBatch
<1>3. CASE Current(b) /\ worker.phase = "lastLists"
  <2>1. worker' = [worker EXCEPT !.phase = "map"] /\ job' = job
    BY <1>3 DEF Fulfil
  <2> QED
    BY <1>1, <1>3, <2>1 DEF ImportInv, TypeOK, Worker
<1>4. CASE ~(Current(b) /\ worker.phase = "lastLists")
  <2>1. UNCHANGED <<worker, job>>
    BY <1>2, <1>4 DEF Fulfil
  <2> QED
    BY <1>1, <1>4, <2>1
<1> QED
  BY <1>3, <1>4

LEMMA CreateListsKeeps ==
    ASSUME ImportInv, TypeOK', NEW b \in batches, CreateLists(b),
           b.items \cap LiveLists = {}
    PROVE  ImportInv'
<1>1. /\ b.stage = "lists" /\ Fulfil(b) /\ UNCHANGED <<listOf, cardAt, others>>
      /\ listId' = [l \in FileLists |-> IF l \in b.items THEN b.run ELSE listId[l]]
  BY DEF CreateLists
<1>2. PICK last \in LastPositions :
         listAt' = [l \in FileLists |->
                      IF l \in b.items THEN last + 1 + Index(l, b.items) ELSE listAt[l]]
  BY DEF CreateLists
<1>3. /\ batches' = batches \ {b} /\ job' = job
      /\ worker'.run = worker.run /\ worker'.cursor = worker.cursor
      /\ worker'.listIdMap = worker.listIdMap
      /\ worker'.unsentLists = worker.unsentLists
      /\ worker'.tasksByList = worker.tasksByList
      /\ worker'.drained = worker.drained
      /\ worker'.phase = IF Current(b) /\ worker.phase = "lastLists" THEN "map"
                         ELSE worker.phase
  BY <1>1, FulfilKeepsWorker
<1>4. /\ b.run \in Nat /\ b.run # 0 /\ b.run <= worker.run /\ worker.run \in Nat
      /\ b \in ListBatches /\ b.list = 0 /\ b.items \subseteq FileLists
      /\ \A k \in FileLists, l \in b.items : listId[k] = b.run => k < l
      /\ \A l \in b.items : worker.listIdMap[l] # b.run
      /\ \A l \in b.items, a \in CardBatches : a.list = l => a.id # b.run
  <2>1. b.run \in 1..MaxRuns /\ worker.run \in 0..MaxRuns
    BY DEF ImportInv, TypeOK, Batch, Worker
  <2>2. b.run \in Nat /\ b.run # 0 /\ worker.run \in Nat
    BY <2>1, Sizes
  <2> QED
    BY <1>1, <2>2 DEF ImportInv, BatchesOK, ListBatches
<1>5. /\ \A k \in FileLists : listId'[k] = IF k \in b.items THEN b.run ELSE listId[k]
      /\ \A k \in b.items : listId[k] = 0 /\ Imported(k) = {}
  <2>1. \A k \in b.items : listId[k] = 0
    BY <1>4 DEF LiveLists
  <2>2. \A k \in b.items : Imported(k) = {}
    BY <2>1 DEF Imported, ImportInv, RowsOK
  <2> QED
    BY <1>1, <2>1, <2>2
<1>6. /\ CardBatches' = CardBatches /\ Unwritten' = Unwritten
      /\ ListBatches' = ListBatches \ {b}
  BY <1>1, <1>3 DEF CardBatches, Unwritten, ListBatches
<1>7. \A k : /\ Imported(k)' = Imported(k) /\ TaskCount(k)' = TaskCount(k)
             /\ Taken(k)' = Taken(k) /\ InBatches(k)' = InBatches(k)
             /\ \A items : Before(items, k)' = Before(items, k)
  BY <1>1, <1>3, <1>6 DEF Imported, TaskCount, Taken, InBatches, Before
<1>8. \A a \in batches : a.run = b.run /\ a.list = 0 => a = b
  BY <1>4 DEF ImportInv, BatchesOK
<1>9. RowsOK'
  <2>1. ASSUME NEW c \in FileCards, cardAt[c] # -1
        PROVE  /\ listOf'[c] # 0 /\ listId'[listOf'[c]] # 0
               /\ cardAt'[c] < TaskCount(listOf[c])'
    <3>1. PICK k \in FileLists :
             /\ k = listOf[c] /\ listId[k] # 0
             /\ cardAt[c] \in Nat /\ cardAt[c] < TaskCount(k)
      BY <2>1, ImportedCard
    <3>2. k # 0 /\ listOf'[c] = k /\ listId'[k] # 0
      BY <1>1, <1>4, <1>5, <3>1, FilesAreNatural
    <3> QED
      BY <1>1, <1>7, <3>1, <3>2
  <2>2. \A k \in FileLists : listId'[k] <= worker'.run
    BY <1>3, <1>4, <1>5 DEF ImportInv, RowsOK
  <2> QED
    BY <1>1, <2>1, <2>2 DEF RowsOK
<1>10. JobOK'
  <2>1. worker'.phase # "none" <=> worker.phase # "none"
    BY <1>3
  <2> QED
    BY <1>3, <2>1 DEF ImportInv, JobOK
<1>11. BatchesOK'
  <2>1. ASSUME NEW a \in ListBatches', NEW k \in FileLists, NEW l \in a.items,
               listId'[k] = a.run
        PROVE  k < l
    <3>1. a \in ListBatches /\ a \in batches /\ a # b /\ a.list = 0
      BY <1>6 DEF ListBatches, ImportInv, BatchesOK
    <3>2. k \notin b.items
      BY <1>5, <1>8, <2>1, <3>1
    <3> QED
      BY <1>5, <2>1, <3>1, <3>2 DEF ImportInv, BatchesOK
  <2> QED
    BY <1>3, <1>6, <2>1 DEF ImportInv, BatchesOK
<1>12. CardBatchesOK'
  <2>1. ASSUME NEW a \in Unwritten, listId'[a.list] = a.id PROVE listId[a.list] = a.id
    <3>1. a \in CardBatches /\ a \in batches
      BY DEF Unwritten, CardBatches
    <3>2. a.list \in 0..NumLists /\ a.list # 0
      BY <3>1 DEF ImportInv, TypeOK, Batch, CardBatchesOK
    <3>3. a.list \in FileLists
      BY <3>2, Sizes DEF FileLists
    <3> QED
      BY <1>4, <1>5, <2>1, <3>1, <3>3
  <2> QED
    BY <1>1, <1>6, <1>7, <2>1 DEF ImportInv, CardBatchesOK
<1>13. ImportedInFileOrder'
  <2>1. ASSUME NEW k \in LiveLists', NEW l \in LiveLists', k < l, listId'[k] = listId'[l]
        PROVE  listAt'[k] < listAt'[l]
    <3>1. k \in FileLists /\ l \in FileLists /\ k \in Nat /\ l \in Nat
      BY FilesAreNatural DEF LiveLists
    <3>2. \A i \in FileLists \ b.items : i \in LiveLists' => i \in LiveLists
      BY <1>5 DEF LiveLists
    <3>3. /\ last \in Nat /\ \A i \in LiveLists : listAt[i] <= last /\ listAt[i] \in Nat
      BY DEF LastPositions, LiveLists, ImportInv, TypeOK
    <3>4. \A i \in b.items : /\ Index(i, b.items) \in Nat
                             /\ \A j \in b.items : i < j => Index(i, b.items) < Index(j, b.items)
      BY <1>4, IndexIsBounded
    <3>5. CASE k \in b.items /\ l \in b.items
      BY <1>2, <2>1, <3>1, <3>3, <3>4, <3>5
    <3>6. CASE k \notin b.items /\ l \in b.items
      <4>1. listAt'[k] = listAt[k] /\ listAt[k] <= last /\ listAt[k] \in Nat
        BY <1>2, <3>1, <3>2, <3>3, <3>6
      <4>2. listAt'[l] = last + 1 + Index(l, b.items)
        BY <1>2, <3>1, <3>6
      <4> QED
        BY <3>3, <3>4, <3>6, <4>1, <4>2
    <3>7. CASE k \in b.items /\ l \notin b.items
      <4>1. listId[l] = b.run
        BY <1>5, <2>1, <3>1, <3>7
      <4>2. l < k
        BY <1>4, <3>1, <3>7, <4>1
      <4> QED
        BY <2>1, <3>1, <4>2
    <3>8. CASE k \notin b.items /\ l \notin b.items
      <4>1. /\ k \in LiveLists /\ l \in LiveLists /\ listId[k] = listId[l]
            /\ listAt'[k] = listAt[k] /\ listAt'[l] = listAt[l]
        BY <1>2, <1>5, <2>1, <3>1, <3>2, <3>8
      <4> QED
        BY <2>1, <4>1 DEF ImportInv, ImportedInFileOrder
    <3> QED
      BY <3>5, <3>6, <3>7, <3>8
  <2> QED
    BY <1>1, <2>1 DEF ImportInv, ImportedInFileOrder
<1>14. CompletedMeansImported' /\ FullBatchesOK'
  <2>1. job = "completed" => b.run # worker.run
    BY <1>1 DEF ImportInv, FullBatchesOK
  <2>2. worker.run # 0 \/ job # "completed"
    BY <1>4 DEF ImportInv, JobOK
  <2>3. \A c \in FileCards : listOf[c] # 0 => listOf[c] \in FileLists
    BY MappedListsAreListed DEF ImportInv
  <2>4. job = "completed" => Missing' = Missing
    BY <1>1, <1>3, <1>5, <2>1, <2>2, <2>3 DEF Missing
  <2>5. CompletedMeansImported'
    BY <1>1, <1>3, <2>4 DEF ImportInv, CompletedMeansImported
  <2>6. FullBatchesOK'
    BY <1>3 DEF ImportInv, FullBatchesOK
  <2> QED
    BY <2>5, <2>6
<1>15. ListPhaseOK'
  <2> SUFFICES ASSUME worker'.phase \in {"lists", "lastLists", "map"} PROVE ListPhaseOK'
    BY DEF ListPhaseOK
  <2>1. worker.phase \in {"lists", "lastLists", "map"}
    BY <1>3
  <2>2. /\ worker.listIdMap = NoIds /\ worker.tasksByList = NoBuffer
        /\ worker.cursor <= NumLists /\ worker.unsentLists \subseteq 1..worker.cursor
        /\ worker.phase # "lists" => worker.cursor = NumLists /\ worker.unsentLists = {}
        /\ worker.phase = "map" => ~Paused
        /\ \A k \in FileLists : listId[k] = worker.run =>
              k <= worker.cursor /\ \A l \in worker.unsentLists : k < l
        /\ \A a \in batches : a.run = worker.run =>
              /\ a.stage = "lists" /\ worker.unsentLists = {}
              /\ \A l \in a.items : l <= worker.cursor
        /\ \A l \in FileLists :
              \/ l > worker.cursor \/ l \in worker.unsentLists
              \/ \E a \in batches : a.run = worker.run /\ l \in a.items
              \/ /\ Imported(l) = {}
                 /\ \A a \in CardBatches : a.list = l => a.id # listId[l]
    BY <2>1 DEF ImportInv, ListPhaseOK
  <2>3. b.run = worker.run <=> Current(b)
    BY <2>1 DEF Current, ImportInv, JobOK
  <2>4. b.run = worker.run => ~Paused'
    <3>1. \A a \in batches : a.run = worker.run => a \in ListBatches
      BY <2>2 DEF ListBatches
    <3>2. \A a \in ListBatches : a \in batches /\ a.list = 0
      BY DEF ListBatches, ImportInv, BatchesOK
    <3> QED
      BY <1>3, <1>8, <3>1, <3>2 DEF Paused
  <2>5. /\ worker'.phase # "lists" => worker.cursor = NumLists /\ worker.unsentLists = {}
        /\ worker'.phase = "map" => ~Paused'
    <3>1. Paused' => Paused
      BY <1>3 DEF Paused
    <3> QED
      BY <1>3, <2>1, <2>2, <2>3, <2>4, <3>1
  <2>6. \A k \in FileLists : listId'[k] = worker.run =>
            k <= worker.cursor /\ \A l \in worker.unsentLists : k < l
    BY <1>5, <2>2
  <2>7. ASSUME NEW k \in FileLists
        PROVE  \/ k > worker.cursor \/ k \in worker.unsentLists
               \/ \E a \in batches' : a.run = worker.run /\ k \in a.items
               \/ /\ Imported(k) = {}
                  /\ \A a \in CardBatches : a.list = k => a.id # listId'[k]
    <3>1. CASE k \in b.items
      BY <1>4, <1>5, <3>1
    <3>2. CASE k \notin b.items
      BY <1>3, <1>5, <2>2, <3>2
    <3> QED
      BY <3>1, <3>2
  <2> QED
    BY <1>3, <1>6, <1>7, <2>2, <2>5, <2>6, <2>7 DEF ListPhaseOK
<1>16. CardPhaseOK'
  <2> SUFFICES ASSUME worker'.phase \in {"cards", "lastCards"} PROVE CardPhaseOK'
    BY DEF CardPhaseOK
  <2>1. worker'.phase = worker.phase /\ worker.phase \in {"cards", "lastCards"}
    BY <1>3
  <2>2. b.run # worker.run /\ IdsOfBatches
    BY <1>1, <2>1 DEF ImportInv, CardPhaseOK, IdsOfBatches
  <2>3. \A k \in FileLists :
            /\ listId'[k] = worker.run => listId[k] = worker.run
            /\ listId'[k] = worker.listIdMap[k] => listId[k] = listId'[k]
    BY <1>4, <1>5, <2>2
  <2>4. IdsOfBatches'
    BY <1>3, <2>2 DEF IdsOfBatches
  <2> QED
    BY <1>1, <1>3, <1>7, <2>1, <2>3, <2>4 DEF ImportInv, CardPhaseOK
<1> QED
  BY <1>9, <1>10, <1>11, <1>12, <1>13, <1>14, <1>15, <1>16 DEF ImportInv

-----------------------------------------------------------------------------
(* The theorems *)

LEMMA StutteringKeeps == ASSUME ImportInv, UNCHANGED vars PROVE ImportInv'
<1> USE DEF vars
<1>1. TypeOK' /\ RowsOK' /\ JobOK'
  BY DEF ImportInv, TypeOK, RowsOK, TaskCount, Imported, JobOK, Paused
<1>2. BatchesOK' /\ CardBatchesOK'
  BY DEF ImportInv, BatchesOK, ListBatches, CardBatches, CardBatchesOK, Unwritten,
         Imported, Before, TaskCount
<1>3. ListPhaseOK' /\ CardPhaseOK'
  BY DEF ImportInv, ListPhaseOK, CardPhaseOK, IdsOfBatches, Taken, InBatches,
         Unwritten, Imported, Paused, CardBatches
<1>4. ImportedInFileOrder' /\ CompletedMeansImported' /\ FullBatchesOK'
  BY DEF ImportInv, ImportedInFileOrder, CompletedMeansImported, Missing, LiveLists,
         FullBatchesOK
<1> QED
  BY <1>1, <1>2, <1>3, <1>4 DEF ImportInv

LEMMA NextPreservesImportInv == ImportInv /\ [Next]_vars => ImportInv'
<1> SUFFICES ASSUME ImportInv, [Next]_vars PROVE ImportInv'
  OBVIOUS
<1>1. CASE UNCHANGED vars
  BY <1>1, StutteringKeeps
<1>2. CASE Next
  <2>1. TypeOK'
    BY <1>2, TypesArePreserved DEF ImportInv
  <2>2. CASE Upload
    BY <2>1, <2>2, UploadKeeps
  <2>3. CASE Begin
    BY <2>1, <2>3, BeginKeeps
  <2>4. CASE ReadList
    BY <2>1, <2>4, ReadListKeeps
  <2>5. CASE EndLists
    BY <2>1, <2>5, EndListsKeeps
  <2>6. CASE BuildListIdMap
    BY <2>1, <2>6, BuildListIdMapKeeps
  <2>7. CASE ReadCard
    BY <2>1, <2>7, ReadCardKeeps
  <2>8. CASE EndCards
    BY <2>1, <2>8, EndCardsKeeps
  <2>9. CASE Crash
    BY <2>1, <2>9, CrashKeeps
  <2>10. CASE StreamFails
    BY <2>1, <2>10, StreamFailsKeeps
  <2>11. ASSUME NEW b \in batches, CreateLists(b) PROVE ImportInv'
    <3>1. CASE b.items \cap LiveLists = {}
      BY <2>1, <2>11, <3>1, CreateListsKeeps
    <3>2. CASE b.items \cap LiveLists # {}
      BY <2>1, <2>11, <3>2, RejectKeeps DEF CreateLists, rows
    <3> QED
      BY <3>1, <3>2
  <2>12. ASSUME NEW b \in batches, CountByList(b) PROVE ImportInv'
    BY <2>1, <2>12, CountByListKeeps
  <2>13. ASSUME NEW b \in batches, CreateManyTasks(b) PROVE ImportInv'
    <3>1. CASE CanInsert(b)
      BY <2>1, <2>13, <3>1, CreateManyTasksKeeps
    <3>2. CASE ~CanInsert(b)
      BY <2>1, <2>13, <3>2, RejectKeeps DEF CreateManyTasks, rows
    <3> QED
      BY <3>1, <3>2
  <2>14. ASSUME NEW b \in batches, Announce(b) PROVE ImportInv'
    BY <2>1, <2>14, AnnounceKeeps
  <2>15. ASSUME NEW b \in batches, BatchFails(b) PROVE ImportInv'
    BY <2>1, <2>15, RejectKeeps DEF BatchFails
  <2>16. ASSUME NEW l \in FileLists, AddTask(l) PROVE ImportInv'
    BY <2>1, <2>16, AddTaskKeeps
  <2>17. ASSUME NEW l \in FileLists, RemoveList(l) PROVE ImportInv'
    BY <2>1, <2>17, RemoveListKeeps
  <2>18. CASE ReadAhead
    BY <2>1, <2>18, ReadAheadKeeps
  <2> QED
    BY <1>2, <2>2, <2>3, <2>4, <2>5, <2>6, <2>7, <2>8, <2>9, <2>10, <2>11,
       <2>12, <2>13, <2>14, <2>15, <2>16, <2>17, <2>18 DEF Next, Work, Stream, Write
<1> QED
  BY <1>1, <1>2

\* Whatever clients, errors and crashes do, each batch under way is the next
\* part of its list; what the present run has read of a list is what is imported
\* or in a batch of its own; and a full batch that handleEnd did not wait for
\* holds the last card of the file (trello.processor.ts: processLists,
\* processTasks and the batches they send).
THEOREM ImportInvariant == Spec => []ImportInv
<1>1. Init => ImportInv
  BY InitEstablishesImportInv
<1>2. ImportInv /\ [Next]_vars => ImportInv'
  BY NextPreservesImportInv
<1> QED
  BY <1>1, <1>2, PTL DEF Spec

\* The rows, the job, the worker and its batches keep their types, and no buffer
\* of the worker stays at the size that makes a batch.
THEOREM TypeCorrect == Spec => []TypeOK
<1>1. ImportInv => TypeOK
  BY DEF ImportInv
<1> QED
  BY <1>1, ImportInvariant, PTL

\* The imported cards of a list are the first ones of the file, in its order,
\* for any number of lists, cards, runs, clients' tasks and any size of a batch.
THEOREM CardsStayInFileOrder == Spec => []ImportedInFileOrder
<1>1. ImportInv => ImportedInFileOrder
  BY DEF ImportInv
<1> QED
  BY <1>1, ImportInvariant, PTL

\* When a job has reported "completed" (TrelloProcessor.processTasks), then the
\* cards without a task, of the lists that its run made and that are still there,
\* are none, or exactly one full batch of one list, with the last card of the
\* file in it, behind which the stream ended in its pause.
THEOREM CompletedImportsLackOneBatch == Spec => []CompletedMeansImported
<1>1. ImportInv => CompletedMeansImported
  BY DEF ImportInv
<1> QED
  BY <1>1, ImportInvariant, PTL

=============================================================================
