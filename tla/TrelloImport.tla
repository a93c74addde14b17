---------------------------- MODULE TrelloImport ----------------------------
(***************************************************************************)
(* The import of one Trello file into one board.  The upload queues a job; *)
(* the worker streams the file twice, first for its lists, then for its    *)
(* cards, and writes rows in batches while the stream is paused.  At the   *)
(* end of the cards the partial batches of all lists are written at once.  *)
(*                                                                         *)
(* A batch of cards is counted, inserted and announced by three awaited    *)
(* calls.  Nothing cancels a batch: when the job fails, the batches that   *)
(* are under way go on, even beside the next job.                          *)
(*                                                                         *)
(* While it is paused, a stream reads on into its buffer.  If it gets to   *)
(* the end of the file there, then it ends as soon as the buffer has been  *)
(* read, although it may be paused again by then.                          *)
(*                                                                         *)
(* Meanwhile clients add tasks to the imported lists and delete lists that *)
(* are still empty.  What they do to imported tasks is BoardContent's part.*)
(***************************************************************************)
EXTENDS Integers, FiniteSets

CONSTANTS
    NumLists,    \* lists in the file
    NumCards,    \* cards in the file
    BatchSize,   \* rows in a full batch: 100 in the code
    Ahead,       \* items a paused stream buffers: 16 in Node
    MaxRuns,     \* bound on the runs of process(), of new and stalled jobs
    MaxOthers    \* bound on the tasks clients add to a list

ASSUME SizesAreNatural ==
    {NumLists, NumCards, BatchSize, Ahead, MaxRuns, MaxOthers} \subseteq Nat \ {0}

\* So the end of the lists never finds the stream paused: a buffer holds too
\* few of them for a full batch.
ASSUME BufferIsSmall == Ahead < BatchSize

\* Lists and cards are numbered in file order.
FileLists == 1..NumLists
FileCards == 1..NumCards

VARIABLES
    listOf,    \* the file: listOf[c] is the list of card c, 0 if not in it
    listId,    \* listId[l]: id of the list row (the run that made it), or 0
    listAt,    \* listAt[l]: position of that row
    cardAt,    \* cardAt[c]: position of the task row, or -1 without a row
    others,    \* others[l]: the tasks of l that clients have added
    job,       \* the state of the job in import-queue
    worker,    \* the run in progress: where its stream and its buffers are
    batches    \* the batches that are under way

rows == <<listId, listAt, cardAt, others>>
vars == <<listOf, listId, listAt, cardAt, others, job, worker, batches>>

-----------------------------------------------------------------------------

JobState == {"none", "waiting", "active", "completed", "failed"}

\* "last": the stream has ended and its last batches are being written.
Phase == {"none", "lists", "lastLists", "map", "cards", "lastCards"}

\* drained: the rest of the file is in the stream's buffer.
Worker == [run : 0..MaxRuns, stalled : BOOLEAN, phase : Phase, cursor : Nat,
           drained : BOOLEAN, unsentLists : SUBSET FileLists,
           tasksByList : [FileLists -> SUBSET FileCards],
           listIdMap : [FileLists -> 0..MaxRuns]]

\* last: a batch of handleEnd, with what the buffers hold at the end.
Batch == [run : 1..MaxRuns, last : BOOLEAN, stage : {"lists", "count", "insert", "announce"},
          list : 0..NumLists, id : 0..MaxRuns,
          items : (SUBSET FileLists) \cup (SUBSET FileCards), first : Nat]

NoBuffer == [l \in FileLists |-> {}]
NoIds == [l \in FileLists |-> 0]

\* Types; and no buffer is left at the size that makes a batch.
TypeOK ==
    /\ listOf \in [FileCards -> 0..NumLists]
    /\ listId \in [FileLists -> 0..MaxRuns]
    /\ listAt \in [FileLists -> Nat]
    /\ cardAt \in [FileCards -> Nat \cup {-1}]
    /\ others \in [FileLists -> 0..MaxOthers]
    /\ job \in JobState
    /\ worker \in Worker
    /\ batches \subseteq Batch
    /\ Cardinality(worker.unsentLists) < BatchSize
    /\ \A l \in FileLists : Cardinality(worker.tasksByList[l]) < BatchSize

Init ==
    /\ listOf \in [FileCards -> 0..NumLists]
    /\ listId = NoIds
    /\ listAt = [l \in FileLists |-> 0]
    /\ cardAt = [c \in FileCards |-> -1]
    /\ others = [l \in FileLists |-> 0]
    /\ job = "none"
    /\ worker = [run |-> 0, stalled |-> FALSE, phase |-> "none", cursor |-> 0,
                 drained |-> FALSE, unsentLists |-> {}, tasksByList |-> NoBuffer,
                 listIdMap |-> NoIds]
    /\ batches = {}

-----------------------------------------------------------------------------
(* The database *)

LiveLists == {l \in FileLists : listId[l] # 0}
Imported(l) == {c \in FileCards : listOf[c] = l /\ cardAt[c] # -1}
TaskCount(l) == Cardinality(Imported(l)) + others[l]

LastPositions ==
    {p \in {0} \cup {listAt[l] : l \in LiveLists} :
        \A l \in LiveLists : listAt[l] <= p}

\* The index of an item in its batch.
Index(i, items) == Cardinality({j \in items : j < i})

-----------------------------------------------------------------------------
(* The queue *)

Upload ==
    /\ job \notin {"waiting", "active"}
    /\ worker.run < MaxRuns
    /\ job' = "waiting"
    /\ worker' = [worker EXCEPT !.stalled = FALSE]
    /\ UNCHANGED <<listOf, rows, batches>>

Begin ==
    /\ job = "waiting"
    /\ job' = "active"
    /\ worker' = [worker EXCEPT !.run = @ + 1, !.phase = "lists",
                                !.cursor = 0, !.drained = FALSE,
                                !.unsentLists = {},
                                !.tasksByList = NoBuffer, !.listIdMap = NoIds]
    /\ UNCHANGED <<listOf, rows, batches>>

End(state) ==
    /\ job' = state
    /\ worker' = [worker EXCEPT !.phase = "none"]

\* The process stops.  The batches under way stop with it, and a job whose
\* lock expires runs again, once (BullMQ's default for stalled jobs).
Crash ==
    /\ job = "active" \/ batches # {}
    /\ worker.run < MaxRuns
    /\ batches' = {}
    /\ \/ job = "active" /\ ~worker.stalled /\ job' = "waiting"
          /\ worker' = [worker EXCEPT !.stalled = TRUE, !.phase = "none"]
       \/ job = "active" /\ worker.stalled /\ End("failed")
       \/ job # "active" /\ UNCHANGED <<job, worker>>
    /\ UNCHANGED <<listOf, rows>>

-----------------------------------------------------------------------------
(* The streams *)

\* Mutant: the stream goes on while a batch is written.
NeverPaused == FALSE

\* pipeline.pause() until the batch of this run is written
Paused == \E b \in batches : b.run = worker.run

\* Mutant: a batch is full when it has more than BatchSize rows.
Overfull(items) == Cardinality(items) > BatchSize

Full(items) == Cardinality(items) >= BatchSize

ListBatch(items, last) ==
    [run |-> worker.run, last |-> last, stage |-> "lists", list |-> 0, id |-> 0,
     items |-> items, first |-> 0]

CardBatch(l, items, last) ==
    [run |-> worker.run, last |-> last, stage |-> "count", list |-> l,
     id |-> worker.listIdMap[l], items |-> items, first |-> 0]

Streaming(phase) == job = "active" /\ worker.phase = phase /\ ~Paused

\* processLists: handleData
ReadList ==
    /\ Streaming("lists")
    /\ worker.cursor < NumLists
    /\ LET next == worker.cursor + 1
           unsent == worker.unsentLists \cup {next} IN
       /\ worker' = [worker EXCEPT !.cursor = next,
                       !.unsentLists = IF Full(unsent) THEN {} ELSE unsent]
       /\ batches' = batches \cup
                       IF Full(unsent) THEN {ListBatch(unsent, FALSE)} ELSE {}
    /\ UNCHANGED <<listOf, rows, job>>

\* processLists: handleEnd
EndLists ==
    /\ Streaming("lists")
    /\ worker.cursor = NumLists
    /\ worker' = [worker EXCEPT !.unsentLists = {},
                    !.phase = IF worker.unsentLists = {} THEN "map"
                              ELSE "lastLists"]
    /\ batches' = batches \cup
                    IF worker.unsentLists = {} THEN {}
                    ELSE {ListBatch(worker.unsentLists, TRUE)}
    /\ UNCHANGED <<listOf, rows, job>>

\* buildListIdMap: the ids are read once, before the first card.
BuildListIdMap ==
    /\ Streaming("map")
    /\ worker' = [worker EXCEPT !.phase = "cards", !.cursor = 0,
                                !.listIdMap = listId]
    /\ UNCHANGED <<listOf, rows, job, batches>>

Mapped(c) == listOf[c] # 0 /\ worker.listIdMap[listOf[c]] # 0

\* processTasks: handleData; cards of lists without an id are skipped.
ReadCard ==
    /\ Streaming("cards")
    /\ worker.cursor < NumCards
    /\ LET c == worker.cursor + 1
           l == listOf[c]
           unsent == worker.tasksByList[l] \cup {c} IN
       \/ /\ ~Mapped(c)
          /\ worker' = [worker EXCEPT !.cursor = c]
          /\ UNCHANGED batches
       \/ /\ Mapped(c) /\ ~Full(unsent)
          /\ worker' = [worker EXCEPT !.cursor = c,
                                      !.tasksByList[l] = unsent]
          /\ UNCHANGED batches
       \/ /\ Mapped(c) /\ Full(unsent)
          /\ worker' = [worker EXCEPT !.cursor = c, !.tasksByList[l] = {}]
          /\ batches' = batches \cup {CardBatch(l, unsent, FALSE)}
    /\ UNCHANGED <<listOf, rows, job>>

\* While a batch is written, the rest of the file gets into the buffer.
ReadAhead ==
    /\ job = "active" /\ worker.phase = "cards" /\ Paused
    /\ ~worker.drained
    /\ worker.cursor < NumCards /\ NumCards - worker.cursor <= Ahead
    /\ worker' = [worker EXCEPT !.drained = TRUE]
    /\ UNCHANGED <<listOf, rows, job, batches>>

\* 'end' is emitted when the last card has been read: from the buffer of a
\* stream that has ended, or once the stream is not paused.
CardsEnd ==
    /\ job = "active" /\ worker.phase = "cards"
    /\ worker.cursor = NumCards
    /\ worker.drained \/ ~Paused

\* Mutant: partial batches are forgotten.
ForgetPartialBatches ==
    /\ CardsEnd
    /\ End("completed")
    /\ UNCHANGED <<listOf, rows, batches>>

\* processTasks: handleEnd, one batch for each list that has cards left; it
\* does not wait for a full batch that is under way
EndCards ==
    /\ CardsEnd
    /\ LET left == {l \in FileLists : worker.tasksByList[l] # {}} IN
       \/ left = {} /\ End("completed") /\ UNCHANGED batches
       \/ /\ left # {}
          /\ batches' = batches \cup
                {CardBatch(l, worker.tasksByList[l], TRUE) : l \in left}
          /\ worker' = [worker EXCEPT !.phase = "lastCards",
                                      !.tasksByList = NoBuffer]
          /\ UNCHANGED job
    /\ UNCHANGED <<listOf, rows>>

\* The file cannot be opened or breaks off, or the map cannot be read.
StreamFails ==
    /\ job = "active" /\ worker.phase \in {"lists", "map", "cards"}
    /\ End("failed")
    /\ UNCHANGED <<listOf, rows, batches>>

-----------------------------------------------------------------------------
(* The batches *)

Current(b) == job = "active" /\ b.run = worker.run

\* The promise of a batch is fulfilled.  A paused stream resumes; after the
\* last of the batches of handleEnd, the next phase begins.
Fulfil(b) ==
    /\ batches' = batches \ {b}
    /\ LET isLast == b.last /\ \A a \in batches' : a.run = b.run => ~a.last IN
       \/ /\ Current(b) /\ worker.phase = "lastLists"
          /\ worker' = [worker EXCEPT !.phase = "map"]
          /\ UNCHANGED job
       \/ Current(b) /\ worker.phase = "lastCards" /\ isLast
          /\ End("completed")
       \/ /\ ~Current(b) \/ worker.phase \in {"lists", "cards"}
             \/ (worker.phase = "lastCards" /\ ~isLast)
          /\ UNCHANGED <<worker, job>>

\* Mutant: the error of a batch is logged only.
LogError(b) ==
    /\ batches' = batches
    /\ UNCHANGED <<worker, job>>

\* The promise of a batch is rejected, and with it the job of its run.
Reject(b) ==
    /\ batches' = batches \ {b}
    /\ IF Current(b) THEN End("failed") ELSE UNCHANGED <<worker, job>>

\* ListRepository.createMany: one transaction; externalId is unique.
CreateLists(b) ==
    /\ b.stage = "lists"
    /\ \/ /\ b.items \cap LiveLists = {}
          /\ listId' = [l \in FileLists |->
                          IF l \in b.items THEN b.run ELSE listId[l]]
          /\ \E last \in LastPositions :
                listAt' = [l \in FileLists |->
                             IF l \in b.items THEN last + 1 + Index(l, b.items)
                             ELSE listAt[l]]
          /\ Fulfil(b)
       \/ /\ b.items \cap LiveLists # {}
          /\ UNCHANGED <<listId, listAt>>
          /\ Reject(b)
    /\ UNCHANGED <<listOf, cardAt, others>>

\* createMultipleSameList: the count, the insert, and the read of the list
\* for the announcement
CountByList(b) ==
    /\ b.stage = "count"
    /\ batches' = (batches \ {b}) \cup
         {[b EXCEPT !.stage = "insert",
                    !.first = IF listId[b.list] = b.id
                              THEN TaskCount(b.list) ELSE 0]}
    /\ UNCHANGED <<listOf, rows, job, worker>>

CanInsert(b) ==
    listId[b.list] = b.id /\ \A c \in b.items : cardAt[c] = -1

CreateManyTasks(b) ==
    /\ b.stage = "insert"
    /\ \/ /\ CanInsert(b)
          /\ cardAt' = [c \in FileCards |->
                          IF c \in b.items THEN b.first + Index(c, b.items)
                          ELSE cardAt[c]]
          /\ batches' = (batches \ {b}) \cup {[b EXCEPT !.stage = "announce"]}
          /\ UNCHANGED <<worker, job>>
       \/ ~CanInsert(b) /\ Reject(b) /\ UNCHANGED cardAt
    /\ UNCHANGED <<listOf, listId, listAt, others>>

Announce(b) ==
    /\ b.stage = "announce"
    /\ Fulfil(b)
    /\ UNCHANGED <<listOf, rows>>

\* A call of a batch gets no answer but an error of the database.
BatchFails(b) == Reject(b) /\ UNCHANGED <<listOf, rows>>

-----------------------------------------------------------------------------
(* The clients of the board *)

AddTask(l) ==
    /\ l \in LiveLists
    /\ others[l] < MaxOthers
    /\ others' = [others EXCEPT ![l] = @ + 1]
    /\ UNCHANGED <<listOf, listId, listAt, cardAt, job, worker, batches>>

RemoveList(l) ==
    /\ l \in LiveLists
    /\ TaskCount(l) = 0
    /\ listId' = [listId EXCEPT ![l] = 0]
    /\ listAt' = [listAt EXCEPT ![l] = 0]
    /\ UNCHANGED <<listOf, cardAt, others, job, worker, batches>>

-----------------------------------------------------------------------------

Stream == \/ Begin \/ ReadList \/ EndLists \/ BuildListIdMap
          \/ ReadCard \/ EndCards

Write(b) ==
    CreateLists(b) \/ CountByList(b) \/ CreateManyTasks(b) \/ Announce(b)

Work == Stream \/ \E b \in batches : Write(b)

Next ==
    \/ Upload
    \/ Work
    \/ Crash
    \/ StreamFails
    \/ ReadAhead
    \/ \E b \in batches : BatchFails(b)
    \/ \E l \in FileLists : AddTask(l) \/ RemoveList(l)

\* The queue hands its job to the worker, streams deliver, and the database
\* answers a batch, if only with an error.
Spec == Init /\ [][Next]_vars /\ WF_vars(Work)

-----------------------------------------------------------------------------
(* Properties *)

\* The cards of lists that the last run made and that still exist, but which
\* have no row.
Missing ==
    {c \in FileCards : /\ listOf[c] # 0 /\ listId[listOf[c]] = worker.run
                       /\ cardAt[c] = -1}

\* A completed job has imported every card of every list it made and that still
\* exists, as its log says ("All tasks processed successfully"), but for one case:
\* it may lack the one full batch that the last card of the file has filled,
\* which nobody waits for when the stream ends paused, and which may fail later.
\* No partial batch is lost, and no other one is still to be written.
CompletedMeansImported ==
    job = "completed" /\ Missing # {} =>
        /\ worker.drained
        /\ NumCards \in Missing /\ Cardinality(Missing) = BatchSize
        /\ \A c \in Missing : listOf[c] = listOf[NumCards]

\* Whatever fails, crashes or is left over from an earlier run, the imported
\* cards of a list are the first ones of the file, at increasing positions,
\* although clients add tasks between its batches; and so are the lists that
\* one run has made.
ImportedInFileOrder ==
    /\ \A c, d \in FileCards :
          (c < d /\ listOf[c] = listOf[d] /\ cardAt[d] # -1)
             => cardAt[c] # -1 /\ cardAt[c] < cardAt[d]
    /\ \A k, l \in LiveLists :
          (k < l /\ listId[k] = listId[l]) => listAt[k] < listAt[l]

\* Every uploaded file is done with: no error leaves the job's promise open
\* with its stream paused.
EveryJobEnds == job = "waiting" ~> job \in {"completed", "failed"}

=============================================================================
