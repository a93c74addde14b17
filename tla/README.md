# Sprint Tracker API: a verification project

TLA+ models of the NestJS server in `src/src`, checked with TLC and, where it
says so, proved with TLAPS for every number of users, requests, lists, tasks
and object keys. Every definition that stands for code is listed in
`PROJECT.json` under `map` with the lines it stands for.

## The system

A Node process answers HTTP requests, two BullMQ workers take jobs from Redis,
sockets announce changes. All durable state is in PostgreSQL
(through Prisma), in Redis queues and in an S3 bucket. Handlers are `async`
functions: between two `await`s any other request may run, and nothing but a
database transaction or a unique key holds them apart.

| Component | State | Operations | What is hard | What makes it correct |
|---|---|---|---|---|
| Board membership (`board/`) | Board, BoardMember, Invite rows | create, remove, removeMember (owner leaves, regular removal), changeMemberRole, invite, responseInvite | several reads, then a write; ownership moves while others act; invites answered twice, or under another board's URL | the owner is an ADMIN of its board; an invite acts at most once; a deleted board stays empty |
| Role guard (`auth/guards/board-role.guard.ts`) | none | read of the caller's role before each handler | the role is stale when the handler writes | only allowed roles start a request |
| Lists, tasks (`list/`, `task/`) | List, Task rows with integer positions | create, update, place, move, remove | positions computed from stale reads; shift and update not in one transaction; cascade | lists of tasks are sequences; `completedAt` iff DONE; no list deleted with tasks |
| Trello import (`integrations/trello/`) | job, stream, buffers, batches under way | upload, stream lists, stream cards, write batches | back-pressure, parallel final batches, errors that cancel nothing, a stream that ends while paused, a job run twice | order of the file; completed means imported, but for one batch; every job ends |
| User account (`user/`) | User row, avatar objects | uploadAvatar, deleteAccount, updateUser | a row and a bucket without a transaction | the row never names a missing object |
| S3 (`infrastructure/awsS3`) | objects | upload, delete, stream | fails alone | steps of the two above |
| Authentication (`auth/`) | User rows: address, passwordHash, resetToken; tickets (JWT); connections to the directory | signUp, provider and LDAP sign-in, forgotPassword, verifyResetCode, resetPassword, changePassword | check-then-create; a row read, then cleared or overwritten later; six exits of one LDAP login | an address has one row; a code goes to the address it was stored under; a first password needs a code |
| E-mail (`infrastructure/email`) | email-queue | three job types | at-least-once, one attempt, behind newer codes | the newest mail counts |
| Realtime (`infrastructure/events`) | socketData of two gateways, rooms of sockets | connect, joinBoard, leaveBoard, disconnect, announce | an await between check and join; events after writes, not with them; writes without any | who shows a board is in its room and up to date |
| Analysis (`analysis/`) | none | two summaries over one query each | rounding, archived rows, two clocks | parts add up to totals |

Interactions: a handler calls its repository (one statement or transaction
each), and after the write emits an in-process event (`board.modified`,
`notification.new`, `user.*`), which listeners forward to a gateway or a queue.
The Trello worker calls `ListService` and `TaskService` directly. Deleting a
board cascades to members, invites, lists and tasks; deleting a user is refused
while boards or memberships refer to it.

## Common modelling decisions

* **One awaited call, one step.** A request slot `r` holds the handler's local
  variables and the call it makes next (`req[r]`); each repository call is one
  atomic step. What was read stays in `req[r]` and may be stale. A database
  transaction is one step. PostgreSQL's default, Read Committed, isolates less
  than that; the transactions here are short sequences of writes whose rows are
  locked by their first statement, and interleavings inside a transaction are
  not modelled.
* **Constraints are guards.** A write that a primary key, a foreign key or a
  missing row refuses is a branch of the action: the handler throws, the slot
  is free, nothing changes.
* **Refused requests.** A request that its first read refuses changes nothing;
  where that read decides nothing else it is not represented.
* **Faults.** `MayFail`, or an action of its own, adds a step in which a request
  dies between two statements (database error, lost connection, stopped
  process); what it committed stays.
* **Serial and calm.** A handler that reads, then writes, keeps some promises
  only while nothing overlaps it. Those are checked either in a run with one
  request slot (BoardMembership, BoardContent) or under the history variable
  `calm` of the MC module, which is TRUE as long as requests have come one at a
  time and none has failed (UserAccount, Credentials): one run then shows both
  what holds always and what holds in calm.
* Events are modelled where somebody acts on them: the mails (Credentials), the
  room events (RealtimeRooms). Responses, titles and other texts are left out.

## Modules

* **BoardMembership**: one board from creation to deletion. `board`, `owner`,
  `member`, `joinedAt`, `invite` are the rows; actions are the calls of
  `BoardService`. The BoardRoleGuard's read is the step that starts a request
  (`GuardedStart`). `responseInvite` loads an invite by its id and never asks
  whether it is of the board in the URL, so the invites are those of the board
  and, in `ForeignIds`, those of others. What happens to an invite elsewhere is
  an action of the environment: `InviteElsewhere` sends one, `SpendElsewhere`
  deletes one (answered under another URL, or gone with its own board).
* **InviteLifecycle**: what invites and membership promise, whatever
  interleaves or fails: an invite, of this board or another, acts once, and who
  becomes a member consumes one of his. BoardMembership implements it by the
  identity mapping (`InvitesFollowLifecycle`); proved.
* **AtomicBoard**: the membership rules as one-step operations, with the rule of
  succession. BoardMembership implements it while requests run one at a time
  (`HandlersAreAtomic`): intermediate calls are stutters; proved.
* **BoardContent**: lists and tasks of several boards; `BoardOf` gives the board
  a list is created on. A task may be moved to a list of any board, positions
  of lists are a board's own. `Careful` tells clients that place tasks only
  inside their list from clients that send any integer, negative ones too: the
  DTOs set no minimum and `PATCH /lists/:id/position` validates nothing
  (the e2e tests send position 5 to short lists, `test/e2e/task.e2e-spec.ts`,
  `list.e2e-spec.ts`).
* **TaskSequences**: every list as a sequence with add, drop and put. The
  refinement mapping `InOrder` in BoardContent reads the sequence off the
  position fields; between a shift and the row's own update, the row counts as
  standing where it goes. BoardContent implements it for careful clients and
  requests that run one at a time to their end; proved.
* **TrelloImport**: one file into one board. A file is any assignment of cards
  to lists (`listOf`, 0 for a list that is not in the file). `worker` is the run
  of `process()`, `batches` are the promises under way. A paused stream reads
  on into its buffer (`ReadAhead`, up to `Ahead` cards); when the rest of the file
  is there (`drained`), it ends as soon as its last card is read, paused or not
  (`CardsEnd`). `last` marks the batches of `handleEnd`, whose promises are the
  job's. `Ahead` is less than `BatchSize` (16 and 100 in the code), so the lists,
  which are paused only at a full batch, never end so. `Crash` is BullMQ's
  default for stalled jobs: one more run. Other lists of the board and what
  clients do to imported tasks are left out (they are BoardContent's).
* **UserAccount**: one user's row and objects. Keys contain `Date.now()` and are
  taken to be distinct.
* **Credentials**: the rows of all users as AuthService, UserService and the two
  provider paths write them. `user[u]` is a row, `Unborn` or `Deleted`; ids are
  used once. `ticketed` and `expired` stand for the two clocks of 15 minutes:
  a ticket or a code may run out at any step. `jobs` is the e-mail queue with
  one worker, `Stall` its second run of a job, `JobFails` the end of the only
  attempt. `stored` and `honoured` are history: where a code was stored, and how
  many tickets were handed out for it. `clients` counts the connections that
  `authenticateLdap` binds and has not unbound. `signIn` and `logout` write
  nothing and are left out; a provider's sign-in of an address that has a row
  ends with its first read. A user name in use, and the provider's id in use, are a
  free choice: nothing else depends on them.
* **RealtimeRooms**: clients of one board, the sockets and rooms of BaseGateway,
  BoardGateway and NotificationsGateway, and the writes that are announced.
  A handler is write, then event, or two calls and then the event
  (`updatePosition` shifts and updates, an import's batch is inserted and its
  board then looked up); the listeners forward without a wait and are part of
  the emitting step. A notification is an invite with the names of its board
  and sender, and only `invite` announces one. `silent` has the rooms that
  changed without an event: `acceptInvite` changes the board and the user's
  notifications, a new title of the board those of its invitees, a handler that
  fails half-way the board, and `ChangeElsewhere` is the rest: an invite is
  declined, or goes with its board or sender, or `moveTaskToList` brings a task
  from another board and tells only that one. One process serves all sockets:
  there is no adapter that would carry an event to another.
  `behind[u]` is what was written since u's client read it, `stale[u]` what the
  client has been told to read. The clients are not in the repository: they
  are taken to read the board when `joinBoard` is acknowledged and after each
  `boardModified`, to leave it when the read is refused, and to read the
  notifications after connecting and after each `newNotification`. The
  properties about views are promises of the server to such clients.
* **Analysis**: the two summaries as operators over the rows of a board. The only
  action inserts a row, any row; the invariants compare each summary with its
  parts in every table so reached. Percentages are exact fractions, rounded as
  `Math.round` rounds; the code's floating point agrees for fewer than 160 rows.
  A zone is a constant offset: daylight saving is left out, and where a day of
  25 hours begins at midnight of UTC AdjacentPeriodsAddUp would not hold.
* **MC...**: the modules TLC runs, with their symmetries. **...Proofs**: the
  theorems.

The modules meet at rows. A list or task that the import creates is one of
BoardContent's, and `MaxOthers` stands for its clients; the row that UserAccount
deletes is Credentials' `DeleteUser`; every write of BoardMembership and
BoardContent that emits is a `Write` of RealtimeRooms, which keeps only that it
happened, and whether it was announced.

## Runs

| Run | Bounds | Shows |
|---|---|---|
| board_concurrent | 3 users, 2 requests, 1 invite and 1 of another board, failures | TypeOK, InvitesFollowLifecycle, OwnerHandsOverByLeaving |
| board_serial | 4 users, 1 request, 2 invites and 1 of another board | OwnerIsAdmin, OneInvitePerOutsider, HandlersAreAtomic |
| board_owner_race | 2 users, 2 requests | violated: an owner without a row |
| board_invite_race | 2 users, 2 requests, 2 invites | violated: two pending invites of one user |
| content_concurrent | 2 lists, 2 tasks, 2 requests, failures, positions -1 and 1 sent | TypeOK, NoPositionBelowSent, OtherListsKeepOrder |
| content_serial | 2 lists of one board, 1 of another, 3 tasks, 1 request, careful clients | DoneIffCompleted, ListsApart, ListsDieEmpty, TasksFormSequences |
| content_list_race | 1 list, 1 task, 2 requests | violated: a list deleted with a task in it |
| import_runs | 2 lists, 4 cards, batches of 2, 1 card read ahead, 2 runs | TypeOK, CompletedMeansImported, ImportedInFileOrder, EveryJobEnds |
| account | 3 requests, 5 keys, failures | AvatarExists, CalmOneObject |
| credentials | 2 rows, 2 addresses, 2 passwords, 2 codes, 2 requests, 2 mails, failures | TypeOK, OneRowPerAddress, CodesGoToTheirAddress, ExternalPasswordsAreReset, ClientsAreUnbound, CalmCodesHonouredOnce, CalmNewestMailCounts, CalmCodesStand, CalmChangesReplaceTheVerified |
| rooms | 1 client, 2 requests, 2 joins under way, restarts | TypeOK, OpenViewsAreInTheRoom, OpenViewsAreCurrent, NotificationsAreCurrent, EveryViewCatchesUp, RemovedMembersLeave |
| analysis | 3 rows, 1 assignee, days of 2 hours, 3 zones | PercentagesAddUp, DaysAddUpToTotal, AdjacentPeriodsAddUp |

Why the bounds are enough to be interesting: two requests are the least that
race, and every race listed among the hazards is one of two handlers; three
users give an owner, an heir and a third; four users let the choice of an heir
go by role, then by age. Three tasks have a first, a middle and a last. Batches
of two out of four cards give full batches, partial ones, and two batches of
one list; the code's size is 100. Two runs give the second job of a file, the
leftovers of a failed one, and the stalled job. Five keys are one more than
three uploads can have in the bucket at once beside the row's. Two rows and two
addresses let an address pass from one row to another while a third party acts
on it. Two codes and a queue of two let an older mail wait, stall and be sent
twice beside a newer one. One card read ahead is enough for a stream to end while
it is paused. Clients of a room touch each other only through the database and the
events, and both are taken by each as if it were alone: one client with two
calls under way shows what there is to see, and the theorems hold for any
number. Days of two hours have a first and a last hour; zones to both sides of
UTC move a task to the day before and the day after.

Bounds that only limit a behaviour: `InviteIds` (invites ever sent), `Lists`
and `Tasks` (rows at a time; a deleted id is used again), `MaxPosition` (no list
is created and no task moved beside a greater position), `Keys` (objects at a
time), `MaxRuns` (runs of the worker), `MaxOthers` (tasks clients add to one
imported list), `Users` and `Codes` of Credentials (rows ever inserted, codes
ever drawn), `MaxJobs` (no request starts behind so many mails),
`StartBehind` (only requests about reset codes start behind a waiting mail),
`CodesInTheRace` (one code, once requests have overlapped), `Horizon`.

The three violation runs are disagreements between the code's own messages and
what it does when two requests overlap; each is described under `findings`.
Two more disagreements are stated by properties that hold, with the exception
named in them. `CompletedMeansImported`: the stream of cards may end while it is
paused, so a job may complete, and log "All tasks processed successfully"
(`trello.processor.ts:238`), with one full batch still under way, which may fail
later. `OneInvitePerOutsider`: who came by an invite of another board
(`CameByForeignInvite`) may hold a pending invite of this one, although the
documentation (`board.docs.ts:174`) has the endpoint answer "an invitation to a
specific board". And a list of notifications that changed in silence is out of
date in a second tab until the next event (`NotificationsAreCurrent`).
Credentials has races of the same kind that no message of the code denies:
overlapping verifications may honour one code twice or clear a newer one, and a
change of password may undo a reset. The `Calm...` properties say where the code
keeps its order, and the hazards say where it does not.

Deadlock is checked except where the system really stops: a deleted board and a
deleted account take no requests, an import whose runs are used up (a bound
of the model) has nothing left to do, and the table of Analysis may be full.

**Fairness.** TrelloImport states `WF_vars(Work)`. A started worker's event loop
delivers the next stream event, BullMQ hands a waiting job to its worker, and
the database answers a batch, if only by an error. `Work` does not contain
crashes, errors, uploads and clients. Weak fairness of the whole of `Work` is
enough because every step of it brings the run closer to its end.
RealtimeRooms states, for each request, that a handler goes on or fails
(`WF_vars(Serve(r) \/ HandlerFails(r))`: a promise of the database is settled one
way or the other), and for each client that it reads what it is told to
(`WF_vars(ReadBoard(u))`), which is an assumption about the client. Connecting,
joining, leaving, new writes and restarts are not fair: nobody has to act.

## What is proved

The proofs assume only the named assumptions of the modules: the model values
that stand for absence are no members of the sets they are added to, positions
that clients send are integers, a stream's buffer is smaller than a batch,
`Tasks` is finite, a day has an hour.
Every safety property of the runs that pass is a theorem. Three proof modules
need more than the module they are about: `CredentialsProofs` and
`UserAccountProofs` extend the MC module for its history variable `calm` (the
theorems about `MCSpec` are about all values of the bounds in the .cfg, and of
`calm` states, which `CodesInTheRace` leaves alone), and
`TaskSequencesProofs` builds on `BoardContentProofs`.

* `BoardMembershipProofs`
  * `TypeCorrect`, `MembershipInvariant`. The inductive invariant adds to the
    types that every request is well formed for its call, that no request acts
    before the founder has a row, and that an invite id held by a request is
    the row's recipient and role as long as the invite is pending. The last is
    what makes a late answer safe.
  * `InvitesAreSafe`: the refinement of InviteLifecycle. Initial states map to
    initial states; every write is one of its actions or a stutter. Invites of
    other boards are part of it: the membership they make here is an `Accept`.
  * `OwnershipMovesOnce`: the step that moves the ownership takes exactly one
    member away, who is not the new owner, and adds none; the delete of that row
    is what a second transfer cannot repeat. It says nothing more of the two:
    when requests overlap, the row that goes need not be the previous owner's,
    nor the heir still a member (board_owner_race). One at a time they are,
    which is AtomicBoard's succession.
  * `OwnerIsAdminOneAtATime` and `OwnerIsAdminUntilHandover`: what the handlers
    keep. The invariant says of each pending call what is still known of the
    rows it read: a request that passed the check against the owner acts on
    somebody else as long as the owner is the same, and the heir that was found
    is still an ADMIN as long as nobody else acts. The race run shows that
    neither hypothesis can be dropped.
  * `InvitesGoToOutsidersOneAtATime`: what the two reads of
    `validateInviteEligibility` found still holds when the invite is written
    (`InviteeIsOutsider`). A member beside a pending invite must have come by an
    invite of another board.
  * `HandlersAreAtomicOneAtATime`: the refinement of AtomicBoard. `ReadsHold`
    says for every call what its handler knows of the rows: who acts is an
    ADMIN, whom he acts on is not the owner, the heir is the first of his role
    and there was no ADMIN to prefer. Reads change nothing and writes end the
    request, so each fact is carried from the read that finds it to the write
    that needs it. That a search which returns no row proves there is none uses
    that the join times are well-founded (`SomebodyIsFirst`). These theorems
    are for `OneAtATime`, a server with one request slot whose requests do not
    die; board_invite_race and board_owner_race show what is lost without it.
* `BoardContentProofs`
  * `TypeCorrect` and `PositionsNotBelowSent`, with `ContentInv`: a request holds
    only positions that were read or sent, hence not below 0 and all that were
    sent (`NotBelow`), and a row moves down only from strictly above such a
    position. Where clients send no negative position, none arises.
  * `StaleHandlersStayInTheirLists`: an action property from the same
    invariant.
  * `DoneIffCompletedOneAtATime`, `ListsDieEmptyOneAtATime`: with
    `ReadsAreCurrent`, what a handler has read of the row it is about to write.
    Requests may die half-way.
  * `ListsApartOneAtATime`: a shift keeps rows apart and leaves the place free
    that it is for (`ShiftedApart`), and a new list counts on from the last.
    It needs `Careful` clients, since `PATCH` and `POST` store any position
    sent, and requests that do not die: a death between the shift and the
    row's own update leaves two lists at one place.
* `TaskSequencesProofs`
  * `OrderInvariant` and `TasksAreSequences`: the refinement of TaskSequences.
    `Ranked` says that a sequence lists a set of tasks, each behind as many
    others as its position counts, which makes the positions of n tasks 0 to
    n-1 (`Formed`). Three lemmas about it carry the proof: a task at position n
    is appended (`RankedAppended`), taking one from the positions above a task
    is `RemoveAt` (`RankedRemoved`), adding one to the positions from a place
    on is `InsertAt` (`RankedInserted`). The shifts of `updatePosition`
    and `moveTaskToList` are then one removal and one insertion, in the task's
    own list or from one to another. What a
    request has read of the tasks (`TaskReads`: the row it places, the length
    of the list it counted) still holds when it writes. The hypotheses are
    `OneAtATime`, `Careful` and `~MayFail`: a position beyond the list leaves a
    gap, and a death or a second handler between the shift and the row's own
    update two tasks at one place.
* `UserAccountProofs`
  * `AccountInvariant` and `AvatarAlwaysExists`. AvatarExists alone is not
    inductive: a key that is still to be written must belong to one request and
    be nobody's old key, must be in the bucket when the row is about to take it,
    and an old key about to be deleted must have left the row for good.
  * `CalmAccountInvariant` and `OneObjectIsLeft`: while requests come one at a
    time and none fails, the key the handler has read is the row's, and an
    object the row does not name is one that this handler has just uploaded
    or is about to delete (`OtherObjectsHaveAHandler`). With no handler at work
    there is no such object.
* `CredentialsProofs`
  * `CredentialsInvariant`. `Knows` says what a handler may still rely on when
    its next call runs: a code drawn and not stored is stored nowhere, a code
    verified belongs to the row that is about to be cleared, a ticket was earned
    by an honoured code, and a user of a provider who passed the check of an old
    password had earned one. All of them are about facts that are never undone
    (where a code was stored, that it was honoured), which is why no
    interleaving can spoil them. `Progress` names the steps that undo none of
    them, and one lemma says that they leave what every other handler knows;
    each action then has only its own part to show.
  * `AddressesStayUnique`: from the guards of the two writes that set an address.
  * `CodesAreMailedWhereTheyBelong`: `forgotPassword` writes by address and mails
    to the same address, so the mail is right though the row may be another
    than the one it found.
  * `FirstPasswordsNeedACode`.
  * `ClientsAreAlwaysHeld`, and from it `NoClientIsLeftBound` and
    `TypesAreKept`: `clients` is the cardinality of `Bound`, a set of pairs of a
    request and the first or second connection that it holds at its call. A step of
    a handler adds one pair or takes its own away; the other handlers' pairs
    are untouched. That the counter is natural, part of TypeOK, is the
    statement that no exit unbinds twice.
  * `CalmInvariant`: while requests come one at a time and none fails, there is
    one handler at most and what it has read is the row (`KnowsAlone`), an
    honoured code is in no row (`HonouredAreSpent`), and
    the code in a row is the last of those mailed and queued for it
    (`CodesAreOnTheirWay`), which a job that runs twice does not change since
    the queue keeps its order. From it follow `CodesAreHonouredOnce`,
    `TheNewestMailCounts`, `CodesStand` and `ChangesReplaceTheVerified`.
* `RealtimeRoomsProofs`
  * `RoomsInvariant`, and from it `TypeCorrect`, `ShownBoardsAreInTheirRoom`,
    `ShownBoardsAreCurrent`, `ReadNotificationsAreCurrent`: but for the silent
    changes, which are exempt by name and modelled. What makes the views
    inductive is that a socket that is gone has left everything (its calls, so
    that a late join puts nothing back), that a client which shows the board
    is in its room, hence hears the next event, and that a handler of two
    calls is always about the board.
* `TrelloImportProofs`
  * `ImportInvariant`, and from it `TypeCorrect`, `CardsStayInFileOrder` and
    `CompletedImportsLackOneBatch`. Neither property is inductive, since a batch
    writes long after it was filled, perhaps beside a later run. The invariant
    says what keeps it right. A list row has the id of the run that made it, and
    no batch of cards knows the id of a list that is still to be inserted, so
    what an older run left under way cannot write to a list made since
    (`BatchesOK`). At most one batch holds cards for a row that exists, its cards
    are the next ones of their list, and all positions of the list are below the
    one it counted (`CardBatchesOK`): imported cards are never deleted here, and
    clients only add. What the present run has read of a list is imported or in
    a batch of its own (`CardPhaseOK`), so nothing is missing when the last
    batch resolves the job's promise, but what a full batch still has to write.
    There is one at most, since it pauses the stream; it can outlive the run
    only if the stream has ended meanwhile, so it was filled by the last card
    (`FullBatchesOK`).
* `AnalysisProofs`
  * `PercentagesAlwaysAddUp`: for boards of any size, from the bounds of one
    rounding and the disjoint union of the statuses.
  * `AdjacentPeriodsAlwaysAddUp`: for every offset and length of a day, from the
    arithmetic of `endOfDay`.
  * `DaysAlwaysAddUp`: for tables of any size. Both the loop that counts the tasks
    of each day and the sum over the days are folds over finite sets. Two
    functions on the subsets of a finite set agree if they agree on the empty set
    and whenever they agree without the element the fold takes first
    (`FoldsAgree`, from the well-foundedness of strict inclusion), so the loop
    yields the cardinality of each day (`LoopCounts`) and the sum that of their
    disjoint union (`SumCounts`). That the days can be put in order is
    `AscendingIsSorted`.

Model-checked only: EveryJobEnds, EveryViewCatchesUp and RemovedMembersLeave,
liveness under fairness, which the prover does not reach.

## Not modelled

* **The lookup of a board through a list or task id** in BoardRoleGuard
  (`resolveBoardId`): the guard is modelled from the membership it then reads.
* **`findOverdueTasks` and other reads**: no effect, and nobody acts on them in
  the server.
* **The deletion of a board, as clients see it**: no event announces it, and a
  client that shows it learns of it by its next read.
* **Daylight saving** in Analysis, and a second Node process in RealtimeRooms and
  TrelloImport: rooms, buffers and listeners are one process's.
* **The other boards** of an invite: whether an answer under their URLs made a
  membership there is not kept.
* **The OAuth exchange** is the library's; the strategies rename the fields of a
  profile. A provider's user is found by address although `providerId` is
  unique as well; a refused insert stands for both columns.
* **What mails and answers say**, titles, names, due dates, labels (a table
  without code that writes it), the contents of notifications.
* **Health checks, logging, wiring, DTO validation and API documentation**: no
  state. Inputs are those that pass the validation.
* **`Date.now()` twice the same** for two uploads of one user, and two equal
  reset codes of six random bytes.

## What is left

For the liveness of TrelloImport, a measure that every step of `Work`
lowers, as an action property: the part of EveryJobEnds that is no liveness.
