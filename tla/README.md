# Encore Server: verification project

Encore Server is the NestJS back end of a service that dissolves companies: a
user registers a company, pays, answers an intake call, and follows a roadmap of
tasks, with a chatbot and lawyers to ask. This directory holds TLA+ models of
the parts of it that are hard to get right, TLC configurations that check them
on small instances, and TLAPS proofs of the facts that matter most for
instances of any size.

Paths below are relative to `src/` of the server (`src/prisma` for the
schema and the seeds). `PROJECT.json` maps every definition to its lines.

## How the code is modelled

The server is one Node process. A request handler is an `async` function: it
runs without interruption from one `await` to the next, and other requests run
at its awaits. Hardly any handler uses a transaction or a lock, so nearly every
rule that spans two calls to the database is at the mercy of what other
requests do in between. The models follow that:

* **a request is a record** in one of a few slots (`Requests`), whose field
  `at` names the call it awaits; **an action is one awaited call** with the code
  that follows it up to the next `await`. A Prisma call with nested writes, or a
  `$transaction`, is one action.
* every handler that writes more than once has an action **`Fail`** (or a
  variant) for a call that rejects: the writes before it stay, since nothing
  undoes them. That is also what a crash of the process leaves in the
  database. (A crash of the process between two calls is a failure of all
  requests in flight; in `ChatPrompt` it would also empty the agent cache,
  which is always allowed to be empty for a key.)
* rows are functions of ids, and strings, names and texts are left out except
  where a rule tells them apart (a structure of the enum or free text);
* a module instance that shares no state with another may share its TLC run: the MC
  module declares the variables of both and a variable `focus`, chosen in the initial
  state, and each behaviour takes the steps of one of the two
  (`SpecBoth` of `MCRoadmap`, `MCChatAccess` and `MCFileStore`; in `MCOnboarding`
  `focus` chooses between two bounds of one module). Every behaviour of
  either module alone is one of the run, so an invariant or action property of
  either is checked as by a run of its own, and the states add up instead of
  multiplying. `TypesOK` is the type invariant of both;
* `MCChat` is `ChatLawyer` and `ChatPrompt` over one `chatType`, which a hand-over
  sets and a prompt is routed by. `JointSpec` runs both at once, for the proofs; in
  `LawyerSpec` and `PromptSpec` the other one rests (a hand-over is then one step of the
  environment of `ChatPrompt`), so that two runs check them under the fairness of each;
* variables marked *history* record what happened (who was asked last, which
  requests overlapped) for the properties to speak about; no action reads them,
  except bounds.

## Inventory

| part | state | operations | what is hard |
|---|---|---|---|
| Folders (`src/folders`, `src/files/file.repository.ts`) | `Folder` rows, `parentId` | create, rename, delete, move, ancestors, recursive list | check-then-act over several awaits; walks that end only on a forest; ON DELETE SET NULL |
| Chat hand-over (`src/chatbot/services/chat-lawyer.service.ts`) | `ChatLawyer`, `LawyerUsers`, notification, message and task rows; `chatType` | requestLawyer, sendMessage, sendAdminMessage, SSE | eight writes, no transaction; swallowed errors; double clicks |
| Chatbot (`src/chatbot/services/chatbot.service.ts`, its controller) | agent cache, the singleton's `this.agent`, SSE responses, checkpoints | ask, stream, history, upload | one field shared by all requests; timer against late answer; retries |
| Registration (`src/registration`, `src/companies`) | `Company` and its owner, locations, root folder, `User.registered` | steps 1-3, setUpAfterPayment | partial failure, repeated and overlapping steps, partial updates |
| Roadmap (`createTasks` in `src/tasks`) | dates of 26 steps | one loop over the seeded flow | chains of dates under 32 combinations of answers |
| Task board (`src/tasks`, `updateIntakeCallForm`) | `Task` rows, answers, locations | intake, create, assign, complete, delete | find-then-create, checks that are stale when used |
| Accounts (`src/auth`, `src/user`) | users, staff, reset and verification tokens, JWT | sign-up, log-in, verify, reset, activate | token limits and single use under races; times of tokens and password |
| Files and S3 (`src/files`, `src/s3`) | `FileReference` rows, objects | upload, delete, rename | object and row change separately |
| Document hub (`src/dochub`) | documents, chunks, vectors | upload, process, soft delete, search | long pipeline, partial failure |
| Document tools (`src/chatbot/tools`, the queries of `dochub.service.ts`) | none of their own | list, select, read and search documents | several queries over rows that a long pipeline is writing |
| Threads and categories (`chatbot.service.ts`) | `ChatThread`, `ChatCategory`, `ChatThreadCategory` rows | create, file a thread, list all, list one category | one reply put together from several queries |
| Meetings (`src/webhook`, `src/meetings`) | `Meeting` rows | three Calendly events, list, delete | events that repeat and reorder; find-then-update |
| Services and threads (`changeCompaniesTypes`, `createThread`, `activateDeactivateService`) | `CompanyServices`, `ChatCompany`, `ChatThread` rows, `hasPaidTheFee` | give a service to companies, switch it, open a thread | look-then-create in two handlers on one unique row; a loop of writes without a transaction |
| Metrics (`src/metrics`) | none | counts over the current week, the last one and the last month | dates of one month set in another |
| Lists of companies, reassignment, notifications, industries, staff list | rows | reads; single writes | little |
| Connection, e-mail, query builder, configuration | - | I/O and pure functions | little |

How they interact: registration creates the company and its root folder, below
which the folders and files of the company hang; the intake call writes the
company's answers and locations (the tables registration also writes) and
creates the roadmap; a hand-over takes a thread from the chatbot, which routes
by the same `chatType`, and puts a task on the board; the `ChatCompany` row it marks
is also made by new threads and by a change of services; the chatbot's tools read
what the document hub stores; everything goes through
one database, and the chatbot keeps an in-memory cache beside it.

What makes each part correct:

* *folders*: always a forest; every request ends; each write is a legal
  operation at the moment it happens;
* *hand-over*: a thread taken from the bot always has an active lawyer, just one
  if requests do not overlap; tasks follow complete hand-overs;
* *chatbot*: nobody's prompt runs on another user's agent; each streamed
  response ends, once; a prompt for a lawyer's thread never reaches the bot;
* *registration*: payment, setup and the owner's registration in order whatever fails;
  locations and structure as last asked; a completed setup is final;
* *services and threads*: a company that asked for a lawyer is not shown as one that
  did not; a service given is backed by the fee and, for the chatbot, its row;
* *metrics*: they count over the period they are asked for;
* *roadmap*: every step after those it depends on, nothing due after the end;
* *task board*: one roadmap per company, for its answers; tasks assigned to those
  who may have them; completion and type never undone;
* *accounts*: a token is used once, a password change ends older sessions and
  no newer one; *files*: a row's object exists;
* *document tools*: what was reported as processed is found, under its name;
* *threads and categories*: a list shows each thread of its user once, and lacks none
  that nobody files elsewhere;
* *meetings*: at most one row for a meeting; an event changes what it is about, and
  a cancellation that was acknowledged stays.

## Modules

### FolderHierarchy, FolderTree, FolderTreeProofs

`FolderHierarchy` is the abstract promise: a forest changed by atomic Insert,
Remove (children become roots) and Move (never below itself). `FolderTree` is
`folders.service.ts`: `createFolder`, `moveFolder` with its walk up
(`getFolderAncestors`), `deleteFolder`, and the walk down of `file.repository.ts`
(`getAllSubfolderIds`), each a request. It is shown to implement the abstract
module by the refinement `ImplementsHierarchy`, with the rows mapped to
themselves and the requests forgotten.

* **folder_tree** (passes): one slot moves, another creates and walks, deletions
  come from anywhere. The folders stay a `Forest`, every write is a legal abstract
  step (`ImplementsHierarchy`), every request ends (`Answered`). *Bounds:* three
  folders give all trees on which a walk makes 0, 1 or 2 hops, and any cycle a wrong move could close is of length at most 3.
* **folder_race** (violated, a finding): with two moves in flight each can pass
  the check and together they close a cycle, on which walks never end.

### Handover, ChatLawyer, ChatProofs

`requestLawyer`, `sendMessage` for the staff, and `sendAdminMessage`, an action per
call. `active[t][s]` counts rows, because nothing makes them unique.

`Handover` is the abstract promise: a thread taken from the chatbot goes to somebody of
the staff in the same moment (`Turn`) and is passed on from hand to hand (`Take`), until
a call on it rejects (`Fail`), after which nothing is promised. In the mapping a thread
is `turned` when it is marked as a lawyer's chat, and its `handlers` are those with an
active row and those about to have one (`Coming`: a lawyer who has been chosen, an admin
on the way to a first row). So the eight writes of a hand-over, which the code makes one
after the other, look like one step: the mark of the thread is a `Turn`, and as rows are
finalized only by a request that is about to make another, no thread taken from the
chatbot is ever in nobody's hands (`InHands`).

* **chat_lawyer** (passes): two requests on a thread. `NeverAbandoned` (a lawyer
  chat with nothing in flight and nothing rejected has an active lawyer, even
  after overlapping requests), `SoleAssignee`, `LostOnlyToHandover` (who could write in
  a thread still can, or has lost it to another lawyer who was notified and has the
  task), `ImplementsHandover`, the refinement, overlapping requests and failures included,
  and `RequestServed`: a request for a lawyer leads to a lawyer's chat or an error.
  *Bounds:* two slots show every pairwise overlap; the state of a thread never
  depends on another thread, so one is enough; two of the staff, one an admin and
  lawyer and one a lawyer only, cover the three roles.

### ChatPrompt, ChatProofs

The singleton's `agent` field, the cache, connection retries, the model as an
environment that sends any chunks or nothing, and the 60 s timer. `turn` is
Node's run-to-completion: the code between two replies of the database is one
turn, and the continuation of `initializeAgent` that is still in the microtask
queue runs before anything else. This is what keeps the shared field safe, and
`OwnAgent` says so: mutating the order breaks it.

* **chat_prompt** (passes): two requests under way, of one user on a thread or of
  staff who read its history as the user `default`, of all the kinds.
  `EndingIsLast`, `OwnAgent`, `BotIsOut` and the liveness `StreamEnds`; that agents,
  threads and prompts have their types is proved (`PromptsAreTyped`).
  *Bounds:* `MaxSent` = 2 events before the model must end: none, one, and many
  chunks are the cases the code tells apart. Two slots, as the field has two
  writers; the user's agent and `default`'s are two to confuse, and a second user of
  the company would come by the same path as the first.

### ChatAccess, ThreadProofs

Four handlers write the rows that open the chatbot to a company, and know nothing
of each other: `changeCompaniesTypes` (look for the companies without the service,
set the fee, look for and make each `ChatCompany`, add the services),
`createThread` (look for and make the `ChatCompany`, then the thread),
`activateDeactivateService` and the upsert of `requestLawyer`. A late `create` meets
the unique key and rejects.

* **chat_access** (passes): two requests at a time. `ServiceIsBacked`: what a
  change of type reported as done is done, and what it gave has the fee and the
  `ChatCompany` behind it, also when an earlier attempt had stopped half-way.
  "Done" is what the staff see of it: the company is in the tab of the service and
  no longer among the prospects (`List`, from the filters of `getCompanies`).
  `RequestIsKept`: `createThread` and `changeCompaniesTypes` never undo the `done`
  of a lawyer's request, nor take the company from the list of those. *Bounds:*
  two companies, named together or apart; one service, `AI_CHATBOT`, as the other one
  takes the same path without the loop; two threads and two slots for every pairwise
  overlap.

A remark without a property: `createThread` stores `PENDING`, which is no
`ChatbotLawyerReqStatusEnum`, so a company that has opened a thread and asked
for nothing is in neither list of the filter `hasReqChatbotLawyer`
(`companies.repository.ts:411-435`).

### ThreadList, ThreadProofs

The lists of threads and categories of some users, while threads are opened and put
into categories: `getAllThreadsAndCategories` awaits the categories of its user, the
rows of each of them (a `Promise.all`, in any order), the user's threads, and which of
them are in no category. `Order` is the order of these calls in the code, and what the
property hangs on. `threads[t]` and `categories[c]` are the user of a row.

Whose a thread is matters in the queries of the lists only. `associateThreadWithCategory`
looks for the category of its user and not for the thread (`chatbot.service.ts:982-1010`),
so `CreateRelation` files anybody's; and `getUncategorizedThreads` leaves out what is in
a category of anybody (`:1064-1076`), so `ReadFiled` looks at all the relations. A
thread that another user has filed is therefore in neither part of its user's list.

* **chat_access**, in its other behaviours: `ShownOnce`. A list shows no thread both in
  a category and as uncategorized; it has every relation that the categories of its user
  had when it was asked for; and it lacks a thread of then only if it has been filed
  since, or is in a category of another user (`FiledByOthers`, the case above). *Bounds:*
  two users, two threads and two categories (one filed, one not; both in one; one in
  both, of one user or of two), and one request that lists beside one that files.

Remarks without a property: `GET threads/uncategorized` is declared after
`GET threads/:thread_id` (`chatbot.controller.ts:139` and `:89`), which takes its
requests; and three handlers of the controller make an `HttpException` that they do not
throw (`:110`, `:156`, `:173`), and go on without the title or name they ask for.

### Onboarding, OnboardingProofs

Steps 1-3 of the registration with `createWithUser`, `setUpAfterPayment`,
`updateById` and the synchronisation of four location tables. Companies have their rows
each for itself, but one thing in common: `registered` is a column of the user, set by
step 3 for the company's owner (`FindOwner`, `Register`). A user may own several
companies, and may begin one when registered: step 1 asks nothing. So a registered user
may own a company that has not completed its setup, but not only such.

* **onboarding** (passes): two requests at a time. `SetupInOrder`,
  `LocationsAsAsked`, and `SetupIsFinal` as an action property.
  *Bounds:* two parts, chosen in the initial state (`focus`). In one, one company of one
  user in every way, with one place (a table is a set, synchronised element-wise) and
  three folders, so that two setups can race. In the other, two companies of one user or
  of two, whose requests leave the locations out and say words of the enums, because
  what companies share is the users; four folder ids let both complete, or two step 3
  race on one beside the other. Folder ids and slots are symmetric; the run has no
  liveness.
* **onboarding_step2** (violated, a finding): step 3 nulls the structure that
  step 2 stored.

### Roadmap, DatesProofs

The loop of `createTasks` as a machine with one action per kind of step; dates are
days since the first. `Duration` is a constant: the runs use the seeded ones.

* **roadmap** (passes; it also hosts Meetings): all 32 combinations of answers and all
  positions in a month (step 24 ends with the month). `FollowsFlow` and `EndsLast`. The bounds are
  exact, the loop is finite. Deadlock is checked, with `Finished` stuttering at the
  end: a step that would read a date nobody set, and throw, would be one. That no step
  reads such a date is also an invariant, `NeverThrows`, proved for all durations.

The final meeting is meant to follow all previous steps (seed: 'after all previus
steps') and follows just one: with an asset to sell it is step 11, and step 18 is
then still open on the day of the meeting. The termination comes after all of
them all the same, which is what `EndsLast` says.

### Calendar, Meetings, DatesProofs

`Calendar` is the abstract promise: meetings that are scheduled, cancelled, moved and
removed in single steps, and a set of those known to be cancelled, which stay so
(`CancelStays`). `Meetings` is the table, with the calendar that it is (`Promise`, the
refinement mapping), the webhook and the `DELETE` route: `scheduled` looks for
the user and the companies and then inserts, `canceled` and `rescheduled` look for the row
and then write to it by id. Any event may come at any time and any number of times, which
is delivery late, twice and out of order. `ImplementsCalendar` is the refinement: the
entry of a url is its row without the id, and the acknowledged ones are the rows whose
cancellation was answered with success.

* **roadmap**, in its other behaviours: `ImplementsCalendar`. What makes it hold is that
  each handler writes one field and not the row it has read; the mutant that writes the
  row back revives a cancelled meeting. *Bounds:* two urls, so that an event can be about
  the other meeting; two row ids, so that a row may be deleted and made again; two dates
  to move between; two requests, as each write is to one row and races with one other.

Remarks without a property. An event of an unknown meeting is acknowledged and dropped, so
a `canceled` that arrives before its `scheduled` leaves the meeting `PENDING`. The
webhook has no `@Public`, and the global guard (`main.ts:70`) demands a token of it that
Calendly does not send: the model is of the handlers once they are called.
`findAll` skips `query.page` rows (`meetings.repository.ts:21-26`), where
`user.repository.ts:132` skips whole pages. `PATCH meetings/:id` changes nothing, as its DTO
has no fields. A meeting in person has no `join_url`; only meetings with one are modelled.

### TaskBoard, TaskBoardProofs

The intake call up to and including `createTasks`, `assignTasks`, `deleteTask`,
`completeTask`, and the task of a hand-over. Dates are in `Roadmap`; here the steps
fall into kinds by the answers they need and the type of their tasks.

* **task_board** (passes): `OneRoadmap`, `RoadmapAsAnswered` and `IntakeIsSaved` without
  overlap of intakes, `AssigneeBelongs` and `TaskKept` in any interleaving.
  *Bounds:* two companies, so that one assignment can span two; a client of one
  of them; four requests, two at a time, and two calls of
  `createMany`, enough to create, delete or complete, create again, and assign
  during either; a request names at most two tasks. The bound on calls stops the
  model, so deadlock is not checked.

### Credentials, CredentialsProofs

The account of one e-mail address (accounts share nothing): `auth.service.ts`,
`user.service.ts` and the two guards that validate a JWT, with the clock that all
their times are read from. A JWT carries the *second* it was signed in, a change
of password is stored in milliseconds, and the guards compare the two; so the
clock ticks in fractions of a second (`Second` ticks each). A `Session` remembers
for the properties when the password it goes back to was given, through however
many refreshes. `EmailService` catches every error, so that the deletion of a
token and 'Email not sent' (`auth.service.ts:45-47`, `129-132`) are never reached
and are no actions.

* **credentials** (passes): two requests at a time, four in all.
  `SessionsEndWithPassword` (no session that goes back to a replaced password is
  accepted, and none opened a second after the change is refused),
  `TokensLimited` (at most `Limit` - 1 more than the requests in flight),
  `TokenUsedOnce` (unless two resets with it overlapped or its deletion failed),
  `NotStranded` (an unverified user has a verification to ask for, unless its
  sign-up failed half-way). Two things the first property leaves out, as
  the code does: a session of the very millisecond of the change counts as one of
  the new password, and a log-in, refresh or sign-up answered while the change is being
  written may still hand out a session of the old one.
  *Bounds:* half-second ticks, an hour of two and a day of four of them, sessions
  of two seconds and a limit of 2 instead of 3: the order of these lengths is the
  code's, so a token expires before it ceases to count, and both happen within
  the run. Clock and calls are bounded, so deadlock is not checked.

### FileStore, FileProofs

Objects in S3 and the rows that speak of them, through the four uploads
(`/files`, `/dochub/upload`, `/dochub/upload/multiple`, the chatbot's) and the
deletions of a file and of a document. The files of one request are uploaded by
branches of a `Promise.all`, which fail each for itself; so each file is a process
(`part[f]`) that its request starts after it has found or made the company's
root folder. A key is made of the millisecond and the name. The foreign keys are
those of the migrations: nearly all of them keep a row from being deleted.

* **file_store** (passes; it also hosts DocumentTools): `RowHasObject` (a row's object is
  there and is the one uploaded for it, except for a file whose deletion got as far as S3, and for two
  of one name in one millisecond), `SuccessMeansStored` and `ChatFileIsReady`.
  *Bounds:* two files, since objects and rows of three meet only in pairs (by key,
  or as the thread's file); two names and two milliseconds, so that keys may
  agree in either, both or none; two root folders, so that two uploads can both
  make one. Uploads and clock are bounded, so deadlock is not checked.

### DocumentTools, FileProofs

The four tools by which the model lists, selects, reads and searches documents, over the
rows that `processDocument` writes: first the `UserDocument`, then the chunks in batches,
through another pool of connections. A tool call is one or more queries; `similaritySearch`
opens a vector store of its own, and ends it whatever happens. A chunk is its document
and its number, and the limit of a search is on the number of chunks (`Cardinality`).

* **file_store**, in its other behaviours: `FoundIfProcessed` (what was reported as
  processed before the call is found, as far as the limit goes, also while other
  documents are stored, fail or are deleted) and `NamedIfKept` (chunks that are shown are
  from an 'Unknown document' only if it has been deleted). *Bounds:* two documents, of up
  to two batches each, so that one may be half stored; one call at a time, as the tools
  write nothing.

Remarks: the chunks of a deleted document stay and are still found, which contradicts
nothing the code says; `findDocumentByName`, `checkDocumentsVectorization` and
`DocumentRetrievalTool` have no caller. All documents here are one user's: the tools are
made for the user of the prompt, except that `file_selector` takes the `userId` from the
arguments the model writes (`file-selector.tool.ts:16`), on which no property depends.

### Metrics, DatesProofs

`getRange`: the two periods between whose ends rows are counted. A day is a
month and a date, and the machine is the calendar, day after day. `setDate` and
`setMonth` are modelled by what they do: count from the first of the month, or the
year, that the `Date` is in and carry over. All the `Date`s of `getRange` start as
now, but are set to day numbers taken from each other.

* **metrics_weeks** (violated, a finding): `GivenPeriod`. In a week that began in
  the month before, the range of the current week ends a month late.
  *Bounds:* none; the run stops at the first such day. What holds on which days is
  proved, for all of them (see below); there is no passing run, as the calendar has
  nothing to interleave.

## Fairness

Fairness is assumed only of the server and of Postgres, S3 and Node answering it:
each awaited call is answered or rejects, `WF(Answer(r))` for each slot. Nothing
is assumed of clients, who may never send another request, nor of the language
model, which may be silent for ever. In `ChatPrompt` the fairness is strong and
of `Reply(r) \/ Timeout(r)`: while another request has the `turn` these are
disabled, and the event loop returns to every callback that is ready, as each
turn is finite. The other modules
and the refuting runs have only safety and no fairness: `Roadmap`'s loop awaits
nothing, so a loop that stops is a deadlock.

## What is proved

All proofs are for any number of folders, people, companies, threads, meetings, files
and requests, from the named assumptions of the modules only, and premises that a
theorem states itself. The assumptions type the constants (`OwnerType`, `MaxSentType`,
`MaxChunksType`, `TimeType`, `AccessConstants`...), keep `None` apart from the ids, the
numbers and the rows (`NoneIsNoId`, `NoneIsNoUser`, `NoneIsNoRow`, `NoneIsNoNumber`, `SpecialKeys`), and
say that the requests in flight, and the documents, are finitely many where they are
counted (`SlotsAreFinite`, `FilesAreFinite`). TLC evaluates each of them in the runs. The bounds on uploads, calls
and the clock are constants too, and the theorems hold for every value of them.

Every safety property of a passing run is stated by a theorem; what is left to TLC is
liveness and the absence of deadlock (see below).

The proofs share a pattern. A handler acts on what it read some awaits ago, so the
property alone is never inductive: the invariant says for each *label* what a request
waiting there still knows of the rows (`Reached`, `Knows`, `Progress`, `Consistent`,
`PartKnows`, `WalkCovers`). For each action there is a lemma that the request that moves
earns the claim of its next label, and that the claims of the others survive its write.
Where the property excuses overlapping requests, those claims are made only of companies
(or threads) outside `overlapped`, and `Sole` says that of such a one at most one
request is in flight, so there is no other to survive.

Where a run hosts two modules the module of proofs extends the MC module, so that it
proves the very definitions the run checks, and a lemma (`EachRuns`, `RunsAreSteps`)
shows that the specification of the run implies that of each of them.

**FolderTreeProofs.** `TypeCorrect` (no further premise). `FoldersFormAForest` and
`TreeImplementsHierarchy` under `OneMover`: at most one `moveFolder` is in flight; run
folder_race shows that the premise is needed. `Forest` is not inductive: the write of a
move comes several awaits after its check. The strengthening is `WalkCovers`: the
folders read so far together with the one read next contain the parents of all folders
read. Creations add leaves and deletions cut parents off, so neither can open the set;
another move could, hence the premise. When the walk is over the set is closed, holds
the destination and not the moved folder, and `MoveKeepsForest` applies. A forest is
defined without recursion: every non-empty set of folders has a member whose parent is
outside. `MovesReadOnce`, under the same premise: the walk of a move never reads a
folder twice, so it makes at most as many hops as there are folders, which is the
safety half of `Answered`. That the next folder is unread says nothing of the one after
it; the invariant `Ahead` is that some closed set with the next folder in it is unread,
and the lemma `AboveTheParent` cuts the folder just read off that set.

**ChatProofs**, of ChatLawyer: `ThreadsAreNotAbandoned`, `AssigneeIsSole`,
`LossesAreHandovers` (and `TypeCorrect`). The property speaks of threads at rest; while
requests are in flight the invariant says who is still going to write what is missing: a
thread with a row is a lawyer's chat or has a request that will mark it (`Marked`), a
lawyer's chat has a row or a request that will make one (`Joined`), and who has lost a
row lost it to a request that is about to assign, or to a lawyer who was notified and
has, or will have, the task (`RowOrHandover`). When nothing is in flight only the first
alternatives are left. `FiniteSetsExt`'s sum of the loads is never expanded: which
lawyer is chosen does not matter. `ImplementsPromise` is the refinement of `Handover`:
the invariant makes the handlers of a turned thread non-empty before and after each step
(`SomebodyAnswers`), and a step is local to the thread of its request and brings at most
the staff user of that request (`OneComes`), so it is a `Turn`, a `Take`, a `Fail` or
nothing (`StepIsHandover`). `HandsAreNeverEmpty` is `InHands` of the rows.

**ChatProofs**, of ChatPrompt: `AgentsAreOwn`, `EndingsAreLast`, `BotStaysOut` (and
`PromptsAreTyped`), for any number of users, threads, requests and events of a response.
The invariant `PInv` has three ideas. *The shared agent*: a request at `opened` has the
`turn`, and `agent` is its user's; hence at most one request is there, no step of
another comes between the assignment of `this.agent` and its use, and what is cached
under a key is that user's or nothing. *The response* (`Answered`): `ended` says exactly
that the last event is an ending, and all events before it are none; what is appended
goes through `IsOpen`, so the lemma `OneMore` on appending one event is all that the
timer, a failure and a late answer need. *The hand-over* (`Knows`): what a prompt has
read of its thread was true and, as no thread is handed back, stays so (`ByLawyer`); one
that arrived after the hand-over has read it by the time it has a title.

**ChatProofs**, of the two together: `ComposedIsBoth`. In `JointSpec` requests for a
lawyer and prompts run at the same time on the same `chatType`, and it implies the
specification of each: a step of a prompt turns no thread, and a step of a hand-over
turns at most one (`LawyerTurnsOneThread`), which is what the environment of `ChatPrompt`
may do. So every safety theorem about either holds of the composition, and
`MessagesReachALawyer` follows, which neither can say alone: when a prompt is about to
store a message for the lawyers, a lawyer can write in the thread, if no call of the
staff's requests on it has rejected and none is in flight.

**ThreadProofs.** Of ThreadList, for any number of users: `ThreadsShownOnce` (and
`TypeCorrect`). Nothing is ever deleted or given to another user (`Growing`), so what a
list has read is still there; and the relations that the categories of its user had when
it came (`Own0`) it has read or is going to read (`Consistent`). As the rows of the
categories are read before what is in no category, a thread cannot be in both; and one
that is in neither has a relation that is another user's, or was made since. Of ChatAccess: `ServicesAreBacked`,
`RequestsAreKept`, an action property, and `AccessTypeCorrect`. Companies only gain
services, fees and `ChatCompany` rows (`Grows`), which makes what a request has looked
for stale in one direction only: what it found is still there (and the status of a
lawyer's request still stands for one), and what it did not find another may have made,
in which case its `create` is rejected by the unique key. So what a change of type has
done by each label stays done, and what it reports (`Backed`) is what the attempts
before it and it itself have written.

**OnboardingProofs.** `SetupIsInOrder`, `LocationsAreAsAsked`, `SetupStaysFinal` (and
`TypeCorrect`). `SetupInOrder` needs no exclusion of overlap: payment and setup are
never unset by any write, so a step 3 that has passed a write still relies on it
rightly. That the root folder of the payment is a second one is counted
(`Cardinality(roots[c]) > 1`). A request about to register a user has that of its
company, which keeps its owner and has completed its setup (`Reached`), so a registered
user has such a company (`SetUpFor`), whatever others the user owns. `LocationsAsAsked` needs that what the synchronisation of
a table compared with is what is in it; `SetupIsFinal` that no request which passed its
check before the setup was completed is still under way, which is true of a company
without overlap only. `NoneIsNoRow` assumes that NULL is not a company.

**DatesProofs**, of Roadmap: `RoadmapFollowsFlow`, for *all* durations of the steps (and
`RoadmapTypeCorrect`). The code links each step to one other, the flow demands several
dependencies; the invariant `Linked` (each planned step's link is planned, and it starts
the day after that is due) with `NotBackwards` makes the chains of links cover all
dependencies (`ChainsCoverDependencies`). The extension of open-ended steps breaks
`Linked`, after which `FollowsFlow` maintains itself. `SeededFlowEndsLast` has the
premise `Duration = SeedDuration`, the durations of `dissolution.seed.ts`, without which
it is false. Its invariant `Lasts` says that until the open-ended steps are extended a
planned step takes exactly its duration (step 24, to the end of the month, at most 30
days), the archive is closed the day before step 8 is due, and the final meeting follows
step 11 or 18; with `Linked` the dates compared are then sums of known numbers.

**DatesProofs**, of Meetings: `MeetingsImplementCalendar`, `CancellationsStay` (and
`MeetingsTypeCorrect`), from `NoneApart`: NULL is neither a row nor an entry of the
calendar. The mapping needs that the row of a url is one (`joinUrl` is unique) and that
an id is not given twice, so that a request which found a row writes to that row or to
none. `CancelStays` is proved of the abstract calendar and carried over by the
refinement.

**DatesProofs**, of Metrics: from `DatesAreReal`, the invariant of the calendar, and the
lengths of the months (28 to 31 days): `RightExactlyWithinMonth` says on exactly which
days each period is right, `NothingLastWeek` that on the others last week counts nothing
at all, and `NeverThePreviousMonth` that the changes shown for last_month never compare
it with the month before, since `endPrev` is the last day of the month before
`startPrev`. Each reduces the dates to the two cases of `Day`, today's month and the one
before. Leap years are every fourth, so the year 2100 is out.

**TaskBoardProofs.** `AssignmentsBelong` and `TasksAreKept` (and `TypeCorrect`). The
look-ups of `assignTasks` are stale when it writes by id. The invariant `Known` says
what a waiting assignment still knows of those of its tasks that exist: their type, and
for the companies not yet checked that they are still to be checked. It survives other
requests because no write changes a task's type or company (`Keep`), which in turn needs
`Known` for the assignment that writes; and because an id is never made again (`Made`).
`RoadmapIsOne`, `RoadmapIsAsAnswered` and `IntakesAreSaved` rest on a second invariant,
`JInv`, on top of the first. `Progress` says what an intake has saved by each label,
that a planner past its look for tasks is of a company without a roadmap, and that the
answers it has read are those stored.

**CredentialsProofs.** `AccountsCanBeVerified`, `TokensChangeOnce`, `ResetsAreLimited`,
`ChangesEndSessions` (and `TypeCorrect`), for any scale of the clock, limit and number
of requests. The invariant has a part for each thing that is awaited and then relied on.
`UserKnown`: before there is a user there is nothing else, and a request that deletes
the verification has verified the user. `TokensUsed`: a token that is not excused is
with one request, and once used it is deleted or about to be. `Room`: the recent tokens
and the requests that were counted under the limit and are going to create one are
together fewer than the limit and the slots; so it does not matter how long a count is
waited for. `SessionsKnown`: unless two changes of password crossed, or the session was
made during one, *no change lies between the password a session goes back to and the
session itself*, and none in flight will land there (`SessionKnown`); a refresh passes
on the first of the two instants and cannot jump over a change, since it was let in by
the guards and reads the user again. The rounding of the signature to its second enters
as `SecondOf` only.

**FileProofs**, of FileStore: `RowsHaveObjects`, `SuccessIsStored`, `ChatFilesAreReady`
(and `TypeCorrect`). `PartKnows` says what the upload of a file has left behind by each
label (its key, its object, its row), and what a failure leaves to be found. An object
is overwritten only by one of the same key, that is of the same name and millisecond,
which the property excuses; a row is deleted only by a deletion, which the foreign keys
stop while anything refers to it (`LinkedHasRow`). Of DocumentTools: `KeptAreNamed`,
`ProcessedAreFound` (`FoundIfProcessed`). Documents are stored before their chunks and only
deleted softly, so what a tool reads second is older than what it read first, or stays. A
search answers with as many of the stored chunks as the limit admits; the chunks known to
be processed before the call are among those it counts (`MoreChunks`), and a larger finite
set has the larger cardinality, so that it cannot answer with fewer (`Enough`).

### Only model-checked

* liveness (`Answered`, `RequestServed`, `StreamEnds`): outside the prover. Of `Answered`
  the walk of a move is half proved (`MovesReadOnce`);
* that no run deadlocks, hence `ENABLED`. For the loop of `Roadmap`, where this is what a
  `TypeError` would look like, `RoadmapNeverThrows` proves the condition that its steps
  are guarded by, for all durations, answers and months: what a step reads is planned
  unless the step is left out itself;
* `JointSpec` as a whole is not a run: its states multiply. Its parts are.

## Findings

Three disagreements of the code with what it says of itself, each with the run
that shows it, are in `PROJECT.json`: concurrent moves close a cycle of folders;
registration step 3 erases the structure of step 2; the metrics of a week that spans
two months are of another period.

## Plan

1. *Done:* FolderHierarchy, FolderTree; ChatLawyer, ChatPrompt; ChatAccess, ThreadList;
   Onboarding; Roadmap, Calendar, Meetings, Metrics; TaskBoard; Credentials; FileStore,
   DocumentTools; and the proofs of all of them.
2. *Done:* the abstract `Handover`, which `ChatLawyer` implements, and the composition of
   `ChatPrompt` and `ChatLawyer` over one `chatType`; `FoundIfProcessed` as a whole.
3. Open: the lists of companies and their filters; a rule for the files of folders that lose
   their parent, once the team states one.

## Not modelled, and why

* staff accounts: sign-up and log-in as the users', without tokens;
* renaming a file, and deleting or replacing a company's root folder while files
  are uploaded: no rule relates them to anything else (see `FileStore`);
* names of categories, the files of a thread, checkpoints: single reads and writes; the
  route that would update a checkpoint has no `checkpointId` in its path and always
  answers 400;
* folders that lose their parent: `FolderHierarchy!Remove` says that they become roots, and
  the refinement holds the code to it; nothing in the repository says whether their files
  should still be listed, so there is no property about it;
* rates and cost savings of the metrics: arithmetic on one reply; other lists,
  pagination, dissolution map: read only;
* reassignment of companies, notifications, industries, staff: single writes of rows
  no rule relates;
* e-mails, the SSE emitter, S3 transfer, text extraction, embeddings, the language
  model: external; where the code waits for them they are environment actions.
  `sendPasswordResetEmail` swallows its errors (`email.service.ts:66`), so the branch
  'Email not sent' of its callers is never reached;
* validation of payloads, DTOs, wording, seeds other than the flow.
