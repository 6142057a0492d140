# Railway bridge defect priorities: verification

TLA+ models of the backend in `src/backend` and of the page and session of its
frontend in `src/frontend`, TLC runs on small instances of them and TLAPS proofs
about them for every instance. Paths below are relative to
`src/`, and `internal/` stands for `backend/internal/`.

## The system

An HTTP service (Go, Gin, GORM) keeps four tables of records about railway
bridges and an audit log, in PostgreSQL, MySQL or SQLite. A Vue single page
application is its client. Redis holds the counters of the rate limiter.

| Part | State it keeps | Operations | Talks to |
|---|---|---|---|
| status graphs, `constants/status.go` | none | `CanTransition` over four graphs | services |
| roles and guards, `middleware/auth.go` | none: role and user come from the token | `Authenticate`, `RequireRoles`, `RequireMinimumRole` | handlers |
| handlers, `handler/*.go` | locals of one goroutine per request | list, get, create, update, transition, remove | services |
| priority decisions, `service/`, `repository/priority_decision.go` | `priority_decisions`, `priority_decision_revisions` | Create, Update, Transition, Delete | audit log |
| bridge assets, inspection rounds, defect findings, `service/*.go` | one table each | Create, Update, Transition, Delete | generic store, audit log |
| generic store, `repository/base.go` | any of the tables | Get, List, Create, conditional Update, soft Delete, CountByStatus | database |
| audit log, `service/security.go`, `repository/security.go` | `audit_logs` | Audit, listings and summaries | database |
| login and sessions, the same files | `users`; signed tokens at the clients | Login, Session | database |
| rate limiter, `middleware/ratelimit.go` | counters in redis, a map under a mutex | one increment per request | redis |
| startup, `database/database.go` | none | Open: connect, migrate, Seed, redis | database, redis |
| server, `cmd/server/main.go` | the process | serve, shut down | all |
| overview, health, paging, `handler/system.go` | none | reads over several statements | services |
| frontend stores and pages, `frontend/src/stores/factory.ts`, `components/EntityPage.vue` | the page's items, `loading`, `error`; the dialog | load, createRecord, transition; buttons, confirm | API |
| frontend session, `frontend/src/hooks/useAuth.ts`, `api/client.ts` | a token in localStorage, a session per tab | login, logout, request | API, other tabs |
| configuration, logging, deployment | none | | |

A mutating request goes through the route guard, a read of the row, the checks
on what was read, a write (one statement, or one transaction with the revision),
an audit statement of its own and, mostly, a last read for the answer. Every request
is a goroutine, none holds a lock, and the only things that order them are the
condition `WHERE id = ? AND version = ?` of an update and the unique indexes. The
version of the condition is the one **the client sent**; the checks were made on a
row read before. Everything hard about this program follows from that:

- a check and the write it permits are two steps, with other requests between;
- the audit entry is a third step, which can fail or never happen;
- a commit can be durable and its acknowledgement lost;
- the process can die, or be stopped, between any two of them.

What makes each part correct:

- priority decisions: revisions are numbered without gaps and agree with the row;
  a level is given once, by an independent reviewer or administrator, on the
  evidence shown; a final decision does not change; answers and audit entries are
  true; every request is answered;
- the other three aggregates: every request takes effect in one step on the record as
  it is at that moment, along the status graph; the audit trail explains the status;
- startup: a restart completes what is missing and repeats nothing, nobody is served
  before, and whoever starts comes to serve;
- rate limiter: no more than the limit per key and minute from redis, nor from any
  process that counts for itself, and nobody refused before that;
- sessions: a change takes effect with the authority its user has, or had until a
  token's lifetime, and the time its login took, before the request;
- frontend: a confirmed move is made as the dialog showed it or not at all, and once; the
  buttons are those the server would accept; the page neither spins for ever nor ends
  a move before it shows what became of it. (That it shows the answer to the last question asked
  is *not* true: see the observations.);
- reads: the parts of an answer that are read at several moments still agree as far as
  their order allows.

## Modules

| Module | Models | Notes |
|---|---|---|
| `StatusGraphs` | `constants/status.go`, initial statuses | graphs as functions from a status to the set of its targets |
| `Roles` | ranks and guards of `middleware/auth.go` | |
| `Store` | one row under `repository/base.go` | absent, live or deleted; a deleted row still occupies its code |
| `Handlers` | the life of a mutating request | `pc`, `call`, `current`, `reply` per request; failures and crashes |
| `PriorityDecisions` | decisions, their revisions and audit entries | extends `Handlers` |
| `DecisionLedger` | what decisions promise | abstract: a growing chain of entries per decision |
| `DomainRecords` | the three other aggregates | extends `Handlers`; `kind` picks the aggregate initially |
| `AtomicRecords` | what their optimistic lock promises | abstract: insert, edit, move, remove in one step each |
| `Startup` | `database/database.go`, `cmd/server/main.go` | instances over shared tables; requests change the tables meanwhile |
| `RateLimiter` | `middleware/ratelimit.go` | requests against redis' counters and the maps of the processes |
| `Sessions` | login in `service/security.go`, `middleware/auth.go`, `hooks/useAuth.ts` | tokens, accounts, the clock; two copies of a login in the browser |
| `Workbench` | `stores/factory.ts`, `EntityPage.vue`, `utils/format.ts` | extends `Sessions` and `StatusGraphs`; one tab, one record, everybody else |
| `Reads` | `repository/base.go`, `priority_decision.go`, `security.go`: List, Get, ListAudits, SummarizeAudits | one reader, statement by statement, over a table others write |
| `MC*` | instances for TLC | users, tables, symmetry, order of arrival, bounds |
| `*Proofs` | theorems | one module per specification and one per refinement |

How state and actions correspond to the code:

- `row` and `revisions` are the tables, indexed by the code of a record, which stands for
  its id: codes are unique, also over deleted rows, so a code never gets a second
  id. `revisions[d]` is a function from version numbers to revisions because the
  table's unique index is (decision, version). `audits` holds the audit entries of
  the entity type, as a set: nothing is claimed of their order.
- The business fields of a record are one value, one of `Inputs`; `BlankIn` says which of the
  fields that the binding requires (`RequiredFields`) are blanks only, so that `TrimSpace` empties them.
  The service's validators look at all of them but `Category` (`ValidatedFields`): what it stores is an
  input without a blank in those, `Evidence` (decisions) or `Fields` (the others), and its category may be empty.
  `Blank` is the value of a row that is not there. Formats, lengths and the snapshot's JSON are left out.
- `pc[r]` is where the handler of request `r` stands: `write` (checked, about to
  write), `audit` (committed), `reread`, `done`. `call[r]` is the user and input,
  `current[r]` the variable `current` of the service methods, `reply[r]` the class
  of HTTP answer. An answered handler forgets its locals, as its goroutine does.
- `Create`, `Update`, `Transition`, `Delete` are the service methods from the route guard to
  the last check: they read once and write nothing, so they are one step. The
  verdict operators list the early returns in the order of the code.
- `CreateWithRevision`, `UpdateWithRevision`, `SoftDelete` (`InsertRow`,
  `UpdateRow`, `DeleteRow`) are the statement or transaction that commits;
  `WriteRefused` is its other outcome: no row matched, or a unique index was hit, and
  the transaction is rolled back. `Item` is what the service stores: the row it
  read, with the request's fields over it, at the client's version plus one.
- `AppendAudit`, `AuditFails` and `Reread` are the rest of the method. Create and
  Update drop the audit's error (`_ = s.security.Audit`), Transition and Delete return it.
- `Committed(r, next, acked)` with `acked = FALSE` is a commit whose
  acknowledgement is lost; `StatementFails` a read or write that fails, or a
  client that hangs up, which cancels the request's context; `ProcessDies` a crash,
  or an exit after the shutdown's grace period. Tables survive it. A restart adds
  nothing to them unless a table is empty (`Startup`).
- In `Startup` a table is a function from codes to what became of the row with that
  code. `pc[i]` is where `Open` stands in instance `i` (`count` and `insert` are the two
  statements of seeding a table, `step[i]` says which table), and an exit leads to `down`, from where the
  container is started again. `InsertSeeds` inserts all rows of a table or none: one
  statement for users, bridges, inspections and defects, one transaction for decisions.
  The requests of serving instances are there with the effect on a table that the other modules allow them:
  create, change, delete; a final decision is never deleted after its seeding (`Kept`),
  users never change.
- In `RateLimiter` a request reads the minute for its redis key (`Arrive`), is counted by redis
  (`CountInRedis`) or not (`RedisFails`, which may have counted it all the same), and in the
  second case counted by its process (`CountLocally`, one step because it holds the mutex, with a
  reading of the clock of its own). `Expire` and `Tick` are redis' expiry and the clock. A
  call to redis is assumed to end within the minute after the one it read, which the
  client's timeouts of a few seconds give; without it a key could expire under the call.
  Redis is assumed to keep a count it has answered.

- In `Workbench` a click that reaches the server is a task, and `task[t]` says how far its asynchronous
  function is: `posted` (the request is under way), `answered` (so is the answer), `listing` and
  `listed` (the same for the reload), `lost` (the browser gave up, the server may still get the
  request), `done`. What runs between two awaits is one step: `Start` (up to the first),
  `Accepted` (from the POST's answer to the reload's request), `ListArrives`, `Refused`, `NetworkFails`
  (with the `catch` and `finally` blocks). Tasks share `items`, `loading` and `error`, as the store's
  functions do. `pending` is the dialog: the item *as it was* when the button was clicked. `row` is
  the record in the database, which the server's step `Move` changes when `MoveVerdict` says so, and
  `OthersWrite` changes as other clients may. A transition is one step of the server here, which is what
  `ImplementsLedger` and `ImplementsAtomicRecords` prove of it for clients that echo; `EchoesShown`
  is the other half of that bargain, proved of the page.
- In `Sessions` `stored` is the token in localStorage, which every request of every tab sends, and
  `session` the variable of this tab, which its buttons follow. `Elsewhere` is another tab's login or
  logout. `ChangeAccount` demotes or deactivates a user; no route does that, so it is external.
  The server reads a user, then compares the password, which takes its time, and then takes the time of the token
  (`service/security.go:35-42`): a token has the time of both, `read` and `issued`, and may give the role of an account
  that changed between them. `Signed` is therefore the set of tokens the server may hand out by now.
- A token is checked when a request arrives and the write comes statements later. In `Workbench` both are one step
  of the server, taken at any time from `sent` on, with the token checked at some time in between
  (`ArrivalTimes`). `SignOut` ends the session while the route is still that of the page, so for a moment the page is mounted again and
  loads without a token (`App.vue:15-20`, `EntityPage.vue:21`); what was under way goes on for nobody (`mounted`).
- In `Reads` `Plan` is the order of the statements of an answer and `Query` runs the next one
  on the table as it is then. `Insert`, `Write` and `Delete` are the writers, with a time taken before
  the write, so rows may come in below others, and a row may sink: a writer whose predicted version comes true
  took its time before the row it replaces was written. `size` is what the server applies and `asked` what the client asked for and
  counts pages by (`hooks/usePagination.ts:2`); they differ over 100. `TurnPage` is the client asking for the next page, as `hooks/usePagination.ts` counts
  pages. `unchanged`, `slipped` and `entered` are an account of what happened meanwhile, which only
  the property reads.

The transaction is one atomic step: the isolation of the databases supported makes
the conditional `UPDATE` take the row's lock and evaluate its condition on
the committed row, and the revision's insert is undone with it.

## Runs

| Run | Instance | What it shows |
|---|---|---|
| `decisions_echo` | 3 requests, echoing clients | a write only lands on the row that was checked, levels rest on the draft's evidence, final content is frozen, the handlers implement `DecisionLedger` |
| `decisions_any` | 3 requests, any version, four roles; 2 of them with failures | ledger numbering, separation of duty, honest answers, true audit entries, append-only revisions, whatever versions clients send |
| `decisions_live` | 2 requests, fair, no failures | every started handler answers, every committed revision is audited |
| `decisions_predicted` | 2 requests, any version | **violated**: `FinalContentFrozen` |
| `decisions_deleted` | 2 requests, echoing clients | **violated**: `FinalNeverWithdrawn` |
| `decisions_unaudited` | 2 requests, failures | **violated**: `ReviewsAreAudited` |
| `records_echo` | 3 requests for bridges, 2 with failures for each of the three kinds | the handlers implement `AtomicRecords`, the audit trail walks to the row's status |
| `startup_faults` | 2 instances, 3 tables, failures | seeding is all or nothing, nobody is served incomplete tables, restarts take no work back |
| `startup_live` | 2 instances, fair, no failures | who starts comes to serve, unless all rows of a table were deleted |
| `limiter_failover` | 3 requests, 3 keys, 2 processes, 3 minutes, failing redis | each backend holds the limit, refusals are due, the map keeps few entries older than its newest |
| `workbench` | 2 clicks and a logout, 3 users, each of the four kinds, failing network | moves are made as shown, once, with recent authority, and end on news; buttons match the routes; the spinner stops |
| `reads` | 3 to 4 rows, 1 to 3 writes, pages of 1 and 2, one size over the maximum | pages miss only what slipped, revisions reach the version shown, summaries add up |

**Echoing clients.** The frontend sends the `version` of the item it last
loaded, so a client never names a version that no read has shown. `EchoClients = TRUE`
says exactly that: a request names a version no later than the one the row has when it is
sent. Properties that need it say so, in the run and in the theorem; the server does
not enforce it, and `decisions_predicted` shows what happens without it.

**Bounds.** One record is enough: no handler touches two and the properties
quantify over records one by one. Two requests show every race of a check with a
write; the third shows a race with the history the first has left, such as an edit
between a review's read and its write after an earlier edit. Initial states include
absent, draft and reviewed rows (every status the seeds use), so no request is spent on setting
the scene. Two values of evidence tell "kept" from "replaced". Versions 1 to
3 (`decisions_echo`) contain the version of every row three requests can reach before the last of them; 1 and 2,
where the versions are any or only equality matters, have one that is right and one that is stale or
early for a row that is fresh or was changed once. One level (`observe`) and one illegal target
(`draft`) stand for the three levels, which the code treats alike. Records' transitions may name
every status of all three graphs. Users are the seeded ones; where only the
guards look at the user (`DomainRecords`), one who passes them all and one who
passes none.

For `Startup`: two instances give every race of two starts, and each may die and start again
without bound. Of the five tables the users (no route changes them), bridges (standing for inspections
and defects, which are seeded by the same code) and decisions (some rows are never deleted) differ;
two seed rows tell a part from the whole, one more code (in `startup_faults`) is what requests create. Two
attempts to connect stand for twenty. For `RateLimiter`: a limit of 1 and three requests
go past it by two or leave room for other keys; with three keys and a threshold of 2 instead of 512 the
map is both left alone and cleaned, with entries of this minute and of earlier ones; three minutes are as long as it takes a key to expire. Two processes share
the counters of redis and no map; the theorems are for any number.

For `Workbench`: two clicks are a second confirmation, a confirmation against a reload, or a retry after an
error; versions up to 3 let others move the record away and back (bridges) or take an edit and a deletion in between.
A token lives for one tick of the clock and there is one tick, so that a login whose reading and signing it divides gives an authority for
longer than that. The bounds of `MCWorkbench` spend what remains where it matters: sessions change on
the decisions' page only, where most depends on who is who, which others edit once; one account changes; a logout and a second click come only while the session is
undisturbed, and the second click after the logout. For `Reads`: three rows (two decisions) and pages of one or two, asked for or applied for a size of three that is too large, give two or
three pages and a row on either side of each boundary; up to two writes while they are read give every pair of a
deletion, a row leaving the search, a new one or one that rises or sinks, at every point between two statements. Two times make
ties. Summaries start from an empty log and three entries are written while they are made.

**Reductions.** Evidence and fields are compared for equality only, so permuting them
is a symmetry. Requests differ by name only, so letting them *arrive* in the order of
their numbers (`ArrivalOrder`) loses no behaviour up to renaming; their later steps
interleave freely. Which of them is refused or fails on arrival makes no difference to the others, so only
the last may be (`LastHasArrived`). Runs with failures explore them with one request fewer (`FewerWhenFailing`), and the
third request with echoing clients for bridges only (`BridgesOnly`), as the three services differ in their graphs alone.

**Deadlock** is checked for `Startup`, which never stops. Elsewhere it is not: each request arrives once, so the system comes to rest when
all are answered, and clients may send nothing at all. `EveryRequestAnswered`
says what deadlock freedom would: no started handler is stuck.

**Fairness.** Weak fairness of each started handler's next step: the Go scheduler runs
every goroutine and a statement returns, with a result or an error, within the
server's timeouts. Handlers wait for nobody, so weak fairness is enough. Nothing is
assumed of clients or of failures. For `Startup`: weak fairness of each instance's start
(`restart: unless-stopped` in `docker-compose.yml`) and of its next step in `Open`, which is sequential code.

## Proofs

All are invariance or refinement proofs over `Spec` for any users, roles, requests,
versions, evidence and records, of any number, with failures on or off.
Assumptions on constants are the named `ASSUME`s of the modules: roles are among the four, the
blank value is not an input, versions are positive (`binding:"required"` on an
unsigned integer refuses 0), the seeded preparer is not the seeded reviewer, who has
the role of one; for the reads, the default page size is positive and no larger than the maximum, and
somebody and some kind of entity is there to be logged. Each theorem states a property that a run
checks on an instance, except `RecordsOnlyRise`.

- `PriorityDecisionsProofs`. The inductive invariant is `TableTypes`, `LocalTypes`,
  `HandlersChecked`, `LedgerMatchesRow` and `IndependentReview` together. None is inductive alone: what a
  write adds to the ledger is legal because of what the handler checked steps earlier, so
  `HandlersChecked` carries the checks to the write; a checked preparer is still the
  preparer at the write because updates omit the column and rows keep their code; a new
  revision is `version + 1` because the ledger had exactly the versions up to the row's.
  A second invariant, `TraceInv`, says what a request has left behind at each step of its handler:
  nothing before its write; then the revision its entry will speak of (`Recorded`), but no entry; then the
  entry too, which only a create or an update may lack. An answer is honest because of the step it is given at. Any
  number of deletions of a decision may race to the write; `Removals` keeps that the one that deleted the
  row is the only one to have done so and no entry says so yet, hence the trail gets one deletion at most.
  Theorems: `TypeCorrect`, `ChecksPersist`, `LedgerIntegrity`, `SeparationOfDuty`, `RevisionsKept`,
  `HonestAnswers`, `TrueAudits`. They hold whatever versions clients send.
- `DecisionLedgerProofs`, assuming echoing clients. The invariant adds `Shown`
  (a handler about to write names a version no later than the one it read; and if the
  row still has the version it read, it is the row it read) and `ReviewedEvidence`.
  Versions only rise, hence a conditional update that matches finds the
  checked row (`NoStaleWrite`). (For decisions the unique index on revisions would refuse a stale write
  even without the version condition, as an error instead of a conflict; the other aggregates have the
  condition alone.) From that: `LevelsRestOnDraft`,
  `FinalDecisionsFrozen` and `ImplementsLedger`, which maps the revisions of a decision,
  a function on `1 .. version`, to a sequence, and each action to one ledger step or none.
- `DomainRecordsProofs` and `AtomicRecordsProofs` do the same for the other
  aggregates: `TypeCorrect`, `ChecksPersist`, `RecordsOnlyRise` (whatever versions clients send, a version of a
  row stands for one content, versions never fall and no row is lost), and under echoing clients
  `ImplementsAtomicRecords`.
- `TrailIsComplete`, in `AtomicRecordsProofs`, is about the audit log of those aggregates, again under echoing
  clients. The log alone is not in step with the rows: a handler writes its row first and its entry later, others
  in between. `TrailInv` therefore keeps account of the entries written *and* those handlers at `audit` still owe
  (`Trail`): while no request has failed, `Trail` is finite and, for each record, its entries are
  a walk to the row's status, in the sense that every status is entered and left equally often but for the ends.
  A write adds an entry that leaves from the row's status, as the update found the row its handler had read
  (`WalkGoesOn`, from `AcceptedAsRead`: without echoing clients this step fails);
  writing an entry that was owed changes nothing; the
  entry of an edit that is dropped entered and left the same status (`EditForgotten`); without the entry of a
  creation the walk starts where that one led (`CreationForgotten`, a matter of arithmetic: no other entry
  enters "nothing"). Entries carry their request, so no two of them coincide in the set. An error or a crash ends the promise
  for good, since answers are never taken back (`Unanswered`).

- `StartupProofs`, for any instances, tables and codes. The inductive invariant adds to
  `SeedsArriveTogether` that the tables behind an instance's cursor have their seeds, all of them from
  `redis` on: the one that counted rows knows that somebody's seeds were there, and no
  step of anybody makes a table incomplete again. Theorems: `TypeCorrect`,
  `SeedingIsAtomic`, `CompleteBeforeServing`, `RestartsKeepWork`.
- `RateLimiterProofs`, for any limit, threshold, keys, processes and finite set of requests. The
  invariant bounds, for each key and minute, what a backend admitted by its counter and
  by the limit, as long as anybody may still be counted in that minute: in redis until a request that read the
  minute can no longer be under way, in a process until its clock has moved on. Then the counter may be
  forgotten, by expiry, by cleaning or by a new bucket. For the other direction (nobody is refused early) `DueInv`
  bounds a counter from above: redis counted no more than the requests that asked it in that minute, and a bucket
  counts up to the limit only what its process let through. Theorems: `TypeCorrect`,
  `LimitKept`, `MapForgets`, `RefusedWhenUsedUp`.

- `WorkbenchProofs`, for any users and accounts, lifetime of a token, number of clicks and
  versions others write, assuming that each user starts with one of the four roles. The invariant
  bounds every copy of the record, in the list, in a dialog, in a request or in an answer, by
  the record itself: a copy is no newer, and it is the record if it is of its version. Hence a conditional
  update that matches finds what the user saw, and late answers do no harm. The
  version a move left behind stays behind the record's, so no second click moves from it. A token says what
  its account says unless the account changed after the server read it for that token; the clock then bounds how
  old its authority can be: a lifetime from its signing, hence a lifetime and the time of a login from the reading, when the request arrives. The page's own table of moves is proved equal to the server's
  graphs, status by status. A move that was made ends with a list asked for after it, or with an error (`MovesEndOnNews`). Theorems: `TypeCorrect`, `VersionsWereShown` (which justifies the
  assumption of echoing clients above), `ConfirmedOnce`, `ConfirmedAsShown`, `SpinnerIsDue`,
  `ButtonsAreRoutes`, `AuthorityStaysRecent`, `MovesEndOnNews`.

- `ReadsProofs`, for any number of rows, times, versions and page sizes. `Typed` says what each statement has
  answered so far. `Revised`: every version of a row has its revision, revisions are never removed, and the
  statement that reads them is the last (`ShownWithItsRevision`). `Summed`: a log only grows,
  so a number counted later is no smaller; that the groups of a `GROUP BY` add up to the rows they group is
  proved by a bijection between a row and its place within its group (`GroupsCount`;
  `GroupsCoverTotals`). `Paged` is the account of a client that turns the pages of a listing while others write: of the
  rows that were there all the time and have not been shown, as many may stand on places the pages have passed as others have
  left the selection or sunk in it (`Late`). A page shows the rows whose rank lies on it (`RankIsPlace`, for every order of the
  listing that the query allows), a row inserted or written with a later time takes no unseen row to an earlier place (`WroteLate`), and
  a row that leaves or sinks moves one row at most across the edge of a page. What a last page does not show came in after the last
  count. That is `PagesMissFew`. Theorems: `TypeCorrect` and those three.

Every safety invariant, action property and refinement that the passing runs check is proved. Only
model-checked are the liveness properties (`EveryRequestAnswered`, `CommittedIsAudited`, `ServesUnlessEmptied`): the
prover has no rule for fairness here.

## Where code and documents disagree

1. **A final decision can be overwritten** (`decisions_predicted`).
   `service/priority_decision.go:71-101` checks the draft status on one read and
   updates on the version the client sent, and never compares that version with the row
   it read. An update that names version *v+1* while the draft is at *v* passes
   the checks; if a review commits *v+1* before its write, the update matches and stores
   `draft` over the level. `README.md:44` calls the levels final states that cannot
   be overwritten, the service's test says "final decision must be immutable".
   Comparing `ExpectedVersion` with `current.Version` would close it: with
   `EchoClients` the property is proved.
2. **A final decision can be deleted** (`decisions_deleted`).
   `service/priority_decision.go:145-148` checks the status on a read and deletes by id alone.
3. **A review can stay without an audit entry** (`decisions_unaudited`). The entry is
   appended after the transaction (`service/priority_decision.go:131-134`);
   `README.md:42` says every status change is written to the audit log.

Two observations that contradict no document. An administrator who deletes every row of a
table (possible for bridges, inspections and defects, whose deletion has no status check) leaves
a server that runs on but cannot be started again: `Seed` finds no live rows and
inserts codes that the deleted rows still occupy. `ServesUnlessEmptied` says that
this is the only obstacle. And while redis fails a key may get the limit once more from each
process: what `LimitHolds` promises is a limit per backend.

Of the frontend and the reads, which contradict no document either:

- The page shows whichever answer came last: of two loads that race, the older may win, for another search
  than the one in the field (`factory.ts:9`). `MovesAsShown` says why this harms no record: the
  version goes with the item.
- `loading` is reset by the first function to finish, so it may be off while an answer is awaited;
  `SpinnerStops` is the half that holds. A refusal's message is cleared by whatever starts next.
- A move that succeeds closes the dialog that is open by then, which may be another one, opened meanwhile for the
  very version the list shows (`EntityPage.vue:48`); `MoveEndsOnNews` promises only that the user then sees what the move did.
- After another tab logged in as somebody else, this tab shows the buttons of its own user and sends the
  other's token: the server judges the other. An expired token stays in localStorage and keeps the login page away
  (`router/index.ts`) until logout.
- Reading all pages misses rows when others are deleted, leave the search or sink in the list meanwhile, one each at most,
  and entries of the audit log that share their time, for its order has no second key
  (`repository/security.go:59`); `PagesMissOnlyWhatSlipped` is exact about both. A client that asks for pages of more than
  100 gets 20 and ends by its own count of pages (`handler/system.go:155`, `usePagination.ts:2`): of 50 rows it would see
  20. No page of the frontend asks for so many; the property is about sizes that are applied.
- A required `Category` of blanks passes the binding, is trimmed and stored empty, for none of the validators looks at it
  (`service/priority_decision.go:158-163` and its three siblings); no document says which fields may not be blank.
- A login that finds its user before a demotion and signs after it (`service/security.go:35-42`) gives the old role for a full
  lifetime from the signing.
- The page of decisions shows the row's version beside the actor of the *latest* revision
  (`EntityPage.vue:74`), which may be a later one (`RevisionsReachVersion` promises `>=`).

## Not modelled

Health, overview and the counts by status (reads of independent tables that promise nothing about each other);
the history of an entity (one statement) and the limits of windows and histories. Passwords and the form and signature of tokens. In the
frontend: navigation between pages, the create dialog, search texts, columns, the login's error. A read that
fails answers with an error and nothing else. Request ids, logging and response envelopes have no shared state.
Configuration is a pure function with unit tests. Deployment files hold no
logic of the program; MinIO is started but no code uses it.

The first, unlocked `Get` of a decision also loads its revisions with a second statement; the
checks use the row only, so `PriorityDecisions` takes it as one read. What the two statements answer to a client
is in `Reads`.

## Plan

1. *Done*: status graphs, roles, store, handlers; priority decisions and their ledger; the
   three other aggregates and atomic records; types, safety, refinement, liveness;
   proofs of all but liveness.
2. *Done*: `Startup` and `RateLimiter`, with their proofs.
3. *Done*: `Sessions` and `Workbench`, the client that justifies `EchoClients`, with their proofs; `Reads`, with its proofs.
4. Left: the audit entries of deletions in the trail of a record; several records and pages in one tab.
