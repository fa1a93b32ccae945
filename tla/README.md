# A TLA+ model of the garment factory backend

The repository is a NestJS backend (TypeScript, Prisma on PostgreSQL, Redis)
with which a factory records what its workers produce. This directory holds a
TLA+ model of it: modules translated from `src/src`, TLC configurations that
check them on small instances, and proofs checked by TLAPS.

All paths below are relative to `src/src` unless they start with `src/`.

## 1. The system

Every HTTP request is an async handler on the event loop of one of several
identical server processes (`src/vercel.json`). Handlers share no memory except
two maps; they meet in the database (READ COMMITTED, the Prisma default) and in
Redis. Hardly any handler opens a transaction: the pattern is *read, check,
await, write by id*, so any other handler may run between the check and the
write. That pattern is what most of the properties here are about.

The global `ValidationPipe` (`main.ts`) strips from a body what its class does
not decorate. Most bodies have plain or generic types and pass whole: what the
services spread into a row (`...dto`) is then whatever the caller sent. The
models follow that: an update of a user may name any column (`Accounts`), one of
a line or a team may move it and change its code (`Records`).

| Component | Where | State | Operations that change it | What is hard |
|---|---|---|---|---|
| Digital form workflow | `modules/digital-form` core, workflow and base services, controller | `digital_production_forms`: status, submitTime, approvedAt, creator, last writer | create, update, delete, submit, approve, reject | every status is written blindly after an await |
| Form entries | entry service, `digital-form-prisma.repo.ts` | `production_form_entries`: combination, hourlyData, totalOutput, shift | add, bulk add, update, change shift, delete | find-then-insert; lookups by entry id; a merge that happens twice |
| Daily form job | `digital-form-scheduler.service.ts` | the day's forms | generate-daily (the cron rule never fires: `ScheduleModule` is not imported) | a long loop over a snapshot; random codes; overlapping runs; crashes |
| Login tokens | `modules/auth/auth.service.ts`, `share/components/token.service.ts`, `share/guard/auth.ts` | blacklist keys in Redis; one map of answers per process, one minute per entry | login, logout, refresh, every guarded request | caches of several processes; a Redis that may fail |
| Accounts | `modules/user`, rest of `auth.service.ts` | status, password, reset token | register, update, delete, change, request and reset of a password | account state read before hashing, written after it |
| Organization | `modules/factory`, `line`, `team`, `group` | units, members, managers and leaders with `isPrimary` and `endDate` | create, update, move, delete, assign, remove | "one primary leader" kept by two statements; deletion after a check; names kept apart by looks |
| Roles and permissions | `modules/role`, `modules/permission`, `common/redis` | roles, permissions, grants; answers kept in Redis | create, update, delete, assign, check | the clearing of kept answers races with their refilling |
| Departments | `modules/department`, `user-department` | a tree of departments, members | create, move, delete, assign | cycles; readers that walk while the tree moves |
| Products | `modules/handbag` | bags, colours, processes | create, update, delete | looks into a table nothing writes; only foreign keys keep recorded work |
| Group rates | `modules/group/bag-group-rate` | output rate of a group for a bag | create, update, delete, batch | a batch with `Promise.all`, one look and one write per item |
| Lists | every repository | none | none | a page is two queries, and a client reads several pages |
| Reports | `modules/reporting`, `digital-form-report.service.ts` | none | none | many queries, one after the other, that must add up |
| Report files | `report-export.service.ts` | files on disk | export | names made of the clock; streams that fail |

How they interact: the guard of the login module opens every route and passes
on the caller's role from the token; forms name a worker and the worker's
factory, line, team and group; entries name a product, a colour and a process;
the daily job and the routes write the same table; deletions in one module meet
the foreign keys of the others; reports read everything.

## 2. The modules

| Module | Models | Main abstraction |
|---|---|---|
| `FormWorkflow` | the abstract promise: a form goes DRAFT, PENDING, CONFIRMED or REJECTED, is edited only as a draft and handed in with content | no requests, no database |
| `DigitalForm` | workflow and entries, one action per database call; the refinement mapping to `FormWorkflow` | an entry's data is one opaque `content` |
| `MCDigitalForm`, `MCEntryOutput` | `DigitalForm` and `EntryOutput` for TLC: their symmetries | |
| `EntryOutput` | the data of one entry: slots, total, shift | one entry on a form that stays a draft |
| `DailyForms` | the job, and the routes that make or remove forms of the same day | one day, regular shift |
| `Sessions` | tokens, the blacklist, the per-process map | accounts are always fit to refresh, or the request gives up |
| `Accounts` | status, password and reset token of one person | a password is itself, not its hash; one registration |
| `Leaders` | managers and leaders of a factory, line, team or group | one unit; end dates do not pass while we look |
| `Rights` | what one user may manage or see, read in eight ways while it changes | units have one branch; queries do not fail |
| `Records` | creation, update and deletion of all master data, and what PostgreSQL takes along | a method is a table, what it writes and the list of its looks |
| `MCRecords` | twelve scenes of `Records` for TLC | |
| `Departments` | the tree and the hierarchy, read while departments change | changes happen at any time; their looks are in `Records` |
| `Rates` | the rates of groups for one bag | one bag |
| `Listings` | a page, and a client that reads page after page | a list is the order of its queries, its limit and what may be answered instead; kept pages have any content |
| `Permissions` | answers about permissions kept in Redis | one permission, one role, one user; one kind of answer watched |
| `Reports` | reports, comparisons and statistics as series of reads | an entry is its total, hours and issues |
| `Exports` | files of reports: name, opening, filling | contents are whose report it is |
| `People` | `Sessions`, `Accounts` and `Rights`, side by side | they share no state |
| `MCSessions` | small instances of `People` for TLC | one of the three is at work |
| `BackOffice` | `Departments`, `Rates`, `Listings`, `Permissions`, `Reports` and `Exports`, side by side | they share no state |
| `MCBackOffice` | small instances of `BackOffice` for TLC | one of the six is at work |
| `Sums` | lemmas about sums over finite sets, for the proofs | |
| `DigitalFormProofs`, `EntryOutputProofs`, `DailyFormsProofs`, `LeadersProofs`, `RecordsProofs`, `PeopleProofs`, `BackOfficeProofs` | theorems about the module they are named after | |

A definition whose comment begins with "Fault:" is a slip the code might have;
no behaviour of the specification uses it. Each property has one that breaks it.

### DigitalForm

`forms` and `entries` are the two tables; a row's `status` (`state`) says also
whether the id is still unused (`UNBORN`) or its row gone (`DELETED`). `req` maps
each slot to the request in it: which handler (`op`), the database call it makes
next (`pc`), and the values it has read or been given. The first action of a
handler (`Start...`) is the read of the form with `_checkPermission` and the
status check; the following ones (`ListForSubmit`, `FindForAdd`, `Write...`) are
one call each with the synchronous code after it. `Write...` actions are as blind
as the code: they require that the row exists (Prisma's `update` and `delete`
throw otherwise) and nothing else. `InsertAllowed` is the database's own part,
the unique key `unique_form_entry` and the foreign key to the form. `Fail` ends
a request at any point and leaves what it wrote. A failed check after the first
await is a `Fail` too; one at the first read changes nothing and is no step.
`addBulkEntries` is the controller's loop: it reads the form once for its worker
and then runs `addFormEntry` per combination; an error in the middle leaves the
earlier entries.

Callers name any entry under any form. An update looks the entry up among those
of the form; a deletion does not, so it may remove an entry of another form. Such
an entry gets the state `STRAYED` instead of `DELETED`: no handler tells the two
apart, the properties do.

### EntryOutput

`Merge` is the spread of `updateEntry`, `OnlyKnownSlots` the filter of the
repository, `FitToShift` the repository's change of shift, all on functions from
slot labels to numbers. The service reads the entry (`ListEntries`), the repository reads
it again (`Reread`, `RereadForShift`) and writes. `stale` names the requests that read
the row before another one wrote it, a record for the properties alone. A time slot is a model value of
one of four kinds: of the regular, the extended or the overtime list, or a label
the code does not know, which `z.record(z.string(), ...)` admits.

### DailyForms

`table` is the day's forms by `formCode`; a code is a group and a suffix. A run
holds the snapshot it took (`place`, `todo`), the worker it is at, and the
workers it logged an error for (`missed`). Next to the runs, forms are made and
deleted by hand, workers move, and the process crashes.

### Sessions

`redis` is the set of tokens with a blacklist key, `local` the map of each
process, and `req` the requests in flight. `pc` tells a request that waits for
Redis (`ask`) from one whose answer has been computed but not yet stored
(`listed`, `clear`): that gap is where another request's revocation fits in.
`life` has a step for the last second of a token (`Age`), for which
`getExpirationTime` rounds to nothing: from then on there is nothing to revoke,
and a key may end before its token. `Publish` sets the key whatever became of the
token since the time to live was computed, so a key may also outlive it
(`KeyExpires`).

### Leaders

`kind` says what the unit is and never changes; `row` is its table of managers or
leaders, by user, and `scoped` the users who hold the corresponding role for this
unit. The four services do the same three things in different orders, and the
order is what decides what a failure or an overlap leaves behind: `DemoteFirst`
and then the write (teams; lines in a transaction, whose demotion is remembered
in `seen` and takes effect with the commit), the write and then `DemoteOthers`
(groups), or no demotion (factories). `AddAgain` and `UpdateNobody` are the
writes the database refuses or that find no row. `ChangeRole` is the call the
services of lines and factories make last: they name the role by its code where
the key of its row is asked for, so it throws; the routes of the users module
(`GrantRole`, `RevokeRole`) use the key. Who may ask is `CanManage`: `Overseers`
stands for those whose right comes from elsewhere (admins, for a team the
managers of its line, for a group the roles its routes admit). The controller of
lines requires one of an empty list of roles, which lets only super admins in, so
a line's own managers never count. The POST routes of teams and lines type their
bodies with classes without decorators (`TeamLeaderDTO`, `LineManagerDTO`), so
nothing is left of such a body and the look-up of the user refuses the addition;
`StartAdd` models the services as they take a user, for other callers of theirs,
and so has more behaviours than these two routes. Factories and groups get the
body they are sent, and the finding about roles is checked for factories alone.

### Rights

Who may manage a unit is written down in the rows of managers and leaders and in
roles whose scope is a unit; `fact` says of each of these sources whether it is
there and whether its end has passed. A reading is a sequence of queries, each
for one source, and each for one that is `Running` or for any there `Ever` was:
`CanManage` of a factory, line or team, `canAccessEntity` for a unit
(`CanAccessUnit`) or for a user (`ReadTarget`, `CanAccessUser`), and the three
lists of accessible units (`ReadRoles`, `ReadBelow`). They differ: the row of a
factory's manager counts after its end and the role does not count there; only
rows and running roles count in `isManager` and `isLeader`, only roles, ended or
not, in `canAccessEntity` and the lists. The teams' repository looks for a scope
`team:` and the id, which no other query knows (`PrefixedRoleOf`); the schema's
comment (`src/schema.prisma:166`) has such prefixes for all units, but apart from
`share/components/factory.pattern.ts`, which nothing imports, no other code knows
them.

### Accounts

`account` is the row; `req` the requests in flight, each with what it has read
or been given. `issued` and `spent` are the reset tokens that were generated and
those with which a password was set. Every handler has a `Start...`, its reads
and checks, and a `Write...`, the update by id that follows the hashing or the
random bytes; the update names some columns and leaves the others, except that
`resetPassword` writes the status it has read. The update of a user writes every
column of its body, password, salt and reset token included (`Body`, `Merged`):
an admin's, and a manager's that names no status. A password written with a salt
that does not fit is `None`, which no password matches. A deletion that is not hard only
sets the status DELETED: the queries leave out rows with a `deletedAt`, a column
the schema does not have, so the account is found as before. `news` remembers,
for the property alone, which columns others changed under a request.

### Records

The services of the master data follow one protocol, so a method is a record:
`CreateLine == Inserts("line", <<"factory", "key", "name">>)` looks for the
factory, for the line's code and for its name, one await after the other, and
then inserts. `Look` is one of these queries, `Insert`, `Update` and `Delete` the
write. An update asks for values too: those of lines and teams may name the code
and the unit above, and look for the name in the unit the row was found in
(`Staying`, `LookedUp`). `Refs` and `Without` are the database's part: the `onDelete` of every
foreign key of `src/schema.prisma`, cascades included; `KeyTaken` its unique
indexes. A look for a name finds all names that contain it where the repository
uses the conditions of its list (`Asks`). The factories' repository answers
"nothing there" to every query that fails (`Swallowing`). `news` are the rows that
came or changed under a request.

### Departments, Rates, Listings

`Departments` keeps `parent`; `BuildTree` reads the children of one department
per query, depth first, and `FindParents` goes up one parent per query. `update`
accepts any parent, so cycles can arise.

In `Rates` a batch first looks for each group in order and then starts all items
at once: `req[r].item[k]` is where item `k` is, each has its own look
(`FindRate`), then its own write. The first failure is the answer
(`answered`) and the others go on. A single creation stores `active` as it was
sent, a batch makes every rate active (`Written`).

`Listings` has a record for each list of the program: whether the count comes
before the rows or along with them; whether the limit is taken as asked, clamped
to 100 by the repository while the service answers with the one asked for, or
clamped and told (`Size`, `Told`); and whether a page kept in Redis (roles,
permissions) or, after an error, an empty one (factories) may be answered
instead (`AnswerInstead`). The column of the order comes from the query, so rows
of every list may move in it. `Ends` is a client's last page.

### Permissions

`Told` are the kinds of changes that clear the watched answer, `kept` what Redis
holds under its key. A reader misses, asks the database and stores; a writer
changes the database, asks for the keys of each prefix (`Keys`) and deletes those
it found (`Del`). `excused` marks an answer with one of the three reasons for
which it may be out of date. `checkUserHasPermission` answers no when nothing is
kept, and stores nothing.

### Reports and Exports

A report is a record of the reads it makes in order, the reads it makes for each
row of its breakdown, and what a row stands for; `rep` holds what it has read.
`seen` are the entries behind the total, `row` what each row was given. The tables of a
report (`DailyBreakdown`, `HourlyBreakdown`, `OutputByBag`, ...) are functions of
these. The changes of the tables have no guard that a request checked earlier:
entries are written and deleted whatever the status of their form is by then
(`WriteEntry`). The route of the comparison report is declared after `:id`, as are
those of the handbags' `colors` and `processes` and the factories' `accessible`,
so that NestJS hands the request to `:id`; the services behind them are modelled as they are.

In `Exports` a name is the kind of report, the code of the unit, the millisecond
and the format. `Open` truncates the file, `Fill` writes it; a PDF stream that
fails ends the process and all exports with it (`StreamFails`), since nothing handles its
error. `exportProductionReport` of the forms makes an address and no file. The
second file of a factory's csv table is named after the first and never
answered.

## 3. The runs

| Run | Instance | Question |
|---|---|---|
| `DigitalFormRaces` | 1 form, 2 requests at once, 3 users, 2 workers, 2 entries, 2 combinations | what survives every interleaving |
| `DigitalFormOrderly` | 2 forms, 2 requests, at most one per form; 2 entries, 1 combination, 2 contents | do the handlers implement `FormWorkflow` |
| `DigitalFormDecisions` (violation) | 1 form, 2 requests | are only pending forms decided |
| `DigitalFormForeign` (violation) | 2 forms, 1 request | are the entries of a submitted form frozen |
| `EntryOutput` | 4 slots, one of each kind, outputs 0..1, 2 requests at once, patches of at most one slot | slots, outputs and totals over updates and shifts that overlap |
| `EntryTotals` (violation) | 5 slots, one request at a time | is the total the sum of the slots |
| `DailyForms` | 2 workers, 1 group, 2 suffixes, 2 runs at once | does every run end, is nobody forgotten, who gets a second form |
| `Sessions` | 2 processes, 1 login token, 2 requests; or 1 account, 2 passwords, 2 reset tokens, 2 requests; or 1 factory, line, team and group, 1 source to begin with, 1 change | how long a revoked token is taken for valid; what may change a password and a status; are rights recognized |
| `Leaders` | a unit of each kind, 3 users of whom 1 needs no row, one request at a time, failures | who is primary after sequences of changes and failures; is a team left without leaders |
| `LeadersRole` (violation) | a factory, 2 users, no failures | does a primary manager get the role |
| `Records` | 2 requests at once in one of 12 scenes, looks that fail | what a look before a write is good for when another write comes in between |
| `BackOffice` | one of six components: 3 departments, 1 reader, 1 move while it reads, trees followed to 4 departments; 2 groups, 2 ids of rates, a batch and a single creation; 3 rows on pages of 1, asked for as 1 or 2; 1 reader, 2 writers, 2 changes; 2 units, 2 workers, 2 forms, 2 entries, 1 change; 2 exports, 2 kinds, 2 milliseconds | what reads of several queries show of a database that changes |

**DigitalFormRaces.** Everything listed holds although no write checks a status:
`StampsTellHistory`, because no write goes back to DRAFT and approval is only
reached through a submission; `EntriesBelong`, because the foreign key and the
delete transaction close the race between adding an entry and deleting the form,
and a form never changes its worker; `NoCombinationTwice`, because of the unique
key; `CheckedFactsLast`, because creator and role never change under a request. One form is enough: the requests of different forms meet
only in the entry ids, which the second and third run have.

**DigitalFormOrderly.** `OrderlySpec` adds to each step that no form has two
requests in flight. Then the workflow promise holds (`ImplementsWorkflow`, with
`stage` the status and `content` the set of combinations on the form), submitted
forms have had entries (`SubmittedHasEntries`), these change no more
(`FrozenUnlessStrayed`) and a decided form names the admin who decided
(`DecisionsOnRecord`). Callers name entries under any form; what a deletion under
another form takes away counts as content still, and is the one exception the
three properties name. That no two requests of a form overlap is not something
the code ensures: it is what a lock or a conditional `UPDATE ... WHERE status = ...`
would have to provide, and `DigitalFormDecisions` shows the promise fail without
it. `DigitalFormForeign` shows the exception: the plain claim (`EntriesFrozen`)
fails with a single request.

**EntryOutput.** Two requests merge into what each has read and the later write
wins: a lost update, which nothing in the code prevents. The three action
properties name it as their one excuse, a write by a request in `stale`, and hold
of everything else two requests and their four reads can do to each other. `Fail`
covers the entry's deletion. The outputs 0 and 1 tell a changed slot from a kept
one, and one slot of each kind gives all sets of slots the code distinguishes;
any request that is stale is so because of one other, so two are enough.

**DailyForms.** Two suffixes for two workers make a code collision possible and
avoidable. `RunEnds` and `NoWorkerForgotten` are checked under weak fairness of
each run's own steps (`RunStep`): an awaited database call returns or throws, and
the event loop resumes the function that awaits it. Nothing else is fair: no one
has to start a run, make a form, or crash. A worker counts as remembered when it
has a form at some moment, or an error in the log, or the process crashed.
`JobAddsNoSecondForm` is an action property over overlapping runs, routes and
crashes: `raced` marks a run whose worker got a form between the look and the
INSERT, and no other run gives anybody a second form.

**Sessions.** `CleanStaysClean` bounds how stale answers come about: once a
token is on the blacklist, a process that does not remember or carry a `clear`
answer never gets one. `StaleAnswersVanish` adds that those it has go away, for
good or until the last second of the token, in which its key may end first.
Fairness: Redis calls return or fail (`Proceed`), and the minute of a map entry
passes (`Forget`). The run is of `People`, which also has `Accounts` and
`Rights`; the three share no state, and `part`, chosen in the initial state, says
which of them moves. `AccountsChangeForReason` says what each write may do to an account that
other requests have changed since it was read: a status is overwritten by a
reset only when it changed under that reset (which does undo a lock), a token
sets a second password only for a reset that had found it before the first was
set, and a password or a token comes from an update only when its body names the
column. Two requests are enough because accounts do not interact and one read and
one write of each make every crossing. `RightsAreRecognized` says of all
readings at once: a running role at a line that lasts is never missed, whatever
else changes between the queries, and nothing is granted without a source at
that unit or above it, at some moment. It is about the role at a line because
that is the one source all readings but `canAccessEntity` of a team or a group,
and those of factories, agree on. One change, after at most one source to begin
with, can come between any two queries; two changes were checked once as well
(2.8 million states) and show nothing else.

**Leaders.** `AloneSpec` adds that the unit's requests, and the changes of its
roles, come one after the other; any of them may fail between two calls
(`Failures`). Demoting first keeps teams and lines at one primary at most
(`AtMostOnePrimary`) and can leave a team with none; demoting last keeps a group
from losing its primary (`GroupKeepsPrimary`) and can leave it with two. Nobody
has both, and factories have neither. With two requests at once all of it fails:
two additions to a group demote each other, two transactions on a line do not see
each other's row. `LeadersRemain` is what the check against removing oneself is
good for: it keeps the remover. Three users are enough: one who acts, one acted
upon, one who is primary before.

**Records.** A scene is a handful of rows of related tables and the calls that
meet on them: deletions of units against additions below them, groups against
users and rates, products against colours, processes and entries, roles,
permissions and departments against what refers to them, and names and codes
against each other. Two requests, all calls of the scene, in every interleaving
of their looks and writes, with looks that may fail; the requests are symmetric.
`DeletionTakesOnlyNews`, `RecordedWorkStays` and `DoublesHaveReasons` name the
excuses exactly: without a change that came after the request began (or one of
the other reasons the properties name, such as a line that moves under a name
looked up where it was) nothing is lost and nothing doubled. An excuse needs
two writers at most, so two requests are enough.

**BackOffice.** The six components of `BackOffice` share no state; `part`, chosen
in the initial state, says which one moves, so the run is the six runs side by
side.
- *Departments*: `StayersShownOnce` for trees of three departments with a move in
  the middle of a reading; `HierarchyEnds` under weak fairness of the reader
  (`StepHierarchy`: its query returns), and only where no cycle stays, which
  `update` can make.
- *Rates*: a batch of two groups crosses the creation of a rate for one of them,
  updates, deletions and the deletion of a group. `EveryItemSettles` under weak
  fairness of the requests' steps (`Go`, `ItemStep`: awaited calls return or throw).
- *Listings*: `PagesMissForReason` for every kind of list, three rows with equal
  and different keys, one change between any two queries, a limit within and one
  beyond what a repository gives. The rows are named in the order they begin in,
  since another naming is the same behaviour with other names.
- *Permissions*: `KeptIsTrue` for each of the four kinds of answers, two changes
  that cross a reader and each other, Redis failing anywhere.
- *Reports*: `BreakdownsAccount` and `StatisticsOfOneMoment` for each of the
  reports and statistics, with one change (a form, an entry, a status, a move of a
  worker or of a unit) between any two queries; two workers in two units with a
  form and an entry each tell a sum from its parts. `StatisticsOfOneMoment` makes
  an exception only of entries that were themselves written or deleted.
- *Exports*: two requests in the same millisecond or in two, of the same kind and
  format or not.

Their bounds (`MaxShown`, `MaxMoves`, `RateChanges`, `ListChanges`, `MaxWrites`,
`MaxChanges`, `MaxTime`) are guards of the actions they count, or the set of the
changes made. What the proofs below say of `BackOffice` and `People` they say of
every value of these bounds; the components are proved as they are composed, each
step of the whole being a step of one component or of none.

The violation runs are findings (see `PROJECT.json`): overlapping decisions,
deletion of a submitted form's entry through another form, totals that count
slots which are not stored, and the role that a primary manager never gets.

Deadlock checking is off in the four `DigitalForm` runs, in `Sessions`, `Records`
and `BackOffice`: their ids, tokens or changes are finite, so a small instance
ends when all are used. It is on in the others.

## 4. What is proved

TLAPS checks the theorems below for every value of the constants that the named
assumptions admit. TLC evaluates the assumptions in every run. The theorems are
about `Spec`, `PartsSpec`, `AloneSpec` or `OrderlySpec`, without fairness; the
specifications of the runs, which add fairness or the choice of `part`, imply
them.

### Digital forms

`DigitalFormProofs` proves for any sets of users, workers, forms, entries,
combinations and any number of concurrent requests, from `DataAssumption` alone
(admins are users, `Null` is none of the ids, ...):

| Theorem | Property |
|---|---|
| `TypeCorrect` | `TypeOK` |
| `StampsTheorem` | `StampsTellHistory` |
| `EntriesTheorem` | `EntriesBelong` |
| `CombinationsTheorem` | `NoCombinationTwice` |
| `UpdaterTheorem` | `UpdaterEntitled` (no run checks it) |
| `FactsTheorem` | `CheckedFactsLast` |
| `NeverDraftTheorem` | `NeverDraftAgain` (no run checks it) |

The invariants are proved together, as `RaceInv`, because they need each other:
an approval writes CONFIRMED blindly, so `StampsTellHistory` is kept only because
`CheckedFactsLast` says the form was submitted when the request began and still
is; that, in turn, is kept by the other requests only because no write unsets
`submitted` or touches the creator or the worker (`FormsAdvance`, the relation
between a row before and after any step). The proof follows that split: lemmas
about types, a lemma that a step of the tables is an advance, a lemma that an
advance keeps the facts of all requests that the step leaves alone
(`FactsKept`), and one step per action for the request that moves.

Its second half is about `OrderlySpec`, where no form has two requests in flight:

| Theorem | Property |
|---|---|
| `DecisionsTheorem` | `DecisionsOnRecord` |
| `SuppliedTheorem` | `SubmittedHasEntries` |
| `FrozenTheorem` | `FrozenUnlessStrayed` |
| `WorkflowTheorem` | `ImplementsWorkflow` |

What the race proofs cannot have is here the inductive invariant itself: what a
handler checked when it read its form still holds when it writes. `StatusInv`
says it of the form's status and of the caller's right, `EntryInv` adds the entry
the handler found and where entries of each form may be. Each is kept because a
step of one request changes rows of its own form only (`ProceedLocal`,
`ProceedEntries`) and nobody else is at work on that form (`StatusLocal`,
`EntryLocal`). The refinement follows: a step either leaves all statuses alone
and edits the content of one draft (`Workflow!Edit`) or stutters, or moves one
status the way `FormWorkflow` allows; `WorkflowProceed` has one step per write.

### Entries

`EntryOutputProofs`, from `EntryOutputAssumption` (finitely many slots, a regular
one among them, and a `Null` that is no row):

| Theorem | Property |
|---|---|
| `EntryTyped` | `TypeOK` |
| `SlotsFit` | `SlotsFitShift` |
| `OnlySent` | `OnlySentOutputChanges` |
| `TotalsOfKnown` | `TotalOfKnownSlots` |

All are about any number of overlapping requests. The types alone are inductive,
with the total bounded by the number of slots times the largest output (a lemma
of `Sums`). The others need what a request has in hand between its reads and its
write: the merge of its patch with the row as it is (`Merged`), the filter of that
merge (`Filtered`), the row fitted to the new shift (`Fitted`); `OInv` is the types
and these for every request that is not `stale`. A write makes all others stale,
so the requests of which it still has to hold are those that see the same row.

### The daily job and the leaders

`DailyFormsProofs` proves for any number of workers, groups and overlapping runs
`DailyTyped` (`TypeOK`) and `NoSecondForm` (`JobAddsNoSecondForm`). `RunInv` adds
to the types what a run about to insert knows: either its worker has no form, or
the worker's form came after the look and the run is marked (`Knows`).

`LeadersProofs` proves for any number of users, under `AloneSpec` and
`LeadersAssumption`:

| Theorem | Property |
|---|---|
| `LeadersTyped` | `TypeOK` |
| `PrimaryTheorem` | `AtMostOnePrimary` |
| `GroupTheorem` | `GroupKeepsPrimary` |
| `RemainTheorem` | `LeadersRemain` |

`LeaderInv` is inductive because of `Prepared`, which says what the request in
flight has brought about so far: a team has no primary between demotion and
write, a line's transaction has seen all primaries there are, the user a group
promotes is primary before the others are demoted, and who removes a team's
leader still leads it.

### People

`PeopleProofs`, for any number of processes, tokens, requests and passwords and
any tree of units, from `PeopleAssumption` (the marks are none of the values, the
kinds of units are apart, each unit is under one of the kind above):

| Theorem | Property |
|---|---|
| `SessionsTyped` | `TypeOK` of `Sessions` |
| `CleanInstances` | `CleanStaysClean` |
| `PartsTyped` | `PartsTypeOK` |
| `AccountsReasoned` | `AccountsChangeForReason` |
| `RightsRecognized` | `RightsAreRecognized` |

- *Sessions*: the type invariant is inductive and all that `CleanInstances` needs: the only step that
  computes a `clear` answer has just seen the token missing from the blacklist.
- *Accounts*: `AInv` adds to the types that the token in an account is not spent,
  that a token about to be stored is new to everybody else (`Tokened`), and that
  a reset or a change either knows the account as it is or has the column among
  its `news` (`Aware`). A write of one request turns what another knew into news,
  and that is the whole argument.
- *Rights*: `QInv` says where each of the questions stands (`Kinds`), that a right
  valid all the time is found or still to be asked for (`Complete`), that
  whatever is granted was given by something seen (`Sound`), and that what
  is remembered since the beginning agrees with what is there now (`Fresh`). Each
  of the queries of each question has a step.

### Records

`RecordsProofs`, for any rows, scenes and number of requests that fit the tables
(`RecordsAssumption`: the rows refer to rows there are, the calls are about rows of
their method's table):

| Theorem | Property |
|---|---|
| `RecordsTyped` | `TypeOK` |
| `DeletionsTakeNews` | `DeletionTakesOnlyNews` |
| `WorkIsSafe` | `RecordedWorkStays` |
| `DoublesAreReasoned` | `DoublesHaveReasons` |

`TypeOK` includes that every reference has its row, which a deletion keeps since
what refers to a row that goes goes too (`Doomed`, closed under cascades), is
unhooked (`Without`) or blocks the deletion (`Blocked`).
`RInv` adds that a row to be inserted is nobody else's (`Apart`) and what a look
is good for (`Known`): one that was taken and found nothing leaves only rows that
are news since the request began, unless it was blind (`Learnt`). `InsertKnows`,
`DeleteKnows` and `UpdateKnows` say it for the looks of the three kinds of
methods; an update knows, besides, its own row.

### Back office

`BackOfficeProofs`, each component for every value of its constants, from the
assumption named after it in `BackOffice` (finite sets where the code counts or
adds up, marks that are none of the values, and for `Reports` tables that begin
in order):

| Theorem | Property |
|---|---|
| `BackOfficeTyped` | `TypeOK` |
| `AnswersAreTrue` | `KeptIsTrue` |
| `FilesHold` | `FilesHoldReports` |
| `RatesReasoned` | `RatesInv` (no run checks it) |
| `BatchesCover` | `SuccessCoversBatch` |
| `ReportsReasoned` | `ReportsInv` (no run checks it) |
| `StatisticsShowOneMoment` | `StatisticsOfOneMoment` |
| `BreakdownsAddUp` | `BreakdownsAccount` |
| `PagesReasoned` | `PagesMissForReason` |

- *Permissions*: `KInv` adds only the shape of the requests to `KeptIsTrue`; every
  change an answer is told of puts its prefix among those the writer is going to
  clear, and the writer drops the prefix only with the answer, or with the excuse
  that Redis failed.
- *Exports*: `EInv` adds that a file holds only reports of requests with its name
  (`OwnNames`) and that the file of a request that opened it is there and, once it
  is answered, has its report, unless another request has the name (`Filed`).
- *Rates*: `RatesInv` says that a group has at most one rate and a rate its group
  (`RatesShape`), that an item of a batch goes on with a rate of its own group,
  and that an item that is done has left its group the rate it asked for, unless
  another request changed it and is named (`Covered`). `SuccessCoversBatch` is read off
  at the step that answers.
- *Listings*: as long as the pages are what the table holds and as large as the
  client is told (`Honest`), a row that was there all the time, alone at its place
  and not pushed about, is behind every row the client was given and within what was counted
  (`Ahead`), because its place, the number of rows up to it, never falls.
- *Reports*: `ReportsInv` says of every point between two queries what the reads so
  far (`InOrder`) have to do with the tables: entries and rows read agree with what
  is there, except where a change since is on record (`SeenSound`, `ThenSound`,
  `RowsBegun`, `RowSound`). The breakdowns then add up by the lemmas of `Sums`.
- *Departments*: the types, for any depth of the tree; a department's parent exists
  whatever is moved or deleted.

### Sums

The sum of the community modules picks the elements of a set one by one. `Sums`
shows, for any finite set, that the order does not matter (`SumsAgree`, `SumWithout`),
that a sum is the sum of its parts by a key (`SumByKey`), that a table has the same
sum by rows and by columns (`SumByColumn`), and bounds (`SumBounded`, `InSum`). A
theorem of induction that takes a predicate cannot be used with the provers at
hand; here the induction is stated over a set of subsets instead
(`GrowingSubsets`), which needs no predicate.

### Only model-checked

- Liveness under fairness, which is out of the prover's reach: `RunEnds`,
  `NoWorkerForgotten`, `StaleAnswersVanish`, `HierarchyEnds`, `EveryItemSettles`.
- `StayersShownOnce`: it follows a department to the top over a fixed number of
  levels, which is enough for the instance; for trees of any depth it has to be
  stated with all that is above a department.

## 5. What is not modelled

- Averages, efficiencies, percentages and rankings of reports, and the layout of
  exported files: arithmetic and wording on what the models carry as they are.
- Time zones: the job compares dates at local midnight, the routes store the
  time of the request; `DailyForms` is about one day on which both agree.
- Bodies of updates that give a line or a team another id, or that nest writes of
  other tables in the form Prisma takes: the models have the columns of the row
  that a request may change.
- In a form its name, description, dates and unit ids, in an entry attendance,
  quality and issues (except in reports): written like `content`.
- `trackUserSession` and `invalidateAllUserSessions`, `createDefaultEntry` and
  `createDigitalFormAndEntriesForGroup`: nothing calls them.
- HTTP, validation of formats, Swagger, middleware, configuration: without state
  of their own.
- Code that no module loads: the production gateway, the attendance job, the
  older `digital-form.service.ts` and `form-entry.service.ts` under `services/`,
  the shared permission service, `src/src/examples`.
