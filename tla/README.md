# Verification of the operations console

TLA+ models of the Go API under `src/api` and of the stateful parts of the web client under
`src/web`, TLC configurations that check them on small instances, and TLAPS proofs for
every value of the constants.

## 1. Inventory

The system is a Go HTTP server and a React client. PostgreSQL holds users, teams, saved
connections, audit events and indexed logs (pgx, READ COMMITTED); Redis holds login
sessions; open database handles, queries, transactions and used schema tokens live in the
memory of one server process. In the browser every handler runs to its next `await`; the
answers come in any order, and what a handler has captured before an `await` it uses after it.

| component | state | operations | hard behaviour | what makes it correct |
|---|---|---|---|---|
| identity store (`identity/store.go`) | `users`, `teams`, `team_members` | bootstrap, create/update/delete users and teams, memberships | concurrent READ COMMITTED transactions, row locks, deadlocks, cascades | an administrator remains, in the system and in every team; nobody acts on a revoked role |
| login sessions (`identity/sessions.go`, `auth_handlers.go`, `auth_middleware.go`) | Redis session keys and a per-user index | login, logout, revoke all | several Redis commands per operation, partial failure, revocation racing login | a disabled account is refused; a revocation reaches every session that was listed in time |
| migrations (`migrate/`) | `schema_migrations`, a session advisory lock | apply in order | replicas starting together, failure with the lock in doubt | each file applied once, in order; no connection returns to the pool holding the lock |
| workbench handles, queries, transactions, row mutations (`session/`, `query/`, `table/`, `httpapi/router.go`) | handles per session, jobs, open transactions | connect, switch, disconnect, start, cancel, begin, commit, roll back | requests that use a handle while it is replaced or closed, a pool of 5 connections | nothing is leaked or reachable after its end; a statement runs inside its transaction |
| schema changes (`schema/`) | used tokens | preview, execute | structure drifts between preview and execute, partial DDL | a token executes at most once, on the structure previewed |
| API client (`api/client.ts`) | the workbench session, the promise that makes it | every call | shared creation, three tries, timeouts, one repetition after a 401 | a call is executed at most once, and ends unless a body stalls; a restart of the server is invisible |
| database workbench (`app/DatabaseWorkbench.tsx`, `features/workspace`, `features/editor`) | connection, database, tabs, runs, history | select, switch, administer, run, reload, close | answers for a tab, a connection or a database that is gone | what is shown belongs to what is selected; nobody stays busy |
| table data view (`features/table`, `tableTabLoader.ts`) | one page of rows, a draft by row number | page, sort, filter, edit, apply | reloads under a draft, one call per row | the draft stays on its rows; what is applied is what was shown |
| structure view (`features/schema`) | structure, draft, preview with token | edit, preview, save | debounced previews answered out of order, names that cross | the operations make what is shown; the preview saved is that of the draft |
| Redis key browser (`features/redis`) | keys scanned so far, folders | scan, more, pattern, open | pages appended to another list | a scan is drawn whole |
| logs page (`pages/LogsPage.tsx`) | sessions, entries, remote files, a tail | search, upload, browse, import, tail | a tail ending while the next starts; batches | a tail that runs can be stopped; an import is complete |
| connection page and registry (`pages/ConnectionsPage.tsx`, `registry/`) | `connections` with sealed secrets, one form | CRUD | one form for all, late answers | credentials stay with the connection they were typed for |
| settings pages (`settings/`) | users, teams and members as listed | rows of calls per save | partial failure, late answers, the last administrator | a save is ordered so that it is accepted; what was deleted stays gone |
| log store, SSH logs, login state of the client, Redis and MongoDB views, drivers, risk classifier, and the rest | see section 6 | | | |

Components interact by calls inside one process (handlers to services), by shared tables
(identity, registry and logs refer to `users` and `teams`) and by HTTP: the client's modules
take of the server what it answers to their calls (`Serve` and its parts, mapped to the
handlers and stores under `src/api`); `IdentityStore`, `Workbench` and `SchemaService` have
these parts in detail. Only the network, the databases, Redis and `database/sql` are external. `PROJECT.json` lists every component and,
under `hazards`, each behaviour that is hard to test, at its line.

## 2. Plan

Done: the server's identity store, sessions, migrations, workbench and schema changes, and
every page of the web client that keeps state across calls. `MCPages` composes the seven
modules of pages and views, which share no state; the other modules are checked by
themselves, or through an `MC` module that gives their constants values. What is left:

1. The log store: uploads in batches, statuses, deletion and crashes.
2. The risk classifier as a function over classes of tokens, and the rows of a result.

The theorems are in modules of their own (`...Proofs`), which extend what they are about;
`SchemaProofs` is about changes of a structure from the draft on the screen to the table, and
`ClientProofs` about the API client and the other pages.

## 3. The modules

### IdentityStore

One step is one SQL statement. `pc` names the next statement of a transaction and
`op` the request it serves. `userLock` and `memberLock` are the `FOR UPDATE` row
locks; an insert that refers to a user needs the `users` row not to be locked (it takes
`FOR KEY SHARE`). A `SELECT ... FOR UPDATE` of several rows takes its snapshot in one
step (`want`) and locks the rows one at a time in later ones, reading each again.
The final writes and the `COMMIT` are one step: the rows written are locked from the
write to the commit and no other transaction sees them before. `Abort` stands for a
client that disconnects, a deadlock broken by PostgreSQL and a violated constraint on
the data left out (names, passwords). Identifiers are random, so a deleted one is
never used again.

The three checks on remaining administrators differ in the code and so in the model:
`ensureAnotherTeamAdmin` locks every member of the team and reads again,
`ensureAnotherActiveSystemAdmin` only reads, and `AddTeamMember` does not check.

### Migrate and SchemaUpgrade

`migrate/migrate.go`. Every process runs `Apply` once on one pooled connection: take the
advisory lock, create `schema_migrations`, and for every embedded file check, execute,
record and commit; then unlock. A statement may succeed, be refused, or be lost: then the
client has given up and the server may still run it (`inflight`), because lock and
transaction belong to the server's session until PostgreSQL sees the connection closed
(`EndSession`). A process may crash at any statement; a restarted one is another process.
A connection whose unlock failed is taken out of the pool and closed, as the code does.
`SchemaUpgrade` is the promise to the rest of the server: migrations take effect once and
in order, and nobody serves on a schema older than its own build. `Migrate` maps its
committed files to `schema` and the processes whose `Apply` returned to `serving`.

### LoginSessions

`identity/sessions.go` with the middleware and the handlers that call it. Every Redis
command and every PostgreSQL statement is one step. `key` and `index` are the session
keys and the per-user set, with their expiry; `epoch` counts the updates that must revoke
and a key remembers the epoch its password was checked in. Every command of every request may
fail or be cut off (an error, a cancelled context or a crash: the request stops where it is, or
runs its clean-up, as the code does), logins and revocations overlap freely, and time may pass
between any two commands. `revoked` is the last update whose revocation Redis has carried out:
the handlers ignore one that failed (see the findings). `late` are the sessions that escape:
put on the index between the `SMEMBERS` and the `DEL` of a revocation, put there after the
revocation of an update made since the password was checked, or left without an index that
expired between their `SADD` and their `EXPIRE`. `RevocationReachesListed` is about all others;
`ChangeRevokesAll` is about all, and the code does not keep it (run `login_revocation`).
Sessions of different users share no key: one account is modelled.

### Workbench

`session/store.go`, `query/service.go`, `query/transaction.go` and the routes of
`httpapi/router.go`. `entry` is the map of handles, `items` the map of transactions; a
handle is a `database/sql` pool of `PoolSize` connections (5 in the code), and `slots`
says who uses them. Each request is at a `pc` between two critical sections: a handle that
was looked up may be replaced or closed before it is used, and one that was opened may find
its connection gone. The pool is external and modelled as the code relies on it: a closed
pool turns waiters away and lets users finish; `Commit` and `Rollback` wait for the
statement that runs in the transaction, and a finished transaction refuses statements.
Cancel and the 30 s deadline are folded into `GiveUp` and a failing `Complete`: both only
make an error possible. `Store.CloseIdle` and `TransactionService.CloseIdle` exist in the
code and are never called by the server, so they are not actions.

### SchemaService

`schema/service.go`, `schema/generate.go` and the schema routes of `httpapi/router.go`. The
structure of the table is a set of facts about one column, those its fingerprint tells
apart; a statement needs, removes and adds facts, and fails where the database would refuse
it. `Statements` is the `switch` of `Generate`, both dialects and every kind of operation. A
token is what is signed (fingerprint, second of expiry, DDL) and, for the properties, the
structure it was previewed on (`base`). The execute route reads the structure (`Describe`)
before `Execute` verifies and marks the token (`Admit`), so the table may change in between:
`moved` remembers that it did. PostgreSQL runs the statements in a transaction that locks
the table at its first statement (taken as exclusive); MySQL applies each by itself, and one
that was cut off may have been executed. `Refuse` covers every failed check, and expiry,
which may strike any token. `Partial` lets the queries for keys and for indexes and foreign
keys fail, an error `DescribeTable` ignores. Its queries are one step; the server does not
restart, so `used` only grows.

### ApiSession

`api/client.ts`. `prom` are the promises `createSession` has made; calls that start together
wait for the same one, `sessionReady` is the one a new call finds. `net` is what the network
holds for each call. An answer comes in two parts, as `fetch` returns it: the headers, which
`fetchWithTimeout` waits 15 s for (`Lost`, `SessionAttemptFails`; exports have no deadline), and
the body, which is read after the timer is cleared and may never end (`reading`). The server may
restart and forget every session. `Headers` and `Receive` run the whole handler: discard, wait
for a new session, repeat once.

### WorkbenchConnection

The connection the workbench is on, its database and the objects shown. A flow is one call of
an asynchronous handler and waits for one answer at a time, so the operation it waits for is
its program counter: selecting (disconnect, connect, the loads), switching (twice at once, as
the toolbar allows), and the administrative handlers, which may switch first and go on with
the values they captured. `disturbed` remembers that calls crossed or an answer was lost: what
is shown may then be stale, and the properties that depend on it say so.

### WorkspaceTabs

Tabs, the statements they run and the history. A run has captured its tab, connection and
statement and applies its answers by the captured id, whatever has become of the tabs. The
editor is mounted with the handlers of one render (`editor`): the button takes those of the
current one, the shortcut those of the mount. A change of connection replaces the tabs.

### TableEditor

The data view: one page of rows, a draft that refers to rows by their place, and `applyDraft`,
one call per row. Reloads (two at a time) replace the rows under the draft or keep it, as
`prepareTableTabReload` does; `drawn` remembers which rows the draft was made on. The grid takes no
clicks while it loads (a rule of the style sheet), the buttons around it do. `Promised` is the
table as the screen shows it at the click, key cells included; `UnderLoadedKeys` is the same with
every loaded row under the key it was loaded with, which is what `buildRowUpdate` can send. They
differ only where a key cell was edited (`Rekeyed`): there the screen shows more than is sent, and
`AppliedIsWhatWasShown` says what is lost (the typed key) and that nothing else is.

### SchemaDraft and SchemaEditor

`SchemaDraft` is the translation of a draft into operations (`schemaDraft.ts`, `indexOps.ts`),
checked against a reference definition: a table, as the operations leave it, must have the
columns, key and indexes that are shown. `SchemaEditor` is the life of the view around it: load,
edit, the 280 ms timer, previews answered in any order, save with the token, a change of tables.

### LogsView, ConnectionCenter, SettingsPages, RedisKeys

`LogsView`: every handler of the page up to its next `await`; tails are numbered, `ref` is
`tailAbortRef`. An aborted tail delivers nothing more: `abort()` is called from a click, and
aborting a `fetch` drops what its stream holds and rejects the read that waits; what a read had
returned was handed to `onEvent` in the same turn of the event loop (`logs/client.ts:222-232`
awaits only `read()`), before the click could begin. It still has its `finally` to run
(`TailStops`), at any later moment.
`ConnectionCenter`: the form is a set of typed credentials with the connection they were typed
for, so that they can be followed into the registry; the registry's four operations are those
of `postgres_store.go`, and another administrator may take a team away meanwhile.
`SettingsPages`: a handler is a job with the calls it still has to make; the lists are changed
by functions of what they are when the answer comes. The identity API is `identity/store.go` with
one step per call; `IdentityStore` has its transactions.
`RedisKeys`: a key is the sequence of its parts, a tree the keys that lie in each folder; Redis
returns pages in order, some of them without a match.

### Ordering and MCPages

`Ordering` has the few operators on ordered sets and lists that the pages share: what a `for`
over a list, a `filter` or a `sort` goes through (`InOrder`, `Only`, `Without`, `Loop`). It stands in for
operators of the community modules because the pages are instances of `MCPages`, and an instance
brings a copy of everything its module extends into each proof. `MCPages` gives the pages their
variables: a behaviour is that of one of the seven, named by `page`.

## 4. Runs

| run | module, bounds | shows |
|---|---|---|
| `identity_admins` | `MCIdentityAdmins` (`IdentityStore`), 3 users, 1 team, 2 transactions; either the requests of system administrators on an empty or a populated database with 1 further reference, or every team operation except demotion by `AddTeamMember` and deletion of users | authorization holds until commit; `DELETE` meets no reference and bootstrap writes only where there is no user; only a self-demotion loses the last administrator; every live team keeps an administrator |
| `identity_write_skew` | violation | two self-demotions leave no administrator |
| `migrate` | 3 processes built with 1, 2 and 2 files, fair | records are true, no pooled lock, one migrator, refinement of `SchemaUpgrade`, the lock is released |
| `login_sessions` | 2 tokens, 2 requests, 2 ticks (the life of a key), 2 revoking updates; any command may fail, any requests overlap | revocation and index but for late sessions, logout, refusal of inactive accounts |
| `login_revocation` | violation, same bounds | a login that overlaps a change of the password keeps its session |
| `workbench` | 2 connections, 3 handles, 2 databases, 1 transaction, 1 query, 2 requests, pools of 1 | no leaked pool or transaction, no closed pool in the map, exact accounting of pool slots |
| `schema` | 2 requests, 2 tokens, 5 lists of operations that use every kind, 2 structures to drift to, both dialects | a token runs once; a change made before the request read the structure is noticed; all or nothing on PostgreSQL; the answer says what was applied |
| `api_session` | a call and an export, 4 creations of 3 tries, 2 restarts, fair | a call is executed at most once and survives a restart; one creation at a time, waited for while it is pending; every call but an export ends, or a body stalls |
| `workbench_connection` | 2 saved connections, one on PostgreSQL, 2 databases, 2 events | the connection in use is the selected one; the screen tells the truth; administrative statements run where they were meant to |
| `workspace_tabs` | 2 statements, one unsafe, a table, a key, 2 runs, 2 tabs, 1 change of connection, fair | tabs keep apart; the last run is shown; the history is what ran; no tab stays running |
| `workspace_shortcut` | violation | the shortcut runs the text of the mount |
| `pages` | `MCPages`: 2 SSH connections with 2 files, 3 log sessions, 4 clicks; 3 connections, 1 team, 6 turns; 3 users, 2 teams, 6 acts; 3 rows in pages of 2, 5 events; 2 columns and 2 indexes, 4 edits; 2 tables, 3 versions, 4 events; 2 Redis databases, 4 scans | the ten properties of the pages and views |

Why the bounds suffice for what they are for: each hazard of the server involves two
requests and the rows or keys they share, so two transactions (requests) meet in every order;
three users allow an actor, a target and a bystander who is the remaining administrator; three
processes allow one that holds the lock, one that waits and one whose session is in doubt;
three handles allow two switches of one connection to overlap; a pool of one makes every wait
for a connection happen; two tokens are two clashing changes or one change sent twice. In the
client a hazard is a handler under way and something the user does meanwhile: `MaxEvents`,
`MaxClicks`, `MaxTurns`, `MaxActs`, `MaxWork`, `MaxEdits` and `MaxScans` count what the user does and
which calls fail for no reason, and are large enough for two handlers with an edit and a fault
between them; answers and their order are not bounded. Deadlock is not checked in `Workbench`
and in the client, where identifiers and events run out and users may do nothing.

Properties that a run lists are conjunctions where parts belong together: `ChecksHoldAtWrite`
is `DeleteFindsNoReference` and `BootstrapOnlyWhenEmpty`, `TailInHand` is
`TailUnderControl` and `LinesOfOneTail`, and so on; each module defines the parts above the whole.
`IdentityStore` and `Migrate` have their type invariants checked by a run; those of the other
modules with a `...Proofs` module are proved; for the pages the proofs take the typing they need
as a part of their invariants, and `TypeOK` documents the state.

Fairness. `Migrate`: every statement has a deadline (15 s for `Apply`, 5 s for the unlock) and
the server ends the session of a closed connection. `ApiSession`: the 15 s timer ends a try of a
creation, and a call other than an export, whose headers do not come (`client.ts:234-247`), and
the pause between tries ends. Nothing is assumed of the server, and nothing of bodies: the timer
is cleared when the headers are there, and `CallsEnd` says that a call ends or that a body, its
own or that of the session it waits for, stalls for ever. `WorkspaceTabs`: every answer comes or
is given up. Beyond the timer and the deadline of polling this takes for granted that bodies end:
`pollQuery` looks at the clock between two polls only, so that its 45 s do not bound a poll whose
body stalls. The other runs assume none.

## 5. Proofs

Eight modules prove, for every value of the constants, every safety property the runs of their
components check. Each has the same layout: the parts of the inductive invariant with what each
says, what leaves each part alone ("Keeps" lemmas, so that a step only has to be argued about
where it writes), one lemma per action or group of actions, `Init` and `Next`, and the theorems.
Every inductive invariant was checked by TLC on the instance of its run before it was proved.

| module | theorems (property) |
|---|---|
| `IdentityStoreProofs` | `TypeCorrect`, `ActorsStayAuthorized` (`AuthorizedUntilCommit`), `LastAdminLost` (`LastAdminLostOnlyBySelfDemotion`), `AdminRemains` (`SystemKeepsAdmin`), `ChecksStillHold` (`ChecksHoldAtWrite`), `TeamsKeepAdmins` (`TeamKeepsAdmin`) |
| `MigrateProofs` | `TypeCorrect`, `RecordsTellTheTruth`, `PoolIsClean`, `MigratorsExclude`, `ImplementsUpgrade` (refinement of `SchemaUpgrade`) |
| `LoginSessionsProofs` | `TypeCorrect`, `LogoutIsFinal` (`LoggedOutIsGone`), `OnlyActiveServed` (`ServedWhileActive`), `RevocationReaches` (`RevocationReachesListed`) |
| `WorkbenchProofs` | `TypeCorrect`, `NothingIsForgotten`, `StatementsRunInside` (`RunsInsideTransaction`), `SlotsAreAccountedFor` |
| `SchemaProofs`, service | `TypeCorrect`, `TokensAreSpent` (`TokenRunsOnce`), `DriftIsNoticed` (`DriftOnlyInWindow`), `OutcomesAreReported` (`OutcomeIsReported`) |
| `SchemaProofs`, structure view | `PreviewsAreOfTheDraft` (`SavedAsPreviewed`), `DraftsBecomeShown` (`DraftBecomesShown`) |
| `ClientProofs`, API client | `TypeCorrect`, `RepeatsAreSafe` (`RepeatsSafely`), `CreationsAreShared` (`SharedCreation`) |
| `ClientProofs`, pages | `TailsAreInHand` (`TailInHand`), `BatchesAreComplete` (`BatchIsComplete`), `CredentialsStayInPlace` (`CredentialsInPlace`), `DeletedIsGone` (`DeletedStaysGone`), `SavesAreNotRefused` (`PlannedSaveNotRefused`), `DraftsFitTheirRows` (`DraftFitsRows`), `AppliesAsShown` (`AppliedIsWhatWasShown`), `TreesAreWhole` (`TreeIsWhole`) |
| `WorkbenchConnectionProofs` | `TypeCorrect`, `ConnectionFollowsSelection` (`ConnectionMatchesSelection`), `ScreenIsTrue` (`ScreenTellsTruth`), `AdminRunsWhereSaid` (`AdminWhereSaid`) |
| `WorkspaceTabsProofs` | `TypeCorrect`, `TabsStayApart` (`TabsKeepApart`), `LatestRunShown` (`LastRunShown`), `HistoryIsTrue` (`HistoryIsWhatRan`) |

All rest on the named assumptions of their modules: constants are of their types, bounds are
numbers, `None` is no proper value, requests are well formed (`OpsAssumption`), the first
database is consistent (`SeedsAssumption`), users of a pool are of one kind (`KindsAssumption`:
transactions, queries and requests have different names), and in `MCPages` that users and rows are
numbered and finitely many, that a user is not a team, that the administrator and a team exist
(`SettingsAssumption`, `DataAssumption`), that a directory has finitely many files, that a table
has finitely many columns (`DraftAssumption`), and that Redis keeps a key once and returns at
least one per call (`KeyspaceAssumption`). Three theorems assume more, and say so in their
statement; in each case the code does not promise more:

- `AdminRemains`: no request is a self-demotion. Without it `identity_write_skew` refutes it.
- `TeamsKeepAdmins`: `Guarded` requests. `AddTeamMember` gives an existing member a new role
  without a check, and `DeleteUser` cascades to memberships the user was given after it looked.
- `DriftIsNoticed`: `~Partial`. `DescribeTable` ignores errors of three of its queries.

`RevocationReaches` assumes nothing: every overlap, delay and failure is in it, and `late` is the
exact account of the sessions that escape. `AppliesAsShown` covers drafts with an edited key cell
too, and says of them what is applied and what is not.

`ScreenIsTrue` and `AdminRunsWhereSaid` have such a condition in the property: `disturbed`. So has
`DraftsBecomeShown`: names that are free, for a draft that may not be refused; `KeyTookName` and
`clash` for the two drafts that are turned into another structure (see the findings).

### The arguments

`IdentityStore`. Authorization at commit is not inductive: it needs what each earlier statement
established. `IInv` says, per transaction (`Held`), that the actor's row is locked and the
actor enabled once authorized, that its right is a locked role or membership, that the
target is locked, and which operation is at which statement; `Undisturbed` is the fact that makes
it inductive: no step of another transaction changes a locked row. `LastAdminLost` follows: whoever
takes a role away is a locked, active administrator and is not the target, so one remains.
`ChecksStillHold` adds that the advisory lock is held from the look at the users to the
commit (`BootHeld`), and that a reference to a user cannot appear while the row is locked.
`TeamsKeepAdmins` adds `TInv`: a transaction that takes a role away has seen another administrator
who is still there (`Witnessed`), and of two that have read the members of one team, one waits
for the other's row (`OneWaits`) and will read it again. That second fact is what excludes the
write skew the system administrators have.

`Migrate`. `IInv` adds to the types that the history is `1..n` and recorded, and per process where
its connection is, that it holds the lock while it is *or may yet be* in the locked part,
what its transaction has done, and that the file it is about to commit is the next one. The
clauses on a client that has gone are the heart of it: a late commit still holds the
lock, so nobody else can have moved the history on.

`LoginSessions`. A session that is being opened is held by nobody (`Own`, `Distinct`), and one
that was logged out had been given to a client, so no login writes its key again (`Gone`). For the revocation, `RInv`:
of the sessions that a client holds or is about to be given and that are not late, each is on the
index and was opened after the last revocation (`Listed`), the index outlives it (`Outlives`), a
`DEL` under way is about all of them (`Revoking`), and a key that is not on the index yet has the
epoch its login has seen (`Marked`), so that the `SADD` knows whether it comes too late.

`Workbench`. The invariant is about ownership. An open pool belongs to one entry of the map or to
the one request that will publish it (`Stored`), an open transaction to the list or to the one
request that registers or ends it (`Owned`), a statement to a transaction that is open, alone
(`Inside`), a slot to whoever uses it (`Counted`). Each action moves ownership, and no other can
take it meanwhile; the "exactly one" clauses are what the properties lack to be inductive.

`SchemaService`. The set of tokens run is the set marked (`Marked`); between the reading of the
structure and the first statement the table is as read, or `moved` says it is not (`Fresh`); how
much took effect is tied to the place in the list, per dialect (`Progress`). That the DDL of any
draft is a list with at least one statement per operation is a fact about `Generate`, a
recursive function, for all lengths: the library's induction takes an operator as a parameter, so
it is restated for sets (`NatSetInduction`, from the least number principle).

`ApiSession`. A call that was not sent, or was rejected, was not executed (`Unserved`); only a
restart makes the server reject, and after a first restart a repeated call carries a session from
after it (`Repeated`). Sessions are counted by the tries that may have made them (`Counted`).

`WorkbenchConnection`. The part without conditions: what each flow may wait for (`Allowed`,
`Formed`), and that the connection in use is closed exactly between the answer to the disconnect
and the answer to the connect (`Linked`). The part `~disturbed => Calm` says what an undisturbed
workbench knows: no change crosses another call, so all reads under way will find, or have
found, one and the same database (`Expected`, `Reading`); the one shown is that of the connection
unless a switch was just answered (`Showing`); a connection being set up is on its first database
(`Fresh`), which is why the loads started twice agree; and an administrative statement is aimed
at the database it was meant for, or will be when its switch is answered (`Aimed`).

`WorkspaceTabs`. Tab ids are fresh (`Known`), rows are of a run of the tab itself that has ended,
every run of a tab used the present connection, and unless runs overlapped the latest is the only
one that may still write (`Good`). `Captured` says what the shortcut holds on to. The
history has only runs that ended, so none is entered twice (`Entered`).

The pages. Each theorem is about one instance of `MCPages`; a step of another page leaves its
variables alone.

Logs: tails are numbered, and a tail that was not aborted is the one the page holds the controller
of (`HeldTails`), so what runs can be stopped and what is shown is of the last; an import of all
files is a list of which a first part has been stored and the rest is still to be sent
(`BatchInv`). Connections: typed credentials belong to the form that is open, travel with the
request it sent, and are stored under the connection they were typed for (`TypedHere`, `SentAsTyped`,
`StoredAsTyped`). Settings: whatever is listed, shown in a dialog or under way is about users and
teams that were there at the start or have been created (`SettingsInv`), so a late answer cannot
bring back what was deleted; a save of members is its plan, of which each call is about another
user and the additions come before the removals (`Planned`), so at every call an administrator is
left. Data: a draft refers to the rows on the screen, and where a reload is under way alone the
screen is empty and so is the draft (`QuietReload`); the calls an apply still has to make lead
from the table as it is to the table promised under the loaded keys (`Reaches`): a call moves the
first of them into the table. Where no key cell was edited that is what the screen showed
(`ShownAsKept`). Structure: the last request for a preview is about the draft, and the preview
that may be saved is the answer to it (`LastRequest`); what a click promised is in its token.
Keys: a list that no other load crossed holds exactly what its scan has passed (`ReadUpto`), and a
key is filed in each folder above it and in no other, once. For lists of any length the last is
an induction over the list, again from the least number principle, and the counts of the folders
are compared through a bijection.

The draft of a structure. Two facts about what the user has edited are inductive. The list of
index operations is `Tidy`: no name is added or dropped twice, only loaded indexes are dropped,
and one that is added again was dropped before. The columns are `ColumnsWell`: each that was
loaded appears at most once, under any name, and at most one has the tick of the key. The rest
is about the operations such a draft is turned into. `Loop` is a recursive function, so its
values are traced (`RunTrace`, `IndexTrace`, `GatherTrace`) and each argument counts along the
trace (`CountUp`). For indexes, what is left after k operations is what is loaded and was not
dropped among them, with what was added (`After`), for the server and for the screen alike. For
columns, after the drops and the operations of the first n columns of the draft the server has
these n as drafted, except for the key, and those loaded columns that come later, or it has
refused a step (`Stage`); `Free` excludes the refusal. The key comes last: it is set, dropped,
or already where it should be (`KeyRuns`), unless `KeyTook`.

### Only model-checked

- Liveness (`LockIsReleased`, `CallsEnd`, `SpinnerStops`) and everything that needs `ENABLED`:
  out of the prover's reach.

## 6. What is not modelled

- Pure I/O, or functions without state: drivers and catalogs, the MongoDB and Redis services,
  network policy, configuration, the web UI server, password hashing, SQL completion, DDL text,
  controls. The risk classifier's verdict appears as the set `Unsafe`.
- The log store and SSH tailing of the server. Their hazards: two uploads into one session, the
  first to end sets it to ready (`logs/store.go:291`); when the request's context has ended the
  updates that record a failure fail too (`284`); a crash leaves entries of a file that stays
  pending (`279`); a session is deleted while a file is indexed into it (`601`); the reader
  goroutine of a tail outlives it (`sshlog/service.go:281`).
- The use of a registry secret, sealing and rotation of keys, and the audit trail.
- The login state of the client, and the Redis and MongoDB views (see the findings).
- The editor's transactions, the relations of the structure view, rows and result pages.

Within the modelled parts, text (names, SQL, log lines), response bodies and audit contents
are left out. Passing time appears only as expiry in `LoginSessions` and as deadlines that may
strike at any moment elsewhere.

## 7. Findings

With a run of their own (`PROJECT.json` quotes what each contradicts):

- `identity_write_skew`: `ensureAnotherActiveSystemAdmin` reads without locking.
- `login_revocation`: a login puts its session on the index between the `SMEMBERS` and the `DEL` of
  a revocation; the `DEL` removes the index and not the session, which its client keeps and no
  later revocation finds (`sessions.go:109`). So does a login whose password was checked before
  the update and which is put on the index after its revocation (`auth_handlers.go:52`).
- `workspace_shortcut`: `Ctrl/Cmd + Enter` keeps the handler of the render in which the editor was
  mounted, so it runs the text, tab and connection of that moment (`SqlEditor.tsx:57`).

Met while modelling; the properties exclude them by a stated condition.

Server:

- `DeleteUser` reads the administered teams and cascades later; a promotion in between is lost
  with the user (`identity/store.go:346`). `AddTeamMember` demotes the only administrator
  unchecked, without any race (`484`).
- A revocation whose Redis command fails is ignored: the update is committed and answered with
  success (`auth_handlers.go:184-187`, `205`). The index can expire between `SADD` and `EXPIRE`: a session that lives and that no
  revocation finds.
- `BeginTx` waits under `context.Background()` (`query/transaction.go:33`): five transactions left
  open on one handle make every further one wait for ever. `SlotsAccountedFor` counts who holds
  the connections; no property promises an end of the wait, since the code has none.
- Two tokens previewed on one structure can both run if both requests have read the structure
  before either starts (`router.go:292`).
- Disconnecting closes a pool but rolls nothing back, and `CloseIdle` is never called
  (`session/store.go:140`, `query/transaction.go:71`).
- `DescribeTable` ignores errors of the queries for keys, indexes and foreign keys
  (`db/catalog.go:50`): with `Partial = TRUE` the run `schema` is refuted. `Generate` marks
  `alter_column`, `add_foreign_key` and, on MySQL, `set_primary` as not destructive, though
  `2026-07-01-workbench-complete-redesign-design.md:119` asks for confirmation.

Workbench of the client:

- A late 401 discards a newer session (`api/client.ts:250`); the creation is repeated, nothing else.
- `fetchWithTimeout` clears its timer when the headers come (`api/client.ts:244-246`): a body that
  stalls leaves the call waiting for ever, the body of the POST for a session every call that
  shares it (45-48), and a stalled poll a tab that runs for ever.
- `DatabaseWorkbench.tsx:329` names the database of a new table even when the switch before it
  failed; crossed switches can show the database that was left.
- A confirmed statement is read again at the confirmation; `executeAdminSql` sets the first query tab
  idle while it runs; `handleDeleteTable` uses the active tab of the render it was called in.
- The grid lets key cells be edited, shows them and counts them as changes (`TableView.tsx:93-103`,
  `277`, `tableMutations.ts:76`), but `buildRowUpdate` leaves key columns out (54): the apply ends
  well without them and the draft is dropped. A row whose key alone was edited makes no call.
- On MySQL an update that changes nothing counts no row and is refused (`table/service.go:125`).
- Overlapping reloads can put a draft on other rows; a row added during a load shifts the
  selection; a second click on apply applies twice; edits made while a draft is applied are
  lost; a retry after a partial failure repeats what had been done.
- A key column that takes the old key's name loses `set_primary` (`schemaDraft.ts:44-47`); deleting
  a column and adding one of its name sends no drop and is refused; an index may be given a name
  that exists; a save within the 280 ms sends the older preview.
- After a switch of the Redis database the tree keeps the old keys (`RedisKeyTree.tsx:94`), and
  overlapping or failed scans mix patterns.
- Not modelled, seen in the code: `RedisKeyView` and `MongoDocumentView` have no React key
  (`DatabaseWorkbench.tsx:616-622`), so a save right after a change of tabs writes the old text to
  the new key; an effect of `MongoDocumentView` (54-60) reverts every keystroke, and its filter by
  a hex string matches no ObjectID (`mongo/service.go:379`); a string saved to Redis loses its TTL.

Pages of the client:

- Logs: the `finally` of an old tail clears `tailing` of the new one; results of a search can be
  shown under another session; files listed for one connection can be shown under another; a file
  can be imported twice.
- Connections: an update ignores scope and team although the page reports success; the form allows
  a database connection without a password, which the server refuses (`postgres_store.go:64`);
  turning an SSH connection into a database keeps its key as "saved"; a user name alone is not
  saved; a save that ends closes the form opened since; overlapping loads can show a deleted one.
- Settings: a demotion listed before the promotion that replaces it is refused with half of the
  save done, though the dialog says it takes effect as one; disabled members are not in the draft
  and a save removes them; members that could not be read count as none, and a save then adds them
  again, unchecked; a user whose second call fails stays off the list; a first load that ends late
  brings a deleted user back.
- Login: a late 401 of the initial load undoes a login made meanwhile (`AuthProvider.tsx:45-58`).
