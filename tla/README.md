# copilot-token-cost in TLA+

copilot-token-cost reads the process logs that the GitHub Copilot CLI leaves
behind, locally and in Codespaces, keeps the calls it finds in an SQLite
database, and reports their tokens and cost on the command line or on a live
dashboard. This directory holds TLA+ models of it, TLC configurations that
check them on small instances, and proofs that TLAPS checks for every instance.

Paths below are relative to the repository (`src/`).  `PROJECT.json` gives, for
every definition, the lines of code it stands for, and lists the runs, the
mutants, the findings, the hazards and the theorems.

## 1. Inventory

The program is one Go binary (`go/`), a Tauri desktop app that runs that binary
as a sidecar (`desktop/src-tauri`), and a separate prototype
(`go/cmd/codespace-tail-proto`).

| component | state it keeps | operations | correct when |
|---|---|---|---|
| **storage** `go/internal/storage/service.go` | SQLite tables `api_calls` (unique per call and model), `parsed_logs` (a file's mtime when parsed), `session_workspaces`, `codespace_sync_state`, `codespace_tail_offsets` | open and migrate the schema, statements, `LogSyncTx` | rows and the marks that vouch for them appear together; no call is lost or counted twice |
| **log sync** `SyncLogsToDB` in `go/internal/sync/service.go` | locals of one call; the database | glob, skip by mtime and mark, parse, insert, mark, commit, upsert workspaces, clean up | a file is skipped only if it is stored; a finished sync covers its window |
| **parsing** `go/internal/parsing`, `parseLogFileInRange` in `go/main.go` | none | regex and telemetry parsers, ranged and tail-limited reads | every usage record in range comes out once, with its model |
| **Codespaces sync** `go/internal/sync/service.go` | worker pool, start limiter, `codespace_sync_state` | list, skip tests, copy with retries, stop, ingest | no codespace with unseen logs is skipped; a started one is stopped; a failure does not hide the others |
| **web mode: syncs** `go/web_mode.go` | `refreshMu`, snapshot, `syncStatus`, loops | startup syncs, refresh and Codespaces tickers, `POST /actions/sync-codespaces`, streaming loop, rebuild | one sync action at a time; the snapshot agrees with the database and catches up with the logs and the calendar |
| **live updates** `go/web_mode.go`, `go/internal/http/dashboard_mux.go`, `go/internal/web/dashboard_runtime.go` | `subscribers` (a channel of one patch each), open streams | subscribe, broadcast, push latest, unsubscribe, close | the newest patch wins; no send on a closed channel; a page catches up |
| **costing** `go/internal/costing/service.go`, `go/pricing_data.go` | none | pricing period of a timestamp, cost, user turns | a call is priced by the period it falls in; one premium request per user turn |
| **statistics** `go/stats_service.go`, `go/main.go` | none | aggregation by model, project and day; snapshots | the totals of every breakdown agree |
| **import and export** `go/import_export.go` | database, files | JSONL and SQLite import, JSONL export | a round trip keeps every row; importing twice changes nothing; the reported count is right |
| **date windows** `computeBounds` in `go/web_mode.go`, `go/legacy_cli.go` | none | flags to bounds, roll over at midnight | the window is the days that were asked for |
| **tail prototype** `go/cmd/codespace-tail-proto` | offsets and digests, in memory and in SQLite | discover, full copy, tail, digest, recopy, checkpoint | the local copy is a prefix of the remote log, or is recopied |
| **command line** `go/legacy_cli.go`, `go/sql_cmd.go`, `go/cmd/copilot-token-cost` | none | flags, one sync, one report | as documented |
| **terminal status** `go/internal/termstatus` | one status line under a mutex | set, print, clear | lines do not interleave |
| **display, HTML** `go/internal/display`, rendering in `go/web_mode.go` | none | layout | (wording only) |
| **desktop app** `desktop/src-tauri/src` | settings file, sidecar process handle | start, stop, restart after a setting changed, quit | at most one sidecar; none after quitting |
| **earlier web layer** `go/internal/http/service.go`, `go/internal/web/service.go` | none | a shim `runWebMode` does not use | - |

How they interact.  The command line and the web server are separate operating
system processes that share the database file: SQLite's write lock is the only
thing between them.  Inside the server, the sync goroutines share `refreshMu`,
which is only ever tried (`TryLock`), never waited for; under it they call the
log sync or the Codespaces sync, set a status and rebuild the snapshot.  Every
change of status or snapshot is broadcast to the open `GET /events` streams
through channels that hold one patch.  Copilot itself writes the logs at any
moment, and a Codespace is copied into a directory that the log sync then
ingests.

What is hard here: files that grow while they are parsed, several processes on
one database, a crash between two of the steps that ought to go together,
errors that are dropped, a lock whose losers go away, work remembered as done
before it is done, a slow reader and a full channel, and windows that move at
midnight.  `PROJECT.json` lists each as a hazard at its line.

## 2. Plan

| module | subject | state of the work |
|---|---|---|
| `LogSync`, `LogSyncProofs` | the path every number takes | checked, proved |
| `Ledger` | what the log sync promises (proved in `PartsProofs`); that `LogSync` implements it (in `LogSyncProofs`) | checked, proved |
| `WebSync`, `WebSyncProofs` | the server's sync actions around it | checked, safety proved |
| `LiveUpdates`, `LiveUpdatesProofs` | from the snapshot to the pages | checked, safety proved |
| `CodespacesSync`, `CodespacesSyncProofs` | a Codespaces tick | checked, safety proved |
| `TailSync`, `TailSyncProofs` | the tail prototype and its table | checked, safety proved |
| `Costing`, `Statistics`, `StatisticsProofs` | prices, and the sums and tables made of the stored calls | checked, proved |
| `Windows`, `Transfer`, `Sidecar`, `PartsProofs` | date windows, import and export, the desktop app and its servers | checked, safety proved |
| `Parsing`, `ParsingProofs` | one log, read while it is written | checked, proved |
| `MCLogSync`, `MCWebSync`, `MCCodespacesSync`, `MCParts` | constants for TLC; `MCParts` also puts the parts and `Sidecar` into one specification | |

`WebSync` takes a sync as one step, and `LogSync` and `CodespacesSync` are the
two syncs it takes; `CodespacesSync` takes the ingestion of a copy as one step,
which is again `LogSync`; `LiveUpdates` publishes what `WebSync` makes.
`Statistics` and `Parsing` extend `Costing`.  Modules that are proved about have
no RECURSIVE operators.

The plan is carried out: every invariant that a run checks, and every action
property, is also a theorem.  Left to TLC are the liveness properties.

## 3. LogSync

`LogSync.tla` models `SyncLogsToDB` as a program counter per process (`pc`),
with one action per step that another process can tell apart.

| code | model |
|---|---|
| bounds from the window, glob | `Start` (also records in `req.goal` how long each log was, for the properties) |
| `DeleteParsedLogsBySource` (`--sync`) | `DeleteParsedLogs`, autocommitted |
| `ParsedMtimeByFile` | `ParsedMtimeByFile`, into the process's `known` |
| the tests on `Lstat` | `Skips`, `SkipFile`, `TakeFile` (which records `stat`) |
| `BeginLogSyncTx` | part of `TakeFile`; `BeginFails` |
| `parseLogFileInRange`, 4 MiB tail | `FirstRead`, `ParsedRecords`, `ReadFile`, `ReadFails` |
| `LogSyncTx.InsertRecord`, `.MarkLogParsed` | `InsertRecord`, `MarkLogParsed`: into `rows` and `marks`, under `lock` |
| `Commit` | `Commit`, `EndTx`; `CommitFails`, where SQLite undoes the transaction and `Rollback` finds nothing left to do |
| `LoadSessionWorkspaces`, upserts | `UpsertWorkspaces` |
| `CleanupUnknownDuplicates` | its two DELETEs: `CleanupUnknownDuplicates`, then `CleanupCorruptedTokens` and `Leave` |

The environment is `AppendRecord`, `AppendOther` (Copilot writes) and `Crash`.
`Faults` chooses what may go wrong: `crash`, `begin`, `commit`, `read` (a read
error is an empty result), `busy` (a statement runs out of its wait for the
write lock and its error is dropped: `busy_timeout` is set on one connection of
a pool), `sametick` (two writes within one millisecond of mtime).

Abstractions.
- A record is its position in its log and its time; whether its model was known
  when it was parsed is the Boolean in a row, because the same call stored
  twice, as `unknown` and under its model, is a *twin* that the clean-up merges.
- Tokens are left out but for what the clean-up's second DELETE compares: the
  constant `Usage` gives each record its model, prompt, completion and cached
  tokens.  That DELETE takes a row with fewer prompt than cached tokens for a
  misreading when a row of the same second (`SecondLen` ticks), model and
  completion tokens has more prompt tokens.  A call read with two token counts
  is two records; two calls whose rows would have one key are one record.
- How a COMMIT ends that SQLite refuses is SQLite's affair.  The `Rollback` after
  it (`service.go:213`) does nothing, for `database/sql` has ended the `Tx`; that
  the lock is free afterwards is an assumption about SQLite in WAL mode, stated
  at `CommitFails`, and no property is made of it.
- One value of the `source` column: every statement is keyed by it.
- Logs are never deleted, and the matches are visited in any order, where the
  code sorts them: this only adds behaviours.
- Windows are whole days of equal length in one time zone.
- A transaction takes SQLite's lock at its first write and other processes read
  the last committed state.

Properties.
- `SkippedFilesAreStored`: a mark that will make the next sync skip a file is
  never a lie.
- `SyncCoversWindow`: after its commit a sync has stored every record that was
  there when it started and is in its window - also those in files that it
  skipped on the word of another process.
- `ForcedSyncStoresEverything`: after `--sync`, nothing that was in any log is
  missing, within the bounds asked for (with `--all`, nothing at all).
- `TwinsAreTransient`, `TwinsHeal`: a call is counted twice only for a moment.
- `ParsedLogsHaveWorkspaces`: a parsed log has its project, or a sync is about
  to record it.
- `MisreadsHeal`: a row that is a misreading of another goes in the end.
- `CallsAreKept`: no step loses a stored call.  A record is `Stored` if it has a
  row, or if it passes for a misreading of one that has: the second DELETE may
  take a row only while a fuller one stays.  Two calls of one second that are
  alike but for their tokens, one of them with more cached than prompt tokens,
  would be taken for one; the code cannot tell either.
- `EveryRecordIsEventuallyStored`.
- `ImplementsLedger`: `LogSync` refines `Ledger`.
- `SyncInv`: the inductive invariant (section 12), checked as an invariant, as are
  `SnapshotInv` and `CodespacesInv` of two other modules.

`Ledger.tla` says the same of the whole database without processes,
transactions and scans: `Write` (the clock and the logs go on), `Deliver`
(records of some logs appear, in one step with marks that vouch for no more
than is there), `Forget` (marks go, records stay).  The mapping is in the
section *Refinement* of `LogSync`: `stored` are the committed rows by index,
with or without a model, and `vouched` the committed marks.  A commit is a
`Deliver`, `DeleteParsedLogs` is a `Forget`, and every other step of a sync is
one of these or a stutter, the clean-ups in particular, which only delete a row
whose twin, or the fuller reading of it, stays.

Fairness: a sync is started again and again (`WF` of `Start`: the web server's
ticker), and a sync under way goes on (`SF` of `SyncStep`: strong, because a
step may wait for SQLite's lock, which is granted in the end to one that keeps
asking).

## 4. WebSync

`WebSync.tla` models every goroutine that runs a sync action: the startup
syncs, the tickers' goroutines, POSTs and the local streaming loop.  `Begin`
and `Conflict` are the two outcomes of `TryLock` in `beginSyncAction`, `Lose`
is the late status write of the goroutine that was turned away (a startup sync
then retries, the others do not), and `Announce`, `Check`, `SyncLocal` or
`SyncCodespaces`, `Complete` or `Fail`, `ReadDatabase`, `Publish` and `Unlock`
are the steps of the action itself.  `Scan` and `Report` are the streaming
loop's.  A source's data is a version number, and ingesting it is one step:
that it may be skipped or lost is `LogSync`'s subject.  The failures are those
of the calls (`scan`, `check`, `sync`, `copy`) and a missing logs directory
(`nologs`).  `SyncCodespaces` ingests what there is or any older version, and
then either completes or, with the fault `copy`, fails: a tick also returns
without an error when it has skipped a codespace, when `SyncLogsToDB` failed and
returned 0, and when a codespace was stopped and so not listed.

Properties: `SnapshotShowsDatabase` (whenever no action runs, the dashboard has
every local record that is in the database, and none that is not),
`SnapshotNeverGoesBack` (reading the database and replacing the snapshot are
separate steps, and no older reading wins), `WritesAreShown` (every local write,
and every Codespaces write that has come into the database; which do is
`CodespacesSync`'s subject), `StartupEnds`, `InProgressPasses`;
and `EveryLocalWriteIsShown`, which does not hold of the streaming loop (section 14).

Fairness: tickers tick and a goroutine under way goes on.  A goroutine that
keeps trying gets `refreshMu` in the end (`SF` of `Begin`): the code polls
every 100 ms and holds are short; `MaxLost` bounds how often in a row it is
turned away.  No POST is ever assumed, and writes and midnights are not fair.

## 5. LiveUpdates

`LiveUpdates.tla` models `broadcast` and the `/events` handlers.  A snapshot, a
status and a patch are a version number.  `Rebuild`, and `SetSyncStatus`
followed by `GetSnapshot`, produce a patch; `Broadcast` takes `subscribersMu`;
`Offer`, `Drain` and `Retry` are the three non-blocking channel operations of
`pushLatestUpdate`, between which the handler may receive; `EndBroadcast`
releases.  A stream is `Subscribe`, `ReadSnapshot`, `WriteInitial`, `Receive`,
`Disconnect` and `Unsubscribe`, and `CloseSubscribers` is the server closing.
`Syncs` publish under `refreshMu`; `Tickers`, the status tickers of the
streaming modes, do not.  Heartbeats, indicator patches and quiet status
changes are left out: they carry no snapshot.

Properties: `NoSendOnClosedChannel`; `IdlePagesAreCurrent` (when nobody is
publishing and a stream has nothing to receive, its page shows the current
snapshot) for publishers under `refreshMu`; `PagesCatchUp` when a ticker
publishes outside it.  With a ticker `IdlePagesAreCurrent` does not hold: the
ticker may read version *n*, a sync may publish *n+1*, and the ticker's patch
goes out last; the next tick repairs it.

Fairness: goroutines go on and a mutex is granted in the end (`SF`), tickers
tick (`WF`).  No sync has to happen, no page to connect or to stay.

## 6. CodespacesSync

`CodespacesSync.tla` models `SyncCodespacesToDBTick` and `CopyCodespaceData`
step by step, with `Workers` copies under way at once, while users start, use
and stop the same codespaces.

| code | model |
|---|---|
| `ListCodespaces` | `ListCodespaces`, which also keeps in `seen` the logs of that moment, for the properties |
| skip as unchanged, skip as known, `ListRemoteLogFiles` over ssh | the `check` phase: one action per outcome |
| worker pool and `stoppedStartLimiter` | the number of copies past their queue, and `AcquireSlot` |
| `CopyCodespaceData`: ssh, `gh cs cp` with throttling retries, deferred stop and release | `stage` from `queued` to `done`, `tries`; `Leave` for every return |
| the loop over the results | the `ingest` phase: `IngestLogs`, `UpsertCodespaceSyncState`, `CountFailedCopy` |

Faults: the listing, both ssh commands, the temporary directory, `gh cs cp`
(for good, or throttled), the stop, the ingestion, a codespace that goes idle
and stops by itself, and a crash at any step.

Properties: `UnchangedMeansStored` (skipped as unchanged means stored),
`StartedHoldsSlot` (at most one codespace runs because of a copy, and none is
left so, whatever path the copy takes), `TickDelivers` (a tick that returns has
stored what it listed and had to copy, or reports it), `DatabaseCatchesUp`
(`[]<>CaughtUp`).  The last depends on the flag of the process, which
`MCCodespacesSync` adds as the variable `includeStopped`: with
`--codespaces-include-stopped` the database catches up with all codespaces,
without it, the default (`legacy_cli.go:71`), only with those that run: one that
stops before the next tick is not listed until it is used again.
Fairness: the web server's ticker calls the next tick with that flag
(`ServerTick`, `SF`, for other ticks may come in between), the tick goes on
(`WF`), and a copy goes on although it may have to wait for a worker and for the
slot (`SF`).  Users need not do anything.

The rules these properties are true under are part of what they show:
- A row of `codespace_sync_state` is written even when `SyncLogsToDB` failed
  (it returns 0); the ghost `lost` exempts those codespaces until the next
  ingestion.
- Without `--sync` a stopped codespace is skipped when the names of all its
  logs are known, although a known log may have grown (`service.go:671`;
  README.md:158 says known logs are skipped).  The `ssh` that asks for
  the names has started it, though, and a later tick finds it running and copies
  it, so `DatabaseCatchesUp` holds.
- With `--sync` the `lastUsedAt` skip still applies, although README.md:59 says
  that it re-parses all log files.

## 7. TailSync

`TailSync.tla` models the prototype's process: `StartProcess` loads the
checkpoints, `Reconcile` lists the remote logs and drops the vanished ones,
then each file goes through `Stat`, `Copy` (whole, or only what was appended),
`CompareDigests`, perhaps `DefensiveRecopy`, and `Checkpoint`; a session may be
reconnected once with everything copied again, and `Exit` and `StartProcess`
are a restart.  Copilot appends to a log, replaces it (also by one of the same
length) or removes it between any two of these steps.  A digest is the sampled
blocks; the samples of a log longer than twice the window miss what is between
them, so a mirror "agrees" in length and samples only.  `StreamStatus` is what
the dashboard makes of the table.

The table is in the database that the syncs write-lock, opened without a busy
timeout, and the error of every write of it is dropped (`main.go:426`, `492`,
`544`, `557`).  So each write may fail (the fault `store`): `UpsertFails`,
`MarkDisconnected` for some of the vanished logs only, and `FileGone`, where the
second of two writes may be the one that fails.  The old row stays and the
process goes on.

Properties: `QuietLogsAreMirrored`, `CheckpointsDescribeMirrors`,
`DroppedIsDisconnected`.  Ghosts name what the code lets go by, and the properties
except it: `torn`, logs whose defensive recopy failed half-way, which leaves the
old offset and digest with a new mirror; `undigested`, logs whose digest could not
be read in their last turn, where the comparison is skipped without a word
(`main.go:465`) and a log that was replaced by one of its length keeps its old
mirror; `unsaved`, logs whose last row was not written.  A log leaves them when the
copy, the comparison or the write succeeds.  A process that ends marks no row as
disconnected, and logs that vanish while none runs stay "connected": hence the
`inherited` rows in `DroppedIsDisconnected`.

There is no liveness property: the prototype runs for `--run-for` (45 s unless
told otherwise), any error of a session ends it, and nothing in the repository
starts it again.  `StartProcess` is its user.

## 8. The parts that compute

Their inputs are enumerated from small sets; each has one module, whose state is
the input that grows (rows in a database, lines in a log, flags on a day).

- **`Costing`**: names, pricing periods, multipliers, costs and
  `ReattributeUserTurns`, in whole units of money.
- **`Statistics`**: the query, the tables by day, model, project and hour, the
  command line's own project table and the daily spend.  A table is a function
  from keys to records; the nested maps of the code are one operator, `SumBy`,
  that merges entries whose keys become one key.  `TotalsAgree`: every table
  adds up to the calls selected, windows that meet neither share nor miss a
  call, and the hours shift with the viewer.  `CostsAgree`: costs along all
  paths agree, and where input is cut at zero they may differ in one direction
  only.  Two things `CostsAgree` does not claim because they are not so: in the
  JSON of the command line the premium requests of a project are priced by the
  latest period (`legacy_cli.go:453`), and its projects go by their own
  directory's name, without the merge of a codespace's workspace into the local
  project of that name, which also depends on the directories in the window.
- **`Windows`**: every combination of the date flags becomes a window on both
  paths.  `WindowsAgree`, `WindowIsWhatItSays`, on the day of the start and after
  midnights.  A positional `0` is an empty report and a week on the dashboard.
- **`Parsing`**: one log as a sequence of lines of five kinds, both parsers as
  loops over it, reads of a window or a tail, and the rows that repeated syncs
  leave.  `CallsCountOnce`, `TurnsAreCharged`.
- **`Transfer`**: two machines that sync, export, copy and import.  A sync has a
  window, stores the calls in it and marks the log whatever it left out
  (section 14).  The import of a database copies calls, workspaces (left out
  here) and marks, each in a statement that commits by itself: it may fail, without
  notice, or the process may die between two (`ImportStatement`, `StatementFails`,
  `ImportKilled`); of a JSON file any lines may be lost.  `MarksVouchForCalls`: marks travel with a database, and
  whatever is imported, older copies included, and wherever an import is killed,
  no mark vouches for calls that are missing, from the narrowest window on that
  the log was synced with (`since`).  That is due to the order of the statements,
  calls first, as the mutant shows.  It does not help when the INSERT of the calls
  fails and that of the marks does not: such logs are in the ghost `hollow` and
  excepted, with all copies, until a sync reads them.

## 9. Sidecar

`Sidecar.tla` models the desktop app (`app`, `settings`, `saved`), the handle of
its server (`child`), every server ever started, and the threads of `restart`
that sleep (`restarts`).  `ChangeSetting` is the menu handler with
`save_and_restart` (the lock on the settings is held for all of it), `Respawn`
the thread after its sleep, `Setup`, `Quit`, `Exit` and `ExitProcess` the app's
life, `Listen` the server's attempt to take the port, which ends the process if
another has it.  Faults: a failed save, a failed start in a thread, a server
that dies, an app that is killed.

`DashboardIsServed`: when nothing is under way, some server answers, and, unless
a change or an exit overtook a waiting restart (the ghost `abrupt`), it has the
current settings.  `NoOrphans`: under the same condition the app holds the
handle of every server.  The condition is needed; see section 14.

## 10. What the modules share

The locks are the interfaces: SQLite's write lock (`LogSync.lock`), `refreshMu`
(`WebSync`, and the publishers `Syncs` of `LiveUpdates`), `subscribersMu`
(`LiveUpdates`), the start slot (`CodespacesSync.slot`).  What one module assumes
of another is one of its properties: `WebSync`'s one-step local sync is
`Ledger`'s `Deliver`, which `LogSync` is proved to implement; its failing
Codespaces sync that has ingested a part is `TickDelivers` with `failed`
non-empty; `TailSync` writes the table whose status `WebSync` leaves out.

## 11. Fault models

| module | faults |
|---|---|
| `LogSync` | crash at any step, failed begin, commit, read, busy statements, two writes in one tick of mtime |
| `WebSync` | failed scan, check, sync, copy, missing directory |
| `CodespacesSync` | each external command, throttling, timeouts, ingestion, crash |
| `TailSync` | failed stat, copy, recopy, digest, write of the table; reconnect; restart |
| `Transfer` | failed statements, lost lines, killed imports |
| `Sidecar` | failed save and start, death of the server, death of the app |
| `LiveUpdates` | streams that go away at any moment, server close |

## 12. Proofs

For any number of processes, goroutines, logs and pages and any values of the
bounds.  Each module's `ConstantsAssumption` is the only assumption on its
constants, besides those in the last column.

| module | theorem | says | assumes |
|---|---|---|---|
| `LogSyncProofs` | `TypeCorrect` | `Spec => []TypeOK` | - |
| | `CallsStay` | `Spec => CallsAreKept` | - |
| | `MarksAreHonest` | `Spec => []SyncInv` | `Benign` |
| | `SkippedIsStored` | `Spec => []SkippedFilesAreStored` | `Benign` |
| | `SyncIsComplete` | `Spec => []SyncCoversWindow` | `Benign` |
| | `TwinsAreCleanedUp` | `Spec => []TwinsAreTransient` | `"busy" \notin Faults` |
| | `WorkspacesAreRecorded` | `Spec => []ParsedLogsHaveWorkspaces` | `"busy" \notin Faults` |
| | `ForcedSyncIsComplete` | `Spec => []ForcedSyncStoresEverything` | `Untruncated` |
| | `LogSyncIsLedger` | `Spec => ImplementsLedger` | `Benign` |
| `WebSyncProofs` | `TypeCorrect` | `Spec => []TypeOK` | - |
| | `SnapshotIsOrdered` | `Spec => []SnapshotInv` | - |
| | `SnapshotIsComplete` | `Spec => []SnapshotShowsDatabase` | - |
| | `SnapshotIsMonotone` | `Spec => SnapshotNeverGoesBack` | - |
| `LiveUpdatesProofs` | `TypeCorrect` | `Spec => []TypeOK` | - |
| | `NoSendPanics` | `Spec => []NoSendOnClosedChannel` | - |
| | `PatchesAreDelivered` | `Spec => []LiveInv` | `Tickers = {}` |
| | `IdleIsCurrent` | `Spec => []IdlePagesAreCurrent` | `Tickers = {}` |
| `CodespacesSyncProofs` | `TypeCorrect` | `Spec => []TypeOK` | - |
| | `TablesAreHonest` | `Spec => []CodespacesInv` | - |
| | `SkippedIsStored` | `Spec => []UnchangedMeansStored` | - |
| | `OneAtATime` | `Spec => []StartedHoldsSlot` | - |
| | `TicksDeliver` | `Spec => []TickDelivers` | - |
| `TailSyncProofs` | `TailTypeCorrect` | `Spec => []TypeOK` | - |
| | `QuietIsMirrored` | `Spec => []QuietLogsAreMirrored` | - |
| | `CheckpointsAreTrue` | `Spec => []CheckpointsDescribeMirrors` | - |
| | `DroppedIsNotConnected` | `Spec => []DroppedIsDisconnected` | - |
| `PartsProofs` | `LedgerIsHonest` | `Spec => []Honest` (of `Ledger`) | `WindowMovesForward` |
| | `FlagsMeanTheSame` | `WindowsSpec => []WindowsAgree` | - |
| | `WindowsMeanTheirDays` | `WindowsSpec => []WindowIsWhatItSays` | - |
| | `ImportsVouchForMarks` | `TransferSpec => []MarksVouchForCalls` | - |
| | `NoServerIsOrphaned` | `SidecarSpec => []NoOrphans` | - |
| | `AServerAnswers` | `SidecarSpec => []DashboardIsServed` | - |
| `StatisticsProofs` | `PeriodIsTheNewest` | `GetPeriod` finds the newest period that has begun | - |
| | `MergingHasNoOrder` | `MergeStats` is commutative and associative, with unit `NewStats` | - |
| | `MergedIsNotDearer` | pricing a sum is at most the sum of the prices, and equal for `Sound` entries | - |
| | `WindowsShareNoCall` | `StatisticsSpec => []WindowsMeet` | - |
| | `HoursShift` | `Hour` moves with whole-hour offsets | - |
| | `SumByIsGroups` | `SumBy` gives each key the total of its entries | - |
| | `DailyIsOfCalls`, `ProjectDailyIsOfCalls` | the two tables have for each key the sum of its calls | - |
| | `SumsAlwaysAgree` | `StatisticsSpec => []TotalsAgree` | - |
| | `CostsAlwaysAgree` | `StatisticsSpec => []CostsAgree` | - |
| `ParsingProofs` | `LogIsRead` | what `ParseLogContent` reads of a log, call by call | see below |
| | `TurnsMoveOn` | what `ReattributeUserTurns` does to any calls | - |
| | `NoCallIsMissed` | `ParsingSpec => [](fresh => ...)`: after a sync of the whole log every reported call has a row | - |
| | `CallsAreCountedOnce` | `ParsingSpec => []CallsCountOnce` | - |
| | `TurnsAreChargedOnce` | `ParsingSpec => []TurnsAreCharged` | - |

**LogSync.** `SkippedFilesAreStored` is not inductive: a mark becomes visible
at `Commit`, long after its file was looked at. `SyncInv` follows the promise
*"every record in the window that was written up to time m is stored"*
(`Covers`) from where it arises to where it is used: `HandInv` - what has been
read covers the file up to the `Lstat` taken before the read; `TxInv` - every
mark in a transaction is covered by its rows together with the table;
`TableInv` - so is every committed mark; `KnownInv` - so is every mark a
process has loaded, and it stays so, because the table only loses rows that
have a twin or a fuller reading, and the window only moves on; `DoneInv` - a file that has been
passed, by parsing it or by skipping it on such a mark, is delivered. The proof
has a lemma for what any step leaves intact (`StepGrows`, then `TableKept`,
`KnownKept`, `TxKept`, `ReqKept`, `DoneKept`, `HandKept`), one for each
action's own process (`StartInv` ... `WorkspacesInv`) and one for the commit
seen by the others. `Benign` is what the code needs for this to be true, and
each conjunct is needed: one window that reaches today (otherwise see section
14), reads that are not cut to the tail, and none of the faults `read`, `busy`
and `sametick`. Crashes, failed begins and failed commits are allowed.
`CallsStay` takes no invariant but `TypeOK`: a record that has a row keeps it, or
its twin, through the first DELETE; of the rows that the second one finds
corrupted, the one with the most prompt tokens of its kind stays, and stands for
the others, for `Misread` is transitive.

Three more results do not need `Benign`.  `TwinInv`: twins are in the table only
while some process has its clean-up still to run, or after a fault; twins of a
transaction are not visible before its commit, which puts its process among
those.  A committed mark has its workspace or a process that is about to record
it; that takes `MarkedExist`, that marks, loaded marks and files in hand are of
logs that exist, for the upserts are of those only.  Both exclude only `busy`,
because the code drops the error of a statement that ran out of its wait for the
lock, so that the clean-up and the upserts may silently do nothing.
`ForcedInv` follows a forced sync: it has no marks to skip by, so a log that it
has passed is stored up to `req.goal`, in its transaction or in the table.
`Untruncated` says what that needs: no log is cut to its tail (a window with
`--all`, or logs shorter than the tail), and neither reads nor statements fail
unnoticed.  The windows may start and end on any day.

**WebSync.**  `MutexInv` says that exactly the holder of `refreshMu` is inside a
sync action; hence between `ReadDatabase` and `Publish` nobody else ingests or
publishes, and what was read is still the database (`SeenInv`).  `LocalInv` adds
that the snapshot lags the local records only inside the action that has just
ingested them: every failing path of a local sync leaves before it ingests.

**LiveUpdates.**  `BroadcastInv` ties `subscribersMu` to the publisher that is
sending and keeps what it has left to serve among the subscribers; with
`ChannelInv`, whose channels are open, that is `NoSendOnClosedChannel`.  For
`IdlePagesAreCurrent`, `DeliveryInv` says of every subscriber that the newest
patch is in its channel, or on its page (or in the hand of a handler that has
yet to write it), or still to be delivered by a publisher.  It needs `PatchInv`
- a patch stays the current one until it is sent - which is where `refreshMu`,
and so `Tickers = {}`, comes in.

**Ledger.**  `Honest` - every mark's log is stored up to the mark, as far as it is
wanted now - is inductive by itself once wanting only shrinks as time passes
(`WindowMovesForward`).  `LogSyncIsLedger` maps each action: the commit is the one
that needs `SyncInv`, because only `TxInv` knows that the marks of the
transaction are covered by its rows together with the table; the clean-ups need
that they delete a row only if its twin, or a fuller reading of it, is there.

**CodespacesSync.**  `CodespacesInv` joins what the listing said with what
happened since.  `SeenInv`: nothing in a codespace goes back, and while
`lastUsedAt` is the listed one so are the logs.  `RowInv`: a row's `lastUsedAt`
is at most the listed one, and when it is the same the logs are stored;
this is inductive only because the row gets the *listed* `lastUsedAt`, not the
one at the time of the copy.  `CopyInv`: a copy is at least as new as the
listing.  `SlotInv`: the slot is held from before the first command that may
start a codespace until after its stop, on every path.  `PhaseInv` keeps the
phases of a tick apart.  `TicksDeliver` adds one more invariant for what the check
phase has decided.  No assumption beyond `ConstantsAssumption` is needed: all
faults are allowed.

**TailSync.**  `TailInv` adds to what the properties say of files whose turn is
over the hand of the poll: `TurnInv`, whose turn it is and who is owed a full
copy; `OffsetInv`, an offset is the length of its mirror; `SizeInv`, the size
from the `Stat` is still the length of a log that stays quiet; `QuietInv`, what
is established of a quiet file at each step of its turn; `RowInv`, the digest
that is about to be stored is that of the mirror; `StreamInv`, connected rows are
followed, inherited or unsaved.  Every fault is allowed, failed writes of the table
included; what the code lets go by is excepted log by log, in `torn`, `undigested`
and `unsaved` (section 7), and nothing else is assumed.

**Windows, transfers, the desktop app.**  `FlagsMeanTheSame` goes through the
branches of `runLegacyCLI` in their order; `WindowsMeanTheirDays` through the
kinds of windows a command line may become.  `ImportsVouchForMarks`: that the marks
of a database vouch for its calls (`Vouches`) is kept by a sync, whose window begins
no later than the narrowest, by imported lines, and by copies; for imported marks
`TransferInv` adds what the order of the statements gives: an import that is past
the calls, and did not miss them, has all calls of the copy in the database, beside
whatever was synced since.  Statements may fail and imports be killed anywhere; the
property's two exceptions, `since` and `hollow`, are the theorem's.  For the desktop app,
`HandleInv` says that, unless `abrupt`, a waiting restart is the only one, has the
current settings and no server runs beside it, and that nothing runs once the
app is ending; `ServedInv` that a running app without a waiting restart has a
server unless one has died.

**Prices and statistics.**  `StatisticsAssumption` says that times and token counts
are natural numbers, and window ends times; `PricingAssumption` that the table of
periods is one.  The folds are reasoned about once: induction over the subsets
of a finite set (`SubsetInduction`, from the well-founded strict-subset ordering
of `FiniteSetTheorems`) shows that a fold exists and is unique (`FoldExists`,
`FoldUnique`), that `GrandTotal` adds its entries in whatever order
(`TotalWithout`), and that `SumBy` gives each key the total of its entries
(`SumByIsGroups`).  From there on no fold is opened.  Totals split over disjoint
parts (`TotalSplits`), groups of groups are groups (`GroupsOfGroups`), and an
*additive* function of entries may be applied before or after merging
(`TotalMaps`, `GroupsMap`).  Pricing is additive in all fields but the cost, and in
the cost too for entries that are `Sound`; `View(whole)` looks at an entry in
either way.  So `IsOfCalls` holds of the tables of days and of projects: they look
like the sums of the calls under the keys that the calls end up with, whatever
raw groups they went through.  `TotalsAgree` follows from its weaker view, the
equalities of `CostsAgree` from the whole one.  The inequalities follow from
`MergedIsNotDearer` carried over groups (`PricedSumsAreNotDearer`) along days,
projects, raw groups and calls: the table of days is at the same time a table
of sums of projects (`DailyShape`).  The trends add up because their days are
disjoint parts (`TrendAddsUp`).  The invariant this takes of the state is only
that the rows are a finite set of `Rows`: nothing is assumed of how they came
into the database, or of the workspaces.

**Parsing.**  The parsers, `ReattributeUserTurns` and the storing of rows are loops,
written as recursive functions `after[i]`.  `LoopExists` shows that such a function
exists, by putting it together from shorter ones; then each loop is told, by
induction along the lines, what it knows after line i *in terms of the lines
alone*: `DayAt` (the last stamp), `UserAfter` (the last initiator, if no call
has come since) and `ModelAfter` (the last model named; before any is named,
the one found further down by the first call that finds one).  From there on
no loop is opened.  `LogIsRead` puts the loops together.  It assumes what
Copilot's logs are like, that calls are numbered as they come, and that the log
is read whole or has one format and names a model before its first call: with a
window the model that an earlier call finds ahead is not found, since
calls outside the window are passed over before the search.

`ParsingInv` is then: what a log may contain (`LogInv`; in particular an event
has a new number, and a line with tokens repeats at most that of an event); rows
differ in their keys, and rows of one call and day all have a model or none
(`KeysDiffer`, `NoUnknownTwin`, which the clean-up restores); and each row *is of a line*: its call, its day, and
its model or none (`IsRowOf`).  The last is why a call has one row: rows of one
call are of one line (`SameLine`), hence of one day and, by `NoUnknownTwin`, of one
model, and so have one key (`OneRow`).  It stays true when the log grows
because a model that is known for a line is still the same with more lines
behind it (`KnownStays`), which holds only because `ModelFor` takes the *first*
model ahead and lines come at the end; one that was not known may become known,
and the older row is the twin that the clean-up deletes.  It is claimed only
while the log was read in one way (`ReadInOneWay`); `NoCallIsMissed` needs no
such condition.  `TurnsAreCharged` follows after a sync of the whole log from
`TurnsMoveOn` for the calls read, the order of calls being that of their lines
(`Positions`), and from the fact that the row of a call is the one just
inserted (`OnlyRow`), so that no older row keeps another turn.  The number of
lines, calls, days and syncs, the windows, the search distances and the table
of prices are arbitrary.

Only model-checked: the liveness properties (fairness and ENABLED are beyond
the prover).  The
type invariants of `LogSync`, `LiveUpdates` and `CodespacesSync` are conjuncts of
what the runs check or are left to the proofs.

## 13. Runs

| run | instance | what it shows |
|---|---|---|
| `LogSyncWindow` | 2 processes, 2 logs of up to 2 records, 2 ticks = 2 days, today's window, forced or not, 1 fault | `SyncInv`, honest marks, coverage, transient twins, workspaces, refinement of `Ledger` |
| `LogSyncFaults` | 2 processes, 1 log of up to 2 records, the second a misreading of the first, a tail of 1, all six faults, 2 of them | no call is lost |
| `LogSyncLive` | 2 processes, 1 log of up to 2 records, the first a misreading of the other, both in one second, `--all`, `FairSpec`, 1 fault | every record is stored, twins and misreadings heal, `--sync --all` stores everything |
| `WebSyncAuto` | both startup syncs, streaming loop, Codespaces ticker, a POST, 1 midnight, 1 fault of any kind | `SnapshotInv`; the snapshot is that of the database and never goes back |
| `WebSyncLive` | both startup syncs and both tickers, `FairSpec`, 1 fault | every local write, and what the database has of Codespaces, is shown; startup ends, no status sticks |
| `LiveUpdatesSync` | 2 publishers, 2 pages, 3 versions | current pages, no send on a closed channel |
| `LiveUpdatesTickers` | 1 publisher, 1 ticker, 1 page, `FairSpec` | pages catch up |
| `CodespacesSync` | 2 codespaces, 1 log each, 2 workers, 2 tries, 2 uses, ticks forced or not, with and without stopped codespaces, `MCSpec` (fair), 1 fault of any kind | skips are sound, one start at a time, a tick delivers or reports, the database catches up; `CodespacesInv` |
| `TailSync` | 2 logs of up to 2 blocks of 2 contents, window 1, 2 changes, 1 fault of any kind, restarts | mirrors, checkpoints and the dashboard's status |
| `Parts` | 3 rows over 4 days and 2 pricing periods; all flags with numbers to 3; logs of 6 lines and 2 calls read twice; 2 machines, one of them with a log of 2 calls, with windows that move past them; 3 setting changes and 5 servers | sections 8 and 9 |
| `LogSyncYesterday` | 1 process, 1 log | a divergence, section 14 |
| `WebSyncLostChange` | streaming mode | a divergence, section 14 |

Bounds.  Two processes are enough for one to act on the other's mark, lock or
half-finished commit; two logs for a transaction with one log parsed and one
skipped or still to come; two records for a log that grows after its first was
stored or that is cut to a tail of one; two ticks of a day each for an append
during a parse and a midnight in the middle of a sync.  In `WebSync` each kind
of goroutine occurs once, and a source is empty, or written before or during
the run: a lost or stale version needs no more than one change.  In
`LiveUpdates` three versions are an old patch in the channel, a newer one in
hand and a still newer snapshot.  Two codespaces and two workers compete for the
slot while two uses move a `lastUsedAt` after the listing and after the copy.
With a window of one block, logs of two blocks have a head and a tail sample
that differ, and a replacement may keep either.  Three rows can be two on one
day and project and one elsewhere; the pricing periods differ in price, premium
cost and the models they name.  Six lines hold a call, its model before or after
it, an initiator and a second call.  Three changes of a setting are one restart
that waits while two more overtake it.  The processes of `LogSync` are
interchangeable, so the safety runs use symmetry; the liveness runs do not.
Much of the safety is proved for every instance anyway.

Deadlock is checked in every run but `Parts`: a server always can go on,
`LogSync`'s processes can always start again, a codespace can always be ticked
and the prototype always be restarted.  The parts in `Parts` are inputs that
stop growing at their bounds, so there stopping is no error.  `Parts` runs one
part in each behaviour; they share only constants, and none has liveness.

Every property has a mutant: an operator in the module, marked *Mutant*, that
changes an action the way a plausible bug would and makes TLC find the property
violated.

## 14. Where the code does not do what is said of it

With a run that TLC finds violated, and an entry under `findings`:

- `LogSyncYesterday`: the end of a window is applied to a file's mtime, so
  `--yesterday` skips every log that has been written to today.
- `WebSyncLostChange`: the streaming loop stores its new scan before it tries to
  sync; when the sync is turned away, that change is not tried again.

Met while modelling, without a run:

- A file is marked as parsed although only the records in the window of that
  sync were taken from it.  A later, wider window (`--all`, more days) skips it
  and lacks its older records, until the file changes.  `--sync` without `--all`
  does the same: it deletes the marks but parses the window only, and marks the
  files again.
- An import whose INSERT of the calls fails still imports the marks
  (`import_export.go:190-208`), and later syncs skip those logs.
- The prototype skips the comparison of digests when the remote one cannot be read,
  and drops the errors of its own table's writes: the dashboard may show old
  offsets, or a vanished log as connected.
- By default the web server lists no stopped codespaces: what a codespace logged
  after its last copy is not seen until it runs during a tick again.
- With local streaming nothing rebuilds the snapshot at midnight while no log
  changes (`web_mode.go:3385`): yesterday stays on the page.  The test
  web_mode_test.go:2496 wants that "today mode should roll forward across
  midnight"; `computeBounds` does, the page does not.
- `--period` together with `--today`, `--yesterday`, `--from` or `--all` leaves
  the report unbounded while the dashboard follows the other flag
  (`legacy_cli.go:231-260`).
- With stopped codespaces included a codespace is stopped again if it was stopped when it
  was *listed*: one that its user has started meanwhile is stopped under them,
  and one listed as running that has stopped by then is started without the
  limiter and left running.  `ListRemoteLogFiles` starts a stopped codespace, and
  leaves it running when all names turn out to be known.  A codespace without
  Copilot logs makes every tick an error.  An empty list is reported as "failed
  to list codespaces".
- Two settings changed within half a second start two servers for one port; the
  one with the older settings may win it while the app holds the handle of the
  other.  Later changes then never take effect, although README.md:84 says that
  changes restart the server automatically.  A change just before quitting
  leaves a server behind.
- A ranged read of a log that has telemetry outside the window only falls back
  to the regular expressions and may count calls twice; so may a read of a
  window or a tail that lacks the model named before a call, since it may find
  another one.  A tail also loses the date, model and session that precede it.
  A model named within 15 lines after a call is not looked for
  (`regex.go:131-141`).  A ranged re-parse may clear the user turn that a full
  parse had moved to a later call.
- A JSON line longer than the scanner's 1 MiB buffer silently ends the import
  (`import_export.go:82`).

Weaknesses that the model shows when its constants let them happen, without a
run of their own: with `busy`, `read` or `sametick` in `Faults`, or logs longer
than `TailRecords` under a window, `SyncCoversWindow` or
`SkippedFilesAreStored` fails, because the file is marked all the same; when a
process dies between its commit and the workspaces, `ParsedLogsHaveWorkspaces`
is not restored until a log changes; and a goroutine that loses `refreshMu`
leaves its source as `sync_in_progress`, which only that source's next action
takes back.

## 15. Not modelled

- **Shutdown** of the web server: `close()` runs only when listening or serving
  has failed, and the process ends right after; the loops it waits for and the
  syncs it does not wait for have nothing left to damage that a crash
  (`LogSync`) would not.
- **Terminal status**: each method is one critical section of one mutex around a
  write to the terminal.
- **Display, HTML, table layout, flag parsing, the `sql` command**: pure
  functions or one statement; no state.
- **The earlier web layer** (`internal/http/service.go`,
  `internal/web/service.go`): a shim that `runWebMode` does not use.
- **Web mode**: row toggles, patch texts, the Codespaces streaming status
  ticker, the forced recopy of a log that shrank, local checkpoints, the console
  status line.
- **Storage**: opening and migrating the schema, `ClearSource`, `InsertRecords`.
- **Statistics**: top lists, shares guessed from models (`SpendAgrees` shows they
  are never needed), streaks, tiers, rounding.
- **Time**: zones, daylight saving and the text of timestamps; hours are shifted
  by whole offsets.
- **Tail prototype**: `--remote-file`, resolving the ssh target.
- **Import**: workspaces, which are copied between the calls and the marks, older
  schemas, rows with NULL in their key (each import adds them again), the printed
  count (that of the last statement only).
- **Desktop app**: menu, tray, window; a `settings.json` torn by a crash, which is
  read as the defaults.
