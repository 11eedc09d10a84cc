# PyCalendar in TLA+

PyCalendar is a desktop calendar written in Go. It keeps events in a SQLite
database, shows them in a Fyne window behind a tray icon, reminds the user, and
synchronises calendars with CalDAV servers and with Microsoft Graph. This
directory holds TLA+ specifications of the parts of it whose correctness
depends on the order in which things happen, the TLC configurations that check
them on small instances, and proofs of the properties that hold at any size.

## The system

| Component | State | Operations | Talks to |
|---|---|---|---|
| Sync Engine, scheduling (`syncer/engine.go`) | adapters, statuses, a mutex per calendar, `stop`/`done` channels | `RegisterAdapter`, `UnregisterAdapter`, `Sync`, `SyncAll`, `run`, `Stop` | adapters, tray, dialogs |
| syncwire (`syncwire/syncwire.go`) | the running engine | `Start`, its stop function, `RegisterCalendar`, `UnregisterCalendar`, `SyncNow` | engine, calendars table, config |
| Sync of one calendar (`syncOne`, `drainOutbox`, `pushOne`, `applyChange`) | the loaded `SyncState` | push the outbox, pull, apply, save | server, local store, Conflict Queue |
| Adapters (`caldav`, `msgraph`) | ETags, sync token | `FetchChanges`, `PushChange`, `DeleteRemote` | server |
| Sync state, Conflict Queue (`state.go`, `conflict.go`) | tables `sync_state`, `conflicts` | load, save, record, resolve, prune | store, Alerts tab |
| Event API and outbox (`api/api.go`, `outbox.go`, `remote.go`, `import.go`) | tables `events`, `sync_outbox` | create, update, delete, import, the `...FromRemote` writes | user interface, engine |
| Recurring events (`api/expand.go`, `recurring_ops.go`, `ui/event_detail.go`) | masters, exceptions, the open event window | expand, edit in three scopes, delete | Event API |
| Calendar windows (`ui/window.go`, `api/calendar.go`) | table `calendars`, open Add, Edit and Delete windows | save, delete, reassign the events | syncwire, credentials, Event API |
| Credentials (`credstore`, `keychain`, `msgraph/oauth.go`) | OS keyring, `credential_index` | store, load, rotate, uninstall | windows, adapters |
| Microsoft sign-in (`graphauth`) | a loopback listener per press of Connect | await the browser, exchange the code, deliver to the window | windows |
| Reminder daemon, configuration (`daemon`, `config`) | `notified`, `config.toml` | poll, notify, load, save | Event API, notifier |
| Process (`main.go`, `ui/tray.go`, `singleinstance`, `ui/import_dialog.go`) | mutex, named pipe, pending import, `fyneApp` | start, quit, forward a path, open it | everything above |
| Storage (`storage.go`) | connection pool, `schema_version` | open, migrate | every process mode |
| Grid layout (`ui/grid.go`) | the blocks drawn | group, split, draw, tap | the views |
| Categories, attachments, forms of the settings | | single statements | |

All user operations run on the event loop of the user interface, one callback
at a time, but a callback is a sequence of SQL statements: no transaction spans
two of them, and the background goroutines work on the same tables through a
pool of one connection. What is hard about the system follows from that:

* interleaving: the ticker's goroutine, a goroutine per Sync Now click, the
  event loop, other clients of the server;
* atomicity: a sync reads a row, decides, and writes it later; `DeleteEvent`
  reads the resource URL and deletes later; a split of a series is three
  statements;
* failure: a push, its reply or the body of the reply is lost, the delta token
  expires, a statement fails, the process dies anywhere;
* staleness: ETags, `last_sync_at`, the row an event window was opened on;
* waiting: mutexes, a stop function that waits for the loop;
* processes: a tray, a status bar that runs every second, a second launch and
  an uninstaller share a file, a keyring, a mutex and a pipe, and each may die.

What makes each component correct: the engine syncs a calendar from one
goroutine at a time, never forgets a registered calendar, and stops when asked.
A sync loses no edit of either side, duplicates no event, reports a conflict
when it overrides the user and only then. The views agree on what a series
looks like, and an edit touches what its scope names. A calendar keeps valid
credentials of its own, uninstall finds every secret, and no event outlives its
calendar. One tray runs, on the newest schema, whoever migrates beside it. The
grid shows overlapping events side by side and every event can be opened.

## Modules

Constants and their assumptions are declared in each module; `MC` modules only
define the values a configuration substitutes.

| Module | What it is |
|---|---|
| `CalendarMutex` | abstract: a calendar is synced by one goroutine at a time |
| `SyncEngine` | the engine's goroutines, `syncwire`, process start and stop, calendar dialogs |
| `SyncEngineMC`, `SyncEngine.cfg` | two calendars, one Sync Now goroutine |
| `SyncEngineProofs` | theorems about `SyncEngine` |
| `EventStore` | the tables of one calendar and the user's handlers |
| `SyncCalendar` | EXTENDS `EventStore`: syncs of one calendar, a server with other clients, the Conflict Queue |
| `SyncCalendarMC`, `SyncCalendar_*.cfg` | its instances |
| `SyncCalendarProofs` | theorems about `SyncCalendar`, whatever number of engines syncs the calendar |
| `SyncOrderProofs` | EXTENDS `SyncCalendarProofs`: theorems about the calendar when one engine does |
| `Series`, `Series*.cfg` | recurring events: expansion and editing |
| `SeriesProofs` | theorems about `Series` |
| `Settings` | `config.toml`, those who read it and those who write it |
| `Reminders` | EXTENDS `Settings`: the reminder daemon |
| `RemindersMC`, `Reminders.cfg` | one event, two writers of `config.toml` |
| `RemindersProofs` | theorems about `Reminders` |
| `CredentialStore` | keyring, credential index, the uninstall process |
| `Accounts` | EXTENDS `CredentialStore`: the calendar windows, the sign-in, what a sync does with secrets and events |
| `AccountsMC`, `Accounts.cfg` | two calendar IDs, two goroutines |
| `AccountsProofs` | theorems about `Accounts`: first its secrets, rows and events, then its tokens |
| `Schema` | `InitDB` of several processes on one file |
| `Launch` | EXTENDS `Schema`: mutex, pipe, forwarded paths, start and end of the modes |
| `LaunchMC`, `Launch.cfg` | three processes |
| `LaunchProofs` | theorems about `Launch` |
| `Layout`, `LayoutMC`, `Layout.cfg` | the columns of a day and the tap |
| `LayoutProofs` | theorems about `Layout` |

### SyncEngine

One action per step a goroutine can be preempted after: `SyncNow` chooses the
engine, `Lookup` finds the adapter again, `Acquire` takes the mutex of
`calLock`, `BeginSync` and `FinishSync` are the two `setStatus` calls, `Release`
the deferred `Unlock`. `Tick`, `StartSyncAll`, `NextCalendar`, `EndSyncAll` and
`LoopExit` are `Engine.run`; `CloseStop`, `AwaitDone` and `Exit` the stop
function as the tray calls it. Dialogs are two steps because the row is
written before the engine hears of it. What happens inside a sync is left to
`SyncCalendar`. A throwaway engine of `SyncNow` (`mode = "tmp"`) has locks and
statuses nobody else sees, so they are not represented. The order in which
`SyncAll` visits its copy is any, as in a Go map.

### EventStore and SyncCalendar

Tables are sets of records. The title, times and rule of an event are one
`content`: who wrote it, and a number, so that no two edits look alike.
`newer` stands for `updated_ts > last_sync_at`; because both columns count
seconds, an edit may or may not look newer and the model takes both. `user` is
the handler the event loop is in: `UpdateEvent` is UPDATE, `Reread`, `Enqueue`,
with the process free to die or the sync to step in between. `unqueued` and
`reached` are history variables for the properties; no guard reads them.

In `SyncCalendar` a worker is a goroutine in `syncOne`. `StartSync` takes the
mutex and loads the state; `LoadOutbox`, `ReadEvent`, `Push`, `Link`,
`ClearEntry` are `drainOutbox`; `Fetch` to `WriteChange` the pull; `Finish` the
save. The failing variants (`PushFails`, `PushUnread`, `LinkFails`,
`FetchFails`, `WriteFails`, `SaveFails`) follow the error returns. The two
adapters differ in `Target`, `Matches`, `AcceptsPush`, `CalDAVChanges` and
`GraphChanges`. The server is external: it gives each change a sequence
number, from which ETags and delta tokens come.

Abstractions: the pages of a Graph delta are fetched in one step; an
`If-Match` whose ETag was taken from a header or from a multistatus are the
same tag; a failed `LoadSyncState` is no step, since the sync then does
nothing; `SetCalendarLastSynced` writes a column only the settings show.

### Series

`rows` holds masters and exceptions of a local calendar, `dlg` the event window
and its scope dialog. `GetEvents(lo, hi)` is the query and `expandEvents`;
`Shown(d)` is what the views show on a day. `Open`, `SaveRow`,
`SaveOccurrence`, the three scopes (`JustThis`; `Split`, `Trim`, `NewSeries`;
`AllEvents`, `Clear`), `Cancel` and `Delete` are the callbacks, cut at each
statement whose failure leaves something behind. A tick stands for a second:
midnight is tick 0 of a day and the other ticks are the times an event may
have. The rule is a daily one, local time is UTC, one event window is open at
a time, and COUNT, which the Add Event dialog never writes, is left out.

### Settings and Reminders

A writer of `config.toml` loads it, changes a field of its own and calls
`Save`, which is two actions: `CreateFile` (os.Create empties the file) and
`WriteFile`. `Load` of the empty file is Go's zero value, which turns
notifications off, and of a file two writers have mixed up the defaults. The
tabs of the Settings window keep the copy they loaded when it was built
(`tab`); `setMuted`, the wizard and the goroutines of `Persist` load anew. Two
preferences stand for all: desktop notifications, and the mute of a calendar.
The encoder's output fits its buffer, so a file is written at once.

In `Reminders` the clock counts units of any length, `Interval` and `Window`
are the 30 and 120 seconds of the code. `Poll`, `Query`, the four ways of
taking a row (`SkipNotified`, `SkipDisabled`, `Notify`, `NotifyFails`) and
`EndPoll` are `checkReminders`; event handlers and saves step in between. The
clock waits for a poll that is due: notifying is taken to be quick. `Sleep` is
a suspended computer. A row is its `reminder_ts`; how the forms compute it
from the start is not followed, nor the start itself. `shown`, `late` and
`moved` are history variables: what the user has seen, and which events have
an excuse.

### CredentialStore and Accounts

`keyring` gives each calendar ID the secret stored under it, a number: refresh
tokens in the order the server issued them, and one more for any CalDAV
password. `Set` is two steps, `KeyringSet` and `RecordIndex`, and `setting`
says who is between them. Uninstall is another process: `Query`, `DeleteEntry`,
`ClearIndex`, then `Purge` or `UninstallEnds`. `loose` and `late` are history:
entries whose indexing was cut off, and entries stored while uninstall ran.

In `Accounts` the callbacks run on the event loop, `loop` is the statement the
running one has reached: `Save`, `Link` (UpdateCalendar), `StoreSecret` or
`KeepSecret`, `IndexSecret`, `Register` for the Add and Edit windows; `Confirm`,
`MoveEvents`, `DeleteRow`, `Unregister` for the Delete windows. A failing
statement is a disjunct of its action, going where the code goes: `Abort`
leaves what was done, the Delete window logs and goes on. Windows are not
modal: `confirm` is the set of open Delete windows with the count and the list
each was opened with, and an Edit window may be older than the deletion of its
calendar. `Connect`, `Callback`, `AwaitCallback`, `ExchangeCode` and `Deliver`
are a sign-in; `form.login` ties its goroutine to the window that started it,
which may be closed by then. A sync is reduced to `LoadSecret`, `Exchange`,
`Rotate`, `IndexRotated`, `Pull`. `Die` ends the process amid all of that.

Abstractions: a calendar of the copy `SyncAll` works on that is unregistered
before its turn is a sync that has not loaded its secret yet; a callback with
the wrong `state` counts as a refusal; a sync may fail to load a secret that is
there, which is a sync that never began. Windows does not remove a database
that is open, so `--purge` succeeds only when the tray is down. Local calendars
other than the default one, names, colours and types are left out, as is the
renaming of an Outlook calendar. `cut`, `stale` and `adrift` are history: the
exceptions of the properties.

### Schema and Launch

A migration is a number of statements, `applied` says how many of them the
file has, `recorded` is the table `schema_version`. `Open`, `ReadVersion`,
`RunStatement`, `Record` are `InitDB`; because every statement tolerates what
is there, running one again changes nothing. `RecordFails` is the primary key
that another process has taken meanwhile; `StatementFails` any other error,
contention for the file included. Processes are numbered in the order they
start.

`Launch` adds the tray: `CreateMutex`, `ListenPipe`, `BowOut`, `Forward` are
`Acquire` and `Forward`; the mutex exists while somebody has a handle, so a
secondary keeps it alive until `BowOut`. `Accept` to `Post` are the pipe's
goroutine, with `getFyneApp` cut into its test and its assignment, as in
`RunTray` (`MainReadsApp`, `MainCreatesApp`); a window of the app that does not
run is never drawn. `Unlisten` and `Release` are the two calls of `release`.
Reading and parsing the file are one with `Post`: an error is shown the same way.

### Layout

One step is one turn of a loop of `overlapGroups` (`BeginGroup`, `Scan`,
`EndPass`, `EndGroups`) or of `bspAssign` (`Split`); `DrawGroup` ends a group.
A block is `[parts, pos]`, the interval from `pos / parts` to
`(pos + 1) / parts`: halves of the float32 fractions of the code, exact for
as many splits as a day can hold. What is drawn and what a tap finds are
operators on the result (`Top`, `Bottom`, `Left`, `Right`, `Tapped`, `Opens`).
Times are minutes from midnight, `dayLength` is 23, 24 or 25 hours. Events end
on the day they start or later; all-day and hidden ones are not in the grid.

## What the runs check

| Run | Instance | Shows |
|---|---|---|
| `engine` | 2 calendars, ticker, 1 Sync Now goroutine, dialogs, stop | `CalendarExclusion`, `StatusTellsTheTruth`, `StopWaitsForLoop`, refinement of `CalendarMutex`; `KeepsSyncing`, `StopReturns`, `SyncNowReturns` under fairness |
| `outlook_sync` | Graph, 2 goroutines of one engine, edits, remote changes, both conflict buttons | `NothingSkipped`, `OwnCreateRecognised`, `ConflictsAreTheUsers`, `PushesInOrder` |
| `store_faults` | CalDAV and Graph, 1 edit, 1 remote change, 1 failure of any of eight kinds | no edit is forgotten (`QueuedOrKnown`), no row duplicated (`UniqueUrl`), no queued delete dropped (`DeletesReachServer`) |
| `outlook_live` | Graph, 1 edit and 1 remote change, 1 failed push or pull | every remote change and known deletion arrives, queued edits leave, both sides converge |
| `series` | 4 days, 2 times of day, 3 saves, 1 failure | `ViewsAgree`, `SeriesOncePerDay`, `ScopeIsKept`, `SplitIsWhole` |
| `reminders` | 1 event written twice, 2 saves, 1 failure, restarts, suspends | `OncePerSession`, `ShownInTime` |
| `accounts` | 2 calendar IDs, 2 goroutines and the event loop, 1 sign-in, 2 tokens, uninstall, 1 failure | `Indexed`, `StayConnected`, `OneHolder`, `RowHasSecret`, `EventsBelong` |
| `launch` | 3 processes, 2 migrations, 1 failure or crash | `SchemaIsCurrent`, `OneTray`; `SomebodyStarts`, `ForwardedIsOpened` under fairness |
| `layout` | up to 5 events of 9 kinds, 3 lengths of day | `GroupsApart`, `Balanced`, `SideBySide`, `Reachable` |
| `caldav_upserts` | CalDAV | violated: nothing fetched is ever applied |
| `outlook_silent` | Graph | violated: an edit is overridden without a conflict |
| `series_scope` | the date the form proposes may be saved | violated: the exception lands on the master's day |

### Bounds

Every counter that would grow has a bound named in its module: `MaxEdits`
(what the user writes), `MaxRemote` (what other clients do), `MaxFaults`
(failures), `Days` and `Untils` (the calendar). `outlook_sync` allows two edits
or an edit and a remote change (constraint `Budget`); its two goroutines are
alike, hence the symmetry, which no liveness property shares. Two edits are the least that
put an edit between the push of an earlier one and the end of its outbox
entry; one remote change beside an edit makes a conflict, and two goroutines
are the least that can race on a mutex. `UniqueUrl` is checked where failures
can break it (`store_faults`) and proved for any number of goroutines. The types of
`SyncCalendar` are proved and in no run. Each failure kind is enabled in some
run. Three saves let a series be split, its new half split or moved, and an
exception made in either; four days leave one before, on, between and after.
The engine run has two calendars because starvation and stale copies need a
second one; the theorems cover any number.

`reminders` has an interval of 2 and a window of 4, the least with room for one
failed poll, and a clock to 6, so that a reminder set, shown and moved can
come due a second time. Two saves overlap, mix up the file and
lose each other's fields; the theorems cover any number of events.

`accounts` gives the user five moves; a window or a button costs one; a Sync
Now, an uninstall and a quit cost two, and so does a failure (constraint
`Budget`). That is enough to open two windows on one calendar and use both, to
add a calendar, have its credentials refused and save again, and to delete a
calendar a Sync Now is at work on. Two goroutines are the least that can rotate
one token in turn, and they are alike, hence the symmetry; with two tokens a
rotation leaves a used one behind. `launch` has three processes: a tray, a
second launch, and one that migrates or starts when the first has gone; two
migrations, of two statements and of one, have an inside and a next. `layout`
has five events, the least with a group that has a narrow block (176 pixels
are split below 80 by three events, unevenly by five); its nine kinds are short
ones in a row, long ones across them, one without an end, one past midnight and
the last and first hour of a day. The four properties are proved for any number.

`series` turns deadlock checking off because the user may delete all events,
after which there is nothing to open; `accounts`, `launch` and `layout` do so
because moves, processes and loops end. The `SyncCalendar` runs never stop,
since a sync can always start.

### Fairness

`SyncEngine`: a goroutine that can run does; a waiter on a Go mutex gets it in
the end (starvation mode), and `select` chooses at random among ready cases,
hence strong fairness on `Acquire` and `LoopExit`; the ticker ticks. HTTP
requests have timeouts, so a sync ends. Nobody has to click, quit or restart.
`SyncCalendar`: the ticker starts a sync again and again, requests and handlers
end. The user, other clients and failures owe nothing; failures are bounded in
number, which is what "in the end" needs. `Launch`: a process that was started
goes on (its main goroutine, the pipe's, the one that opens the pending path,
the event loop); nobody has to start one or to quit.

## What is proved

`SyncEngineProofs` proves for any sets of calendars and Sync Now goroutines,
from the assumptions that the loop is no client and `None` is neither a
calendar nor a goroutine:

* `TypeCorrect`, `Exclusion`, `StatusTruth`, `StopIsSafe`: the type invariant
  and the three safety properties of run `engine`;
* `Refinement`: `Spec => ImplementsMutex`, the engine implements
  `CalendarMutex` under the mapping that takes for `syncing[c]` the goroutines
  between `Lock` and `Unlock` of `c` on the running engine.

None of the properties is inductive. Exclusion needs that the lock names
exactly the goroutine inside (`LockMatchesSync`), which needs that the goroutine
has a calendar in hand (`SyncHasCalendar`); that the stop function has waited
needs what `done` and the process phase say about the loop
(`LoopFollowsMain`), and that the loop never works for a throwaway engine
(`LoopIsRunning`). `IInv` is their conjunction; `InitInv` and `StepInv` show it
inductive, with one step per action.

`RemindersProofs` proves for any events, interval, window and bounds, from the
assumptions that `Null` and `Gone` are no times and that the window has room
for the failures (`Interval * (MaxFailures + 1) <= Window`; with 30 and 120
seconds three failures):

* `TypeCorrect`, `ShownOnce`, `ShownByItsTime`: the types and the two properties
  of run `reminders`.

`ShownInTime` speaks of the moment a reminder has passed; what is inductive is
`Pending`: as long as it is to come and has not been shown, the next poll that
will see it is no later than the start of its window plus an interval for each
failure so far and one (`OnSchedule`). That needs a clock that never passes
the ticker (`Punctual`), rows read by the poll that are still what the table
says unless the event counts as moved (`BatchIsFresh`), and a mark on
everything shown (`ShownIsMarked`). `Margin` is the arithmetic, `InTime` the
step from the schedule to the deadline.

`LaunchProofs` proves for any processes, migrations and failures:

* `TypeCorrect`, `SchemaCorrect`, `SingleInstance`: the types and the two
  invariants of run `launch`.

`SchemaInv` says what a process in the middle of a migration may rely on: every
version before the one it is in is recorded, every statement before its own has
taken effect, and what is recorded is whole. It survives the steps of the others
because `applied` only grows. For the tray, `OwnerHasHandle`: whoever is to run
or runs has a handle of the mutex, so that a later `CreateMutexW` finds it.

`LayoutProofs` proves for any events, of any number:

* `TypeCorrect`, `GroupsCorrect`, `SplitsAreBalanced`;
* `OverlapsStandApart`: `SideBySide`;
* `NoneTooNarrow`: in a group of n events no block has half of the n-th part of
  the day or less (`EqualShares`);
* `StaysInside`: blocks stay inside the column of their day, which is why one
  day can be modelled alone (`InsideDay`);
* `TapsFind`: whatever the day holds, a tap in the middle of the lower edge of
  a block that has a pixel opens its event or its group (`EachTapped`);
* `EveryEventOpens`: `Reachable`, from `4 * MaxEvents <= ColWidth`.

`Balanced` alone is not inductive: the blocks must be of two sizes, one twice
the other, and of k equal blocks the first n - k have been split, in order, when
there are n (`TwoSizes`); with k <= n < 2k that also gives `NoneTooNarrow`. For
`GroupsApart` the pass must know what it has left behind: an event it has gone
by overlaps no member, unless the pass
has changed the group and will be repeated (`PassedOver`, `Newest`,
`PlacesFit`). `SideBySide` takes the whole of the pipeline: overlapping events
are in one group (`GroupsApart`), members of a group have places of their own
(`OwnPlace`), halving a widest block leaves its halves apart from the others
(`BlocksApart`, `HalvesApart`), and what is drawn stays (`Drawn`).

That every event can be tapped is about what is drawn before it, since the first
block hit wins. Within a group blocks that are apart share no pixel
(`ApartInPixels`), by the arithmetic of rounded quotients (`DivBound`,
`FloorMonotone`). Blocks of earlier groups, drawn 14 pixels high at least, may
cover the upper part of this one but not its lower edge: groups come in the
order of time (`InOrder`), so an event of an earlier group has ended when this
one starts, and this one is 14 pixels high itself. `InOrder` in turn needs that
the group being formed leaves no time between its first and its last start at
which nothing of it is on (`NoGap`): an event that a pass without a change left
out, and that started before a member, would overlap whatever is on then
(`NobodyBefore`). The hypothesis of `EveryEventOpens` is about pixels: a block
loses two to its margins, so one narrower than that cannot be hit. Some bound
is needed: TLC finds `Reachable` violated with four events on a day of three
pixels.

`AccountsProofs` proves for any calendars, goroutines, sign-ins, tokens and
failures, from the assumptions on the constants alone:

* `SecretsAreIndexed`, `RowsHaveSecrets`, `EventsHaveCalendars`, from `StoreInv`
  (what uninstall has read, deleted and cleared), `Ties` (which calendar a
  callback is about and what it has done so far) and `RestInv`;
* `CalendarsStayConnected`, `TokensHaveOneHolder`. That a token has one holder
  is about all the places it can be: the keyring, the window, a sign-in that
  has not delivered, a sync that has not stored. `StoredInv` bounds tokens in
  the keyring by the number issued; `RotateInv` says that a token about to be
  stored is accepted and nowhere else, `ExchangeInv` that one presented by a
  sync is its calendar's own or a used one, `FormInv` and `LoginInv` that the
  window's and the sign-in's are nobody's. `StayConnected` follows from them:
  the server drops only the token it is given, and then the sync that gave it
  holds the next;
* `TypeCorrect`: the types, for which the invariants above say that a callback,
  a sync or uninstall has a calendar in hand whenever it writes (`InHandAre`).

`SyncCalendarProofs` proves for either adapter, any number of goroutines on any
number of engines, any failures, other clients and bounds:

* `TypeCorrect`, `NoEditIsLost`: the types and `QueuedOrKnown`.

`QueuedOrKnown` says nothing of the entry a goroutine is about to clear, and
that is where an edit could be lost. `PushCovers` does: while a goroutine
pushes the entry of an event, the row says what it sends, or has been edited
since and is covered by something newer than that entry (`Covered(r, k)`:
known to the server, an entry numbered above `k`, a handler that will make
one, or never queued). It rests on what the goroutine has read being what the
outbox says while it holds the entry (`QueueRead`, which entry numbers never
used again provide), on a push that sends one event (`OneEvent`), on handlers
that enqueue a delete only for a row that has gone (`HandlerInStep`), on ids
that name one row (`RowIds`), and on contents from the server having been there
(`ServerHasHeld`). A step is taken apart into what it does to rows
(`RowsFollow`), to what covers them (`CoverKept`) and to pushes under way
(`Stays`).

`SyncOrderProofs` goes on from there for any number of goroutines of one engine
(`OneEngine`; `Exclusion` is proved of the engine itself). A throwaway engine of
`SyncNow` beside it has mutexes of its own and is not covered. Either adapter,
any failures, crashes, other clients and bounds:

* `OneRowPerResource`, `DeletesAreDone`, `EditsArriveInOrder`: `UniqueUrl`,
  `DeletesReachServer`, `PushesInOrder`;
* `OwnCreates`: `OwnCreateRecognised`, where nothing comes between the POST of
  Graph and the link (`CreatesAreLinked`: no crash, lost reply or body, failed
  statement). With a lost reply it is false, so the hypothesis is needed;
* `NoChangeIsSkipped`: `NothingSkipped`, where every fetched change can be
  written (`EachIsWritten`). Everything else may fail: the token expires, a
  reply or a `Save` is lost, the process dies in the middle of a pull. Without
  the hypothesis it is false: `applyChange` only logs a statement that fails,
  the token is saved, and no later delta names the change;
* `OnlyTheUsersConflict`: `ConflictsAreTheUsers`, where no sync through Graph is
  cut off after it has written a row (`SyncsEnd`: no crash, no failed
  statement). If its `Save` fails, what it wrote is in conflict with the next
  pull: false as well.

For CalDAV both hypotheses hold by the first disjunct, whatever fails: it
derives URLs from events, and its pulls apply nothing (`MultigetHolds`: every
change is held already when `applyChange` looks).

All six rest on `Alone`: while one goroutine takes a step the others rest.
`UrlInv` says which URL belongs to which event: the server has handed out
whatever is mentioned anywhere (`UrlsIssued`, so that a new one is new), one
resource has a URL (`OnePerUrl`), what is being pushed is still the row's URL
and only that row's (`SentUrls`), a fetched change was matched with the row that
has its URL, or none has (`FetchedUrls`), and a delete that has been pushed is
done until its entry goes (`DeleteDone`; other clients revive nothing).
`OrderInv` bounds numbers of edits by position: no content in a row, in a push or
in a change yet to be applied is older than what the server has at that URL,
but for copies in the Conflict Queue (`RowsNewest`, `SentNewest`,
`FetchedNewest`). A retry keeps the order because `pushOne` reads the event anew.
`OwnUrls` follows a created resource from the POST to the link (`InHand`,
`Owned`). `ConflictInv` says that a row which looks newer than the last sync
is the user's or was written by the pull under way (`JustPulled`), which meets
each resource once (`OncePerPull`).

For `NothingSkipped` a pull is followed from `Fetch` to `Finish`. `SavedCovers`
says it of the saved token; `Underway` says it of the token a pull holds: what
that covers is in the store, or in a change the pull has yet to write. The
changes say what the new token covers of their resources (`Told`), since other
clients' later changes have later numbers; and a row that was matched holds the
resource still, or is gone (`Matched`). "In the store" (`Reflected`) must
survive whatever the user does meanwhile: an edit nobody has sent (`Unsent`), a
Keep local or an import that is never queued (`Strayed`), a delete, whether
still in a handler, queued or cut off (`Gone`, for which `HandlerUrls` says what
the handler remembers). An unsent edit becomes a known one only by a push of
the same event, which changes the resource of that event and no other: each
edit is of one event (`Authors`).

`SeriesProofs` proves for any horizon, ticks, rules, saves and failures:

* `TypeCorrect`, `ViewsShowTheSame`: the types and `ViewsAgree`;
* `OncePerDay`, `SplitLosesNoDay`, `SavesKeepTheirScope`: `SeriesOncePerDay`,
  `SplitIsWhole` and `ScopeIsKept` while the dates fit the scope (the constant
  `Careful`, which run `series_scope` sets to `FALSE`).

What a day shows does not depend on the window of the query (`DayShows`), from
which `ViewsAgree` follows. `SInv` says that a series has one row a day
(`OneRowADay`), that the row the open window has read is still the table's, and
the occurrence it edits has no other row on its day (`WindowAgrees`), and what
`Careful` means for the date in the form (`DateFits`); `SplitOK` follows the
three statements of a split, whichever attempt completes them. For
`ScopeIsKept`, `ScopeOK` adds that exceptions do not repeat and that a rule
reaches to where it is capped, also when it is capped again. Two lemmas about
any two tables then say what a statement can change: `OthersStand`, that only
entries of a series whose rows were written change, and `DayStands`, that a day
keeps its entries when its rows and its occurrences are kept; `JustThisKeeps`,
`SplitKeeps`, `TrimKeeps` and `NewSeriesKeeps` apply the latter to each
statement. `DayIs`, `DayOrder` and `MovedOccurrence` are the arithmetic of days
and ticks.

Model-checked only is liveness under fairness (runs `engine`, `outlook_live`
and `launch`): the provers have no ENABLED. Every other property of a passing
run has a theorem.

## Findings and what else the modelling brought up

The three violated runs are recorded as findings, with the sentence of the
repository each contradicts. While translating the code these came up too; they
follow directly from it and have no run:

* `SyncNow` on a throwaway engine overlaps the running engine
  (`syncwire.go:182`): `CalendarExclusion` is claimed for the running engine
  only, against `calLock`'s comment.
* `SyncAll` still syncs a calendar of its copy that has been unregistered.
* CalDAV: deletions on the server are never seen (`fullFetch` lists what
  exists and `incrementalFetch` is unreachable); an ETag stored for a change
  that is not applied lets the next push overwrite it.
* Graph: changes carry no ETag, so the echo of an own push is recorded as a
  conflict; PATCH carries no `If-Match`; an expired delta token loses
  deletions; a crash between POST and link creates the event twice.
* An event deleted while its create is being pushed comes back.
* `CreateImportedEvent` and `ResolveKeepLocal` queue nothing.
* `CloneRRuleForNewSeries` keeps COUNT though its comment says it clears it.
* A rule is capped one second before the time of the split occurrence: when
  the old series is moved to an earlier hour it shows on the split day again,
  beside the new one.
* An event moved after its reminder was shown (or read by a running poll) is
  not announced at its new time until the program is restarted; an event
  deleted while a poll runs still is. `ShownInTime` excuses the first.
* A poll that loads `config.toml` while it is being saved finds notifications
  off and marks what is due as notified; a goroutine that loads it then
  (`setCalendarVisible`, a view tab) saves the empty configuration for good.
* `GetDueReminders` reads rows: later occurrences of a series have no
  reminder. Remote events have none either, and a remote update erases the
  local one, though the comment of `CreateEventFromRemote` promises 15 minutes.
* `DefaultReminderMinutes` is saved and never used.
* A tab of the Settings window saves the whole configuration it loaded when the
  window was built (`window.go:850`): a mute made in the Calendars tab since is
  taken back, though `CONTEXT.md:112` calls it permanent.
* `OpenImportPath` claims to be safe from any goroutine (`import_dialog.go:126`),
  but `getFyneApp` tests and sets a variable without a lock: a path forwarded
  while the tray starts can make an app of its own, whose window never shows.
  `ForwardedIsOpened` excuses such a tray (`AppSettled`).
* A path forwarded between the creation of the mutex and that of the pipe, or
  while the primary shuts down, is lost with a warning; `CONTEXT.md:214`
  promises that it is passed on.
* Two processes that migrate at once: the one that records a version second
  fails on the primary key and does not start (`storage.go:169`).
* `--purge` removes the database even when `DeleteAll` has failed, and with it
  the only list of the secrets left; a tray that stores a secret while uninstall
  runs leaves it behind too.
* `credstore.DeleteCalendar` is never called: the secrets of a deleted calendar
  stay in the keyring until uninstall.
* A calendar whose credentials could not be stored keeps its row; pressing Save
  again creates a second one.
* Events left behind by a deletion (a stale count, a failed statement, a sync
  in flight) belong to no calendar, against `CONTEXT.md:31`; `EventsBelong`
  lists the ways.
* The 25th hour of a day is in no day's grid (`eventsForDay` counts 86400
  seconds), and a 23-hour day shows the first hour of the next.
* `Commit` takes overrides of one UID (RECURRENCE-ID) for duplicates.
* A DELETE whose reply was lost is answered 404 for ever: its entry stays in
  the outbox, at the price of a refused request in every sync.
* `GetUpcoming` starts at the present and so does not see an exception of
  earlier today: the occurrence it replaced is listed again.
* Tray Quit calls `Daemon.Stop` twice: the second `close` panics.

## Plan

Done, in this order: `SyncEngine` and `CalendarMutex` (proved); `EventStore`
and `SyncCalendar` (proved); `Series` (proved); `Settings` and
`Reminders` (proved); `Accounts`, `Launch` and `Layout` (proved). What is left:

1. Two event windows on one series; the count of duplicates of an import.
2. Categories and attachments: their rows after the event is deleted.

## Not modelled

Formats (ICS, Graph JSON, TOML, bar output), drawing, the month view, PKCE and
the pages of the sign-in, desktop integration (autostart, bar set-up,
installers): input and output without state of the program, or state nothing
else reads. The parser of imported files and the preview work on one file and
end in the INSERTs of `EventStore`. Categories and attachments are single
statements on rows of their own.
