# ImageSilo in TLA+

ImageSilo is a self-hosted image store: one Go process, one SQLite database, a
directory of files, a set of in-memory indexes from which every public read is
served, and a web interface for its one administrator. This directory holds TLA+
models of that program, TLC runs on small instances of them, and theorems that
TLAPS checks for every instance.

The code is the reference. `PROJECT.json` maps every definition to the source
lines it translates, lists the hazards of the code with the properties that
watch them, and gives for every property a mutant (a plausible bug in one mapped
definition) under which that property fails.

## 1. The system

The server:

| Component | State | Operations | Talks to |
|---|---|---|---|
| Per-key locks (`internal/indexbarrier/keyed_lock.go`) | map key -> reference counted mutex | `Lock`, unlock | used by the barrier |
| Rebuild barrier (`barrier.go`) | one `RWMutex`, image locks, path locks | `LockImage`, `BeginChange`, `BeginAliasChange`, `BeginRebuild` | image, alias, import, auth and token services; rebuilder |
| Image service (`internal/image`) | table `images` | upload, get, search, change visibility, convert to WebP, delete | file store, index, processing gate, barrier |
| Alias service (`internal/alias`) | table `image_aliases` | create, list, resolve, delete | index, barrier |
| Importer (`internal/importer`) | both tables | stage, import with an alias in one transaction | file store, index, gate, barrier |
| Delivery index (`internal/delivery`) | maps id -> target, path -> id | add, update, remove, replace, look up | loaded by `Build` from tables and files |
| Rebuilder (`internal/indexstate`) | none | load a snapshot, replace the delivery, session and token indexes | barrier, repositories |
| File store (`internal/platform/storage`) | image files, thumbnails, temporaries | create, commit (rename), open, remove, list | everybody who stores or reads bytes |
| Maintenance (`internal/maintenance`, `internal/app`) | last inspection, last daily result | startup cleanup, inspect, rebuild, daily removal of orphans | file store, database, rebuilder |
| Authentication (`internal/auth`) | tables `admin`, `sessions`; session index | login, logout, change password, clean up | barrier, HTTP middleware |
| API tokens (`internal/apitoken`) | table `api_tokens`; token index | create, revoke, authenticate, clean up | barrier, HTTP middleware |
| Setup (`internal/setup`) | one-time token, table `admin` | initialise once | auth, settings |
| Settings (`internal/settings`) | table `app_settings` | get, update | handlers, maintenance |
| Migration images (`internal/migrationimage`) | cached directory snapshot | search, delete | file store |
| Processing (`internal/platform/processor`) | gate with N slots | acquire, release, inspect, transform | image service, importer |
| HTTP (`internal/httpapi`) | login limiter, delivery gate | one handler per request, streaming upload | all services |

The web interface (`web/src`), a React application over the same HTTP API:

| Component | State | Operations | Talks to |
|---|---|---|---|
| Upload page (`features/upload`, `lib/api-client.ts`) | rows, object URLs, abort controllers, the running batch | add, remove, submit, retry, cancel, leave | upload endpoint, session |
| Session (`features/auth`, `app/router.tsx`) | cached session and setup status, the route | login, setup, sign-out, redirect, the listener of 401 answers | every request |
| Query cache (TanStack Query, external) | data, staleness and one fetch per query | fetch, refetch, invalidate, cancel, set, remove | all pages |
| Image library and detail page (`features/images`) | lists by filter, pages, selection, delete dialog | change visibility and delete, singly or in a batch | query cache |
| Filter form (`features/images`) | the form, the address of the page | fill in, edit, apply, reset | history, list query |
| Library history (`features/images`) | history entries, remembered scroll positions | push, back, delete and return, restore the position | router, list query |
| Migration page (`features/migrations`) | lists, selection, dialog | refresh, delete a batch | query cache, `internal/migrationimage` |
| Settings page (`features/settings`) | cached settings, drafts of four forms | save visibility, processing, profile, password | query cache, `settings_handlers.go` |
| Alias and API token pages (`features/aliases`, `features/api-tokens`) | list, form, dialog, resolved alias | create, remove, resolve | query cache |
| Modal dialogs (`components/ui/modal.tsx`) | stack, lock counts, focus, timers | open, close, exit, restore | every page |

What is hard about it:

* The database is the truth, the index is what is served, and both are changed
  in separate steps by concurrent requests, while a rebuild replaces the whole
  index from a snapshot.
* A conversion works for seconds between reading a row and writing it back.
* Files are committed before their row and removed after it; a crash, an error
  or a daily clean-up can come in between.
* Up to three locks are held at once, and the reader-writer lock parks new
  readers behind a waiting writer.
* In the browser one handler runs at a time, but what it closed over is old by
  the time its request is answered: the user has edited, filtered, navigated or
  signed out, another change was confirmed, another fetch was sent earlier or
  later, and answers arrive in any order or not at all.

## 2. The modules

    KeyedMutex           one mutex per key (abstract)
      ^ implemented by
    KeyedLocker          keyed_lock.go
      ^ proofs           KeyedLockerProofs
    Catalog              tables, files, delivery index, barrier, all requests
      ^ proofs           CatalogProofs (the index has nothing else)
        ^ extended by    CatalogServedProofs (the index has everything)
    Sessions             tables admin and sessions, session index, its requests
      ^ proofs           SessionsProofs

    QueryCache           one query of TanStack Query (external)
      ^ used by          ImageGallery, MigrationLibrary, SettingsPage, RecordPage
    UploadQueue          the upload page
    SessionClient        the session as the browser knows it
      ^ proofs           ClientProofs (both)
    MigrationLibrary, SettingsPage, RecordPage
      ^ proofs           PageProofs
    ModalStack           the dialogs
      ^ proofs           ModalProofs
    ImageGallery, FilterForm, LibraryHistory
      ^ proofs           ImageLibraryProofs

    MCKeyedLocker, MCCatalog, MCSessions        instances of the server
    MCClients            UploadQueue and SessionClient
    MCImageLibrary       ImageGallery, FilterForm, LibraryHistory
    MCPages              MigrationLibrary, SettingsPage, RecordPage, ModalStack

### KeyedMutex, KeyedLocker

`KeyedLocker` is `keyed_lock.go` statement by statement. The section of `Lock`
under `l.mu` is `JoinEntry` when the key has an entry and `CreateEntry` when it
allocates one; `Acquire` is the return of `entry.mu.Lock()`; `Unlock` and
`DropReference` are the two halves of the returned function. Sections under
`l.mu` do not block and touch nothing outside it, so each is one step. An entry
is a memory address that may be allocated again once nothing refers to it
(`Unreachable`).

`KeyedMutex` is what callers rely on: a goroutine asks for a key, is granted it
when nobody owns it, and releases it. The refinement mapping reads the owner of
a key off the goroutine that is past `entry.mu.Lock()`.

### Catalog

`Catalog` takes the locks as mutexes, which is what `KeyedLocker` is proved to
provide, and models every request that changes images or aliases as a goroutine
with a program counter. A step ends before the next call on shared state:

| Step | Code |
|---|---|
| `Start...`, `StoreImport`, `RejectImport` | a request up to its first lock: arguments, UUIDs, the committed file, the unlocked reads `AliasExists` and `PathByID` |
| `LockImage`, `LockPath`, `RLock`, `RLockParks` | `Barrier.LockImage`, `BeginChange`, `BeginAliasChange` |
| `ReadForConversion`, `StoreConversion`, `AbandonConversion` | the long middle part of `ConvertToWebP` |
| `InsertImage`, `InsertImport`, `UpdateVisibility`, `DeleteImage`, `UpdateContent`, `InsertAlias`, `DeleteAlias`, `Fail` | the statement or transaction of each repository, with the schema's UNIQUE, foreign key and ON DELETE CASCADE |
| `IndexAdd`, `IndexUpdateVisibility`, `IndexRemoveImage`, `IndexAddAlias`, `IndexRemoveAlias` | the methods of `delivery.Index` |
| `RUnlock`, `UnlockPath`, `UnlockImage`, `RemoveFile` | the deferred calls, in the order Go runs them |
| `Lock`, `Drain`, `LoadTargets`, `LoadAliases`, `LoadFails`, `ReplaceAll`, `Unlock` | `Rebuilder.Rebuild` and `delivery.Build` |
| `LoseFile`, `RestoreFile`, `Restart` | an operator or the disk; a crash followed by `app.Build` |

Abstractions. A row is its storage key and its visibility; everything else a
target carries (MIME type, size, ETag) is fixed with the key, because a file is
written once under a fresh UUID. An image id is at the same time the key of its
uploaded file, as in the code; `SpareKeys` are the keys conversions draw. Which
requests occur and which faults strike is a constant, so a run can afford what
its question needs. Paths are already normalised; `BuildAliases` therefore leaves out
what `loader.go:103-112` does with rows of an older format: it skips the alias of the
root and fails the build for a path that is not canonical. Thumbnails and temporary files
are left out: no step modelled here reads one.

External: SQLite executes one statement or transaction atomically and a
statement that reports an error has had no effect; `sync.RWMutex` parks new
readers behind a waiting writer and admits the parked ones when the writer
leaves; a rename is atomic. Nothing forces the file to disk before the row is
committed, so a power cut may lose it: that is `LoseFile`.

### Sessions

`Sessions` models the administrator's sessions: the rows, the `SessionIndex`
from which every request is authenticated, and the requests that change both.

| Step | Code |
|---|---|
| `Start...` | the handlers of `auth_handlers.go` up to `Service`, with `requireSession`; the ticker of `runMaintenance`; a rebuild |
| `LockCredentials`, `VerifyLogin`, `VerifyChange`, `Reject` | `credentialsMu` and what `Login` and `ChangePassword` do before the barrier |
| `CreateSession`, `DeleteSessionByHash`, `ChangePasswordAndRevokeOtherSessions`, `UpdateProfile`, `DeleteExpiredSessions`, `StatementFails` | the repository |
| `Add`, `Remove`, `RemoveAllExcept`, `UpdateAdmin`, `PurgeExpired`, `Replace` | `SessionIndex` |
| `RUnlock`, `UnlockCredentials` with `AnswerLogin`, `AnswerRotate`, `AnswerChange` | the deferred releases and what the handler does next: a login ends the session of the cookie it replaces, and ends the new one if that fails |
| `Lock`, `Drain`, `Load`, `LoadFails`, `Unlock` | `Rebuilder.Rebuild` |
| `Restart`, `Tick` | a crash followed by `app.Build`; time |

A password is the number of changes made so far, so a client can present a
former one; the profile (email and display name) is one value, and a login whose
email is not the administrator's is one that may be rejected. Time is counted in
ticks, several to a second: the database keeps `Unix()` seconds, the index the
full `time.Time`, and a handler uses the time it read before it waited for
locks. `cookies` are the tokens a browser was given; only those are presented.
Two history variables, `proof` (the last password the holder of a token has
shown) and `ended` (sessions whose end was confirmed), exist for the properties.
The CSRF hash is fixed with the token and left out.

### What the modules of the web interface have in common

JavaScript runs one handler at a time. An action is what runs between two
awaits that wait for the network or a timer, with the state it sets and the
effects React runs for that state before the next event. What interleaves is the
user, the answers, the timers and navigation. A request has three moments: it is
sent, the server executes it, its answer arrives; a request may fail before or
after the server has executed it.

`QueryCache` is external: TanStack Query 5 as far as the pages rely on it. A
query has data or none, is stale or not, and has at most one fetch under way. The
rules that matter are these: a mounted page fetches a stale query; an
invalidation of a query in use replaces the fetch under way, except a first one,
which is joined; `cancelQueries` drops a fetch and `setQueryData` does not. Other
external definitions: `XMLHttpRequest` with `abort`, the History API, `Date` and
`Number`.

### UploadQueue

`AddFiles`, `ClearQueue`, `ChangeVisibility`, `Submit`, `Retry` and `CancelRow`
are the handlers of `upload-page.tsx`; `SystemLoads` is the answer that brings
the server's limits. `Submit` and `Retry` close over the rows and the visibility
they were called with (`run`). The workers of a batch (`worker` in `submit`) draw rows from
one shared index: `UploadOne` sends a row, `Answer` is the server,
`UploadSucceeds`, `UploadFails` and `UploadUnauthorized` continue the promise,
`FinishRun` is the code after `Promise.all`. `Navigate`, `Stay`, `LeaveUpload`,
`RouterUnmounts` and `SessionLost` are the navigation blocker, its dialog and
unmounting with its cleanup, which aborts every registered controller.

### SessionClient

The session and setup queries of `AuthProvider`, the login, setup and sign-out
handlers as flows with their awaits (`flow`), the guard and the pages that
redirect (`Redirect`), a data request of the page shown, and the other requests
under way (`strays`): those of a left page, whose answers are ignored, and
changes, which go on. Every answer is decided by the server at one moment and
arrives at another. A flow that waits goes on when its request settles
(`FlowGoesOn`): a login waits for the session, a setup for both of its refreshes,
which may be answered in either order (`AfterSession`, `AfterSetup`). If one of
them fails the flow ends with an error on the page where it began. `clearAuthenticatedCache` is `ClearAuthenticatedCache`; it is
the listener that the 401 of any request reaches, a stray one included. What the
answer to a change writes into a cache is left out.

### ImageGallery, FilterForm, LibraryHistory

`image-list-page.tsx` in three modules that share no state but the address.
`ImageGallery` has one list query per filter, read page by page after the last
image shown, the query of a detail page, the selection, the delete dialog with
the images it was opened for, and changes that overlap: each is sent from a
page, executed by the server for a part of its images, and applied to the caches
by the callbacks, which differ between the list page and the detail page: the
library synchronises the cached details of what it changed (`SyncDetail`), a
detail page only invalidates its own (`RefreshDetails`).
`FilterForm` is the way between form, address and query: a size is typed in MiB
and sent in bytes, a day is chosen in local time and sent as an instant.
`LibraryHistory` separates the entry the browser is at from the page React has
committed, because a deletion may be answered in between: `Pop`, `Commit`,
`DeletionAnswered`, `DeletionReturns`. `currentEntry` is the ref of the detail page
that decides whether it still returns; a move in the history clears it at once, a
push only when it is committed. `Restore` is the effect that fetches pages
until a remembered scroll position can be reached.

### MigrationLibrary

Both sides of the migration images. The server: `ScanBegins`, `ScanEnds`, `Search`,
`Expire`, `Delete`, `DeleteEnds` with the two mutexes of the service, which keep
a scan and a deletion apart. The page: lists by filter, selection and dialog,
`Refresh` with what follows it, and the deletion of a batch one file at a time.
The page may lose a request at any moment (`DeletionFails`, `RefreshFails`): its
dialog can then be closed, and the server goes on. `Delete` of the service looks at
the context before it waits for `mutationMu` and not afterwards, so each path that
the lost request has not reached is deleted later or not at all
(`DeleteAbandoned`, `AbandonedStops`; `abandoned` counts such requests), and a
batch may be lost half way. `ScanFails` is a scan that ends with an error.
`CopyFile` is the operator, who puts files into the directory.

### SettingsPage, RecordPage

`SettingsPage` has the query of the settings, the four forms and, for each, the
request with the update and the later read on the server (`ServeUpdate`,
`ServeRead`), between which another request may be executed. `RecordPage` is the
common shape of the alias page and the token page; its variable `kind`, chosen at
the start, selects the two points in which they differ (uniqueness of the label,
whether a mutation waits for the list it invalidated). One alias is resolved at a
time (`resolving`): the button is disabled meanwhile.

### ModalStack

`modal.tsx`: `Open`, `Close` (which starts the exit animation), `Exit` (its end),
`Unmount` of a page with its dialogs, `TakeFocus` in the task after opening, and
the user's `Tab`, `FocusPage`. `Mount` and `Cleanup` are the effect with its
shared stack, lock counts, scroll style and focus.

### The instances of the web interface

A tab shows one page at a time, and the modules share no variables. `MCClients`,
`MCImageLibrary` and `MCPages` extend the modules they instantiate, whose names
are distinct; each has a variable `mounted` that a behaviour chooses at its
start, and what is not mounted has one state and keeps it. The states of the pages add up instead of multiplying. Where all of a
page at once is too much, `mounted` names a part of it: the upload page with two
visibilities and at most two unfinished rows (`"select"`), or with one visibility
and three rows (`"batch"`); two migration files under one filter, with refreshes
only while at most one of them is in the directory (`"folder"`), or one file under
two filters, without lost deletions and with no scan for nobody (`"filters"`); the
forms for the settings, or those for the
account; the lists of the library in four parts (below). A part restricts what
happens to the program (which rows are added, which forms and filters are used,
when a refresh is asked for, whether a connection is lost) and never how it
reacts. The assumptions of the modules are
evaluated there as `InstancesAreLegal`.

## 3. The runs

| Run | Instance | Shows |
|---|---|---|
| `keyed_locker` | 3 goroutines, 2 keys, 3 entries | `MutualExclusion`, `EntriesAreInUse`, `LockIsGranted`, refinement of `KeyedMutex` (`ImplementsKeyedMutex`) |
| `images` | 3 goroutines, 1 image, 1 spare key, all faults | `NoStaleTarget`, `EveryRowIsServed`, `PrivateIsNotServed`, `RowsKeepTheirFile`, `PublishesCurrentRows`: the index serves what the database says |
| `aliases` | 3 goroutines, 2 images, 1 path, 2 alias ids | `NoStaleAlias`, `NoDeadlock` |
| `everything` | 2 goroutines, 1 image, 1 spare key, 1 path, 2 alias ids, all requests and faults | `EveryAliasIsServed`, `AliasHasTarget` |
| `returns` | 2 goroutines, all requests, no faults | `RequestsReturn` |
| `import_at_once` | 2 importing goroutines | fails as expected: see section 6 |
| `session_races` | 3 goroutines, 2 tokens, 2 profiles, 1 change of password, all faults, the clock stands | `EndedStaysEnded`, `OnlyCurrentPassword` |
| `session_expiry` | 2 goroutines, 2 tokens, 2 profiles, 4 instants of half a second, lifetime 1 second, all faults | `IndexIsCurrent`, `EveryRowAuthenticates`, `NeverExtended` |
| `session_returns` | 2 goroutines, 2 tokens, all faults, no change of password | `RequestsReturn` |
| `clients` | upload page: 3 files, 2 workers, 2 visibilities, a limit of 2 until the server names its limit of 3; session: 1 request besides the page's | `RequestsHaveAWorker`, `LimitsAreKept`, `BatchIsConsistent`, `RunEnds`; `SignedOutCachesNoQuery`, `LoginIsSeen`, `SetupIsSeen`, `SessionSettles` |
| `image_library` | 2 images on pages of one with 1 change; 1 image under 2 filters with 1 change; the same with 2 single changes; 1 image in one list with 2 changes of every kind; 3 time zones, 4 sizes typed and 4 given in bytes; 4 history entries, 2 remembered positions | `ConfirmedChangesAreShown`, `DeletionIsAsShown`, `FormStandsForAddress`, `DeletionReturnsToLibrary`, `RestorationProceeds` |
| `pages` | 2 migration files under 1 filter and 1 under 2, batches of 2, 1 lost request for each file; 2 visibilities and 2 levels; 2 profiles; 2 records of one label on the alias and the token page; 3 dialogs | `MigrationListIsTrue`, `OnlyConfirmedAreDeleted`; `SettingsAreCurrent`, `EditsSurvive`; `ListShowsWhatIsConfirmed`; `ModalsAreSound` |

No run checks a type invariant: those of all modules are theorems (section 4). A
property made of several parts is the conjunction of named ones, each explained
where it is defined.

Bounds of the server. Two requests race on one object; the third goroutine is
the rebuild that replaces the index under them, or the request that comes after.
One image is enough for everything about rows, since requests on different
images share only the barrier; aliases need two, so that a path can move from
one image to the other. UUIDs are never reused, so the number of images, spare
keys and alias ids bounds the number of creations; it is chosen so that an alias
can be created, deleted and created again. Nothing else is bounded: requests on
existing objects, rebuilds, faults and restarts may occur any number of times.
In `Sessions`, two tokens are one session that asks and one that is revoked, or
one that replaces the other; `MaxTime` reaches past the expiry of a session that
began in the middle of a second, where the two clocks disagree; one change of
password (`MaxChanges`) makes a former and a current one. Goroutines, images,
paths, alias ids and keys are interchangeable, and the safety runs use that
symmetry.

Bounds of the web interface. A batch of three files for two workers lets one
draw a second row while the other still uploads; before the server has named its
limits the page takes two files, then three. A list of two pages of one image has
a first and a next page. Two changes (`MaxMutations`) overlap, and under two
filters one list is shown and the other only cached. All of that at once is too
much for a run, so the library is explored in four parts, each of which leaves
out what another has: `"pages"` (two images on two pages, one list, one change),
`"filtered"` (one image, two filters, one change of any kind), `"changed"` (one
image, one list, two changes of any kind) and `"overlapping"` (one image, two
filters, two changes, nothing selected). The theorems of section 4 have none of
these limits. Four history entries exceed
two remembered positions. One path for two aliases lets a path be removed and
created again. Two migration files make a batch of two (`SelectionLimit`); one lost
request (`MaxAbandoned`) may still delete a file while the page deletes another or
the same again. Three time zones are whole hours apart from UTC, as all that
`FilterForm` knows; zones with half hours are not covered. Three dialogs leave in
any order. Fetches, refetches, failures, edits, filters, logins and
logouts are not bounded.

Ghosts that carve out a case. `overtaken` (in `MigrationLibrary` `outdated`) marks
lists for which an older fetch outlived an invalidation: a first fetch is joined by
the library, and `fetchNextPage` replaces the refetch of an invalidation, so what
arrives may be from before the change. `outlived` marks details with such a fetch:
the detail page was left before its own change was confirmed. `crossed` marks settings requests that overlapped or
whose answer was lost. `joined` marks a login or a setup whose `refresh()` joined an
older session request. The properties hold outside these cases; section 6 says what
happens inside, and the hazards in `PROJECT.json` that meet one of them say so. Two more ghosts only observe: `popped` (the browser has moved in the
history since the last commit) and `lastChange` (whether the last change of an image
was confirmed).

Fairness of the server. A goroutine that is not waiting goes on (weak fairness of
each of its steps together), and a `sync.Mutex` that becomes free again and again
is given to each waiter in the end: after a millisecond of waiting it goes into
starvation mode and is handed over first come, first served (strong fairness of
the acquiring steps, in `Catalog` and in `Sessions`). Nobody is obliged to make a
request. Reads of the `RWMutex` in `Catalog` need no fairness of their own:
parked readers are admitted by the writer that leaves. `Sessions` does not keep
the list of parked readers and assumes strong fairness of `RLock` instead, which
that list provides.

Fairness of the browser. A request is settled by an answer or by an error,
promises that are settled are continued, React renders the redirects, and a
mounted page without data asks for it. All of it is weak fairness. The user is
obliged to nothing.

## 4. The theorems

`KeyedLockerProofs` proves for any finite set of goroutines and any keys that
the locker keeps its types, excludes two holders of one key, keeps exactly the
entries that are in use, and implements `KeyedMutex`. None of these is inductive
on its own. The invariant `IInv` adds that a goroutine between its two sections
has the entry the map has for its key, that keys never share an entry, that the
count of a mapped entry is the number of goroutines that refer to it and is not
zero, and that whoever is past `entry.mu.Lock()` holds that mutex. The counting
argument is the heart: the deletion in `DropReference` is safe because a count
of one means that the leaving goroutine is the only user.

The assumption named in that module: the set of goroutines is finite, and the
"none" values are not members of the sets they extend.

`CatalogProofs` proves for any goroutines, images, keys, paths and alias ids,
any subset of the requests and any subset of the faults:

| Theorem | Statement |
|---|---|
| `CatalogTypes` | `[]TypeOK` |
| `CatalogNoDeadlock` | `[]NoDeadlock` |
| `CatalogNoStaleTarget` | `[]NoStaleTarget` |
| `CatalogPrivacy` | `[]PrivateIsNotServed` |
| `CatalogNoStaleAlias` | `[]NoStaleAlias` |
| `CatalogAliasesLeadSomewhere` | `[](AliasHasTarget /\ AliasRowsHaveImage)` |
| `CatalogPublishesCurrentRows` | the action property `PublishesCurrentRows` |

The inductive invariant `CatalogInv` is built in layers, each preserved with the
help of the ones below it:

1. `Shape`: types; which locals a request has at which step (`WellFormed`); and
   the state of the `RWMutex` as a function of the program counters
   (`BarrierIsHeld`: no reader is inside while a rebuild loads).
2. `AliasIdsAreUnique`: an alias id belongs to one path. `alias.Service.Delete`
   locks the path it has read before the lock and then deletes by id; only
   because an id never moves to another path is the locked path the deleted one.
3. `LocksAreHeld`: a lock is held exactly between lock and unlock. Deadlock
   freedom follows by walking a chain of waiting: an image lock is waited for by
   someone whose holder may wait for a path, whose holder may be parked behind
   the writer, who may wait for a reader, who never waits.
4. `TargetInv`: what a request relies on (`Relies`). The image of a pending
   upload is unknown to everybody; the row a conversion has read stays as it was,
   because the conversion holds the image lock; what a request has committed is
   still there when it reaches the index; a snapshot agrees with the rows for as
   long as the barrier is closed. `NoStaleTarget` is inductive together with it,
   and `PrivateIsNotServed` is a consequence: of all requests that may be between
   database and index, only a change of visibility can leave a public target.
5. `AliasInv`: the same for paths, with `NoStaleAlias`, `AliasHasTarget` and
   `AliasRowsHaveImage`.

The layers were also checked as invariants by TLC on the instances of the runs.

`CatalogServedProofs` proves the other direction, for the same parameters:

| Theorem | Statement |
|---|---|
| `CatalogRowsKeepTheirFile` | `[]RowsKeepTheirFile` |
| `CatalogEveryRowIsServed` | `[]EveryRowIsServed` |
| `CatalogEveryAliasIsServed` | `[]EveryAliasIsServed` |
| `CatalogAgreesAtRest` | if nothing outside the program has touched a file and no request is between database and index, then the index is the database: `byID = rows`, `aliases = AliasTargets` |

The last one joins both halves and says what the whole design is for. Three
layers stand above `CatalogInv`:

1. `FileInv`, the ownership of storage keys. The keys of two rows differ
   (`KeysAreUnique`); a stored file that is to be published belongs to one
   request and to no row (`StoredAreOwned`); a file that is to be removed belongs
   to no row and to nobody who is about to publish it (`DoomedAreFree`). This is
   where `UpdateContent` matters: it publishes the new key and dooms the old one
   in one transaction, under the image lock.
2. `ServedInv`: a row that is missing in the index has lost its file, also while
   a change of visibility is between database and index, or a rebuild between
   its snapshot and its replacement. Without the last two conjuncts the property
   is not inductive.
3. `AliasServedInv`: an image that is about to be added to the index has no alias
   but that of its own import, a snapshot has every alias of its targets, and
   only a conversion of an image whose upload was touched publishes an image
   whose aliases a rebuild had left out (`ConversionsOfLost`). That last case is
   the exception in `EveryAliasIsServed`, and the proof shows it is the only one.

The only assumption of both modules is `CatalogAssumption`: "None" is none of the
values it stands beside, and a conversion never draws the UUID of an image.

`SessionsProofs` proves for any goroutines, tokens, profiles, lifetime, clock
resolution, number of password changes and faults:

| Theorem | Statement |
|---|---|
| `SessionTypes` | `[]TypeOK` |
| `EndedSessionsStayEnded` | `[]EndedStaysEnded` |
| `OnlyTheCurrentPassword` | `[]OnlyCurrentPassword` |
| `TheIndexIsCurrent` | `[]IndexIsCurrent` |
| `LiveRowsAuthenticate` | `[]EveryRowAuthenticates` |
| `SessionsAreNeverExtended` | the action property `NeverExtended` |

The invariant `SessionInv` has four layers:

1. `Shape`: types, the locals of a request at each step, that the time a request
   has read is past, and who holds `credentialsMu` and the barrier.
2. `TokenInv`: every token in use was drawn, and nobody knows the token of a
   login that has not reached the index.
3. `RowInv`: what a request relies on between its statement and the index
   (`Relies`). A login relies on the password it has verified, which holds
   because `credentialsMu` is held from `VerifyLogin` to the index; a request
   that has ended a session relies on the row staying away. Behind the barrier a
   snapshot stays equal to the active rows.
4. `IndexInv`: the properties themselves, what they say of sessions that
   authenticate extended to expired ones, so that no step needs an argument about
   the clock; the exception is the request that is about to take the session out
   of the index.

Where the clocks meet, the proof needs three facts about whole seconds: the
index keeps the exact expiry, the row keeps it cut to seconds, and since
`Lifetime` is a whole number of seconds cutting commutes with adding it.
`SessionsAssumption` says that, that a second has at least one tick, and that
"None" is none of the values beside it.

`ClientProofs` proves, for the session and however many requests are under way (`Strays`):

| Theorem | Statement |
|---|---|
| `ClientTypes` | `[]TypeOK` of the module |
| `ClientCachesNothing` | `[]SignedOutCachesNoQuery` |
| `ClientSeesLogin` | the action property `LoginIsSeen` |
| `ClientSeesSetup` | the action property `SetupIsSeen` |

`SignedOutCachesNoQuery` needs `SignedOutIsQuiet`: a signed-out client has no data
request whose answer would be cached, since whatever signs out also gives up the
page's request. `LoginIsSeen` needs `RefreshIsFresh`: a refresh that sent its own
request still waits for it, and a "no session" on its way means that there is
none, because only the flows that sign in make a session and there is one flow
at a time. `SetupIsSeen` needs more, because a setup may hear of its session first
and wait for the status afterwards: in between no 401 of an earlier session may
reach the listener. None can, since before the setup nobody was signed in, so no
request has an answer of an earlier session (`NobodyBeforeSetup`, `SetupIsAlone`);
and what the setup was told stays cached until it enters (`SetupIsFresh`). The type
invariant needs `Fits`: the requests besides the page's stay
within their bound together, not each kind by itself.

It proves for the upload page, for any finite set of files, any limits and any
number of workers (`UploadAssumption`):

| Theorem | Statement |
|---|---|
| `UploadKeepsTypes` | `[]UploadTypeOK` |
| `UploadRequestsHaveAWorker` | `[]RequestsHaveAWorker` |
| `UploadLimitsAreKept` | `[]LimitsAreKept`: the batch, the requests at the server, the object URLs |
| `UploadBatchIsConsistent` | `[]BatchIsConsistent` |

`UploadInv` adds to `RequestsHaveAWorker` that no row in a worker's hands is left
to be drawn, that workers are busy only during a run, and that every request in
flight has its controller registered on an active page: that is why aborting the
controllers, on leaving and on a 401, stops everything. `RowInv` adds what the
rows show: what a run has left is unfinished (`LeftIsUnfinished`), a worker is
one of the run's and sends the visibility the run closed over (`WorkersUpload`),
and what is neither left nor with a worker was tried (`RestIsTried`). The limit
on requests is a counting argument: the requests map injectively into the
workers of the run.

`PageProofs` proves three pages, each with an invariant of its own:

| Theorem | Statement |
|---|---|
| `LibraryTypes` | `[]LibraryTypeOK` |
| `LibrarySnapshotIsOnDisk`, `LibraryDeletedAreGone`, `LibraryShowsWhatIsFound`; together `LibraryListIsTrue` | `[]MigrationListIsTrue`: the cached snapshot is on the disk, a deleted file does not come back to a list, a refresh shows what it found |
| `LibraryDeletesWhatIsConfirmed` | the action property `OnlyConfirmedAreDeleted` |
| `SettingsTypesHold` | `[]SettingsTypeOK` |
| `SettingsPageIsCurrent` | `[]SettingsAreCurrent` |
| `SettingsDraftSurvives`, `SettingsProfileEditsSurvive`; together `SettingsEditsSurvive` | the action property `EditsSurvive` |
| `RecordTypesHold` | `[]RecordTypeOK` |
| `RecordListIsConfirmed` | `[]ListShowsWhatIsConfirmed` |

* `LibraryInv`. On the server, a scan and a deletion exclude each other, so what is
  known to be gone is in neither directory nor snapshot, and what was found for a
  refresh is in directory, snapshot and every scan under way (`ServerInv`).
  `ListInv` carries both facts to the answers on their way and to the lists,
  except lists for which an older fetch outlived an invalidation (`outdated`).
  What a lost request does later only takes away: it removes a file from directory
  and snapshot in the same order, and from what is due. `DeletionIsShown` ties the
  path that is just being deleted to the dialog, also after the connection is lost.
* `SettingsInv`. As long as requests have not overlapped (`crossed`), at most one
  save or read of the settings is under way, and every answer on its way, and
  every cache at rest, is what the server has stored.
* `RecordInv`. An identifier is given once, so a record that was removed is none
  the server will have again (`IdsAreUsed`); answers on their way and a list at
  rest show what was confirmed (`ListIsConfirmed`).

Their assumptions are `LibraryAssumption`, `SettingsAssumption` and
`RecordAssumption`: the ranges of the constants, a "no data" that is no data, and,
for the settings, that every level can be typed.

`ModalProofs` proves for any finite set of dialogs and any triggers
(`ModalAssumption`: dialogs, triggers and the elements of the page differ) that
the types hold (`ModalTypesHold`) and `[]ModalsAreSound` (`ModalPageIsSound`): only
the topmost dialog can be used, the page is inert and does not scroll exactly
while a dialog is mounted, nothing stays locked after the last one, and the focus
is where it belongs. The invariant `ModalInv` says that the stack determines all
the rest: `LayersAre` gives what each dialog has put in the background, how often
each element is locked and what is inert as functions of the stack. The hard
step is `Cleanup` of a dialog in the middle of the stack, in whatever order exits
end: the dialogs above it keep their locks and forget it as background, the ones
below and the page lose one lock each, and an element becomes usable only when
its count reaches zero and it was not inert by itself. The lemmas about removing an entry from a sequence without
repetitions and counting the layers above an element (`CountAbove`) carry it.

`ImageLibraryProofs` proves the image library in three parts, each with an
invariant of its own:

| Theorem | Statement |
|---|---|
| `GalleryTypes` | `[]GalleryTypeOK`, the limit of the selection included |
| `ChangesAreShown` | `[]ConfirmedChangesAreShown` |
| `DeletionsAreAsShown` | `[]DeletionIsAsShown` |
| `FormTypes` | `[]FormTypeOK` |
| `FormIsTheAddress` | `[]FormStandsForAddress` |
| `HistoryTypes` | `[]HistoryTypeOK`, the limit of remembered positions included |
| `DeletionReturnsHolds` | the action property `DeletionReturnsToLibrary` |
| `RestorationHolds` | `[]RestorationProceeds` |

* `GalleryInv`, for any finite set of images, any page size, limit of the
  selection and number of requests (`GalleryAssumption`). The properties speak of
  a list or a detail that counts as fresh; the invariant speaks also of the
  answers on their way, which will count as fresh when they arrive (`ListInv`,
  `DetailInv`). It replaces "nobody is changing the image" by the weaker "no
  change the server has made is still to be confirmed" (`Unconfirmed`), because a
  request that was only sent has changed nothing yet. The two ways to confirm
  differ, and so do the arguments. An invalidation makes every list stale and
  replaces its fetch, so nothing old is on its way, except where `overtaken` says
  so: the proof of `InvalidateStep` shows that a fetch is kept only there. For a
  detail, `SyncDetail` cancels the fetch before it writes the confirmed value:
  without the cancellation the lemma `SyncedDetail` is false, which is the mutant
  of the property. A detail page cannot do that for its own change: `Invalidated`
  replaces a fetch only if the page is still shown and has data, and
  `RefreshDetailsStep` shows that a fetch is kept exactly where `outlived` says so.
  `fetchNextPage` keeps the old pages, which is sound only since
  the list is not stale when it starts. For the dialog, `DialogIsAlone`: while it
  is open the page is the list page and only its own deletion may be pending, so a
  confirmed deletion starts on a page that has nothing else under way.
* `FormInv`: the types, and an unedited form stands for its address. What carries
  it are two lemmas about numbers. `SizeComesBack`: a size in tenths of a MiB,
  rounded to bytes and back, is the same, for every size. `DayComesBack`: so is a
  day that goes through its first or last hour in UTC, in every zone from -12 to
  +14. The other direction does not hold (an address may be made by hand with any
  number of bytes and any hour), so `ApplyingSettles` promises only that it is
  rounded once.
* `HistoryInv`. Entries have keys of their own (`EntriesDiffer`), and that includes
  the entry of a page that is still shown after the browser has left it; remembered
  positions belong to entries of the library (`PositionsAreOfLists`) and have one
  for each key, which the removal of an entry from the middle of the list keeps
  (`OneIsRemoved`, `Forgets`). Every step is a move of the history and a change of
  the list, and each half is proved alone. For the return after a deletion two facts
  are added: below a page that was opened from the library lies the library
  (`LibraryIsBelow`), so going back one entry leads there; and a page that still
  means to return is the one shown, the browser has not moved in the history, and
  its entry is the current one or has only pushes on top (`ReturnIsMeant`). For the
  restoration, whatever ends with a position that is not reached fetches the pages
  that are missing (`RestoreStep`).

Every property of the runs is proved, except the liveness properties under
fairness, which this prover does not reach: `LockIsGranted`, `RequestsReturn` of
`Catalog` and of `Sessions`, `RunEnds`, `SessionSettles`. They are only
model-checked. So is the disagreement of `import_at_once`, which is a
counterexample.

## 5. Not modelled

* Of the server: decoding and encoding of images, the character rules of alias
  paths, the HTTP encoding of requests and answers, command line and
  configuration. API tokens, first-run setup (beyond what the browser sees of
  it), maintenance, delivery over HTTP and the processing gate are in the plan.
* Of the query cache: retries of failed requests, garbage collection (except in
  `LibraryHistory`, where a list may be collected) and cursors as such; a page
  starts after the last image shown, which is what a cursor stands for.
* Of the migration page: leaving it while a request of its own is under way. The
  server side of that is the same as a lost connection.
* Of the pages: conversion and alias creation on the detail page, which only
  invalidate the queries modelled here; upload progress; the second page of the
  migration and alias lists, which work like the one in `ImageGallery`.
* Small controls (date picker, menus and the navigation sheet, copying links):
  local state of one widget, no request to the server.
* Presentation: inputs, icons, translations, the read-only system overview,
  remembered preferences, and the design study under `docs/design`.

`PROJECT.json` lists every component with its status.

## 6. What the models found

`docs/architecture.md:13` says that a successful import updates the image and
the alias index in one go. The importer calls `Index.Add` and then
`Index.AddAlias`; a read between them finds the image under its id and not under
its alias. Run `import_at_once` shows that state. It does no harm: the alias
follows at once, and it never leads to another image.

Observations that contradict no document:

* An image that a rebuild left out because its file was missing, whose file is
  restored and which is then converted, is published without its aliases until
  the next rebuild: this is the exception in `EveryAliasIsServed`.
* Nothing synchronises a file to disk before its row is committed;
  `RowsKeepTheirFile` therefore exempts files that something outside the program
  has touched.
* The settings page saves the default visibility and the processing settings
  independently, and each answer replaces the whole cached settings. When two of
  them overlap, an older answer may be shown until the next fetch (`crossed`).
  The answer to a save also replaces a draft that was edited meanwhile.
* A change confirmed while the first fetch of a list is under way joins that
  fetch, and loading the next page replaces the refetch a change has asked for:
  in both cases a list may count as fresh and show the state before the change
  (`overtaken`).
* A visibility change made on a detail page only invalidates the cached detail
  (`image-detail-page.tsx:50`), while the library cancels the fetch under way first.
  If the user has left the page before the change is confirmed, a fetch under way is
  kept, and its answer from before the change may settle as fresh (`outlived`).
* A deletion of migration images that fails for the page because the connection
  was lost may go on at the server: `Delete` checks the context at `service.go:171`
  and then waits for a scan at `:175`. The file is deleted after the dialog was
  closed, and if another file was copied in under its path meanwhile, that one is.
* A detail page that has pushed another page returns to the library when its
  deletion is answered before React has committed the push: it goes back one entry
  or replaces the pushed one (`image-detail-page.tsx:63-66`). Having come from the
  library it ends on the page of the deleted image. Only moves in the history, which
  raise `popstate`, withdraw the return.
* A login or a setup whose refresh joins a session request sent before it may be
  told that there is no session (`joined`).
* A late 401, from a request that was sent in an earlier session, signs out a
  client that has logged in again meanwhile; the next session request finds the
  session alive.
* A deletion or a change whose answer is lost is reported as failed although the
  server has executed it; an upload retried after a lost answer is stored twice.

## 7. Plan

Done: the locks, the catalogue and the sessions of the server, with all their
safety proved; the web interface with the migration library and the settings on
both sides, with all safety proved. Left, in the order of importance:

1. `ApiTokens`: table, in-memory index, expiry, and the rebuild that reloads it.
   Question: does a revoked token come back with a snapshot or with its own
   creation (`internal/apitoken/service.go:91`).
2. `FileLifecycle`: files, thumbnails and temporaries with their ages, the steps
   of upload, import, conversion and deletion that create and remove them,
   crashes (`internal/image/upload.go:206`), and the daily task
   (`internal/maintenance/service.go:217` and `:262`). Questions: does the daily
   task ever remove a file that is referenced or about to be; does every orphan
   go in the end.
3. `Delivery`: the handlers that read the index first and open the file later
   (`internal/httpapi/delivery_handler.go:142`), against the requests of `Catalog`.
4. `ProcessingGate` (leases taken and released along every path out of an upload,
   import and conversion, `internal/image/upload.go:108`), `LoginLimiter`
   (`internal/httpapi/login_limiter.go:26`), `Setup` (the one-time token under two
   simultaneous requests, `internal/setup/service.go:90`).
5. `Pagination`: key set cursors against concurrent insertions and deletions
   (`internal/image/repository.go:76` and `:155`).
