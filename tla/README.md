# FDM Monster in TLA+

FDM Monster is a server that manages a farm of 3D printers through their
OctoPrint instances.  It is one Node process: handlers run one at a time, and
interleave wherever one of them awaits a database reply, an HTTP reply, a timer or
a callback.  That is where its state can go wrong, and what these modules are
about.  Paths below are relative to the server's source directory `src/`.

## 1. The system

| Component | State | Operations | What makes it hard | What makes it correct |
|---|---|---|---|---|
| OctoPrint sockets: `services/octoprint/octoprint-sockio.adapter.ts`, `utils/websocket.adapter.ts`, `state/printer-socket.store.ts`, two tasks | an adapter per enabled printer: socket state, API state, `reauthRequired`, the WebSocket it refers to | reconnect task (every 2 s), restore task (every 15 s), printer events, manual reconnect, WebSocket handlers | session set-ups of two HTTP requests; close events that come late; handlers bound to an adapter that has moved on; faults of network and peer | one socket at a time, never a dead one; no connection leaks; after faults every enabled printer gets connected |
| Printers: `services/printer.service.ts`, `state/printer.cache.ts` | the documents; a cached copy; the adapters' credentials | create, import, update, patches, delete, delete all, load, restart | writes and their events are two steps; requests overlap, also with a boot that loads late; a write may fail part-way | subscribers agree with each other, and with the database when nothing overlaps |
| Floors: `services/floor.service.ts`, `state/floor.store.ts` | floors with positions of printers; a cached copy | create, rename, renumber, place and remove a printer, delete | read-modify-save over versions; deletion of a printer in between; positions given unchecked, coordinates given as text | one printer per place, no position of a deleted printer, cache agrees |
| Printer files: `services/printer-files.service.ts`, `state/printer-files.store.ts`, `state/file.cache.ts` | a file list per printer, in the document and in a cache | upload, delete, clear, purge, reload | read-modify-write of the whole list | the two lists agree, no file disappears unasked |
| Uploads: `state/file-upload-tracker.cache.ts` | current, done and failed uploads | add, progress, failure | progress that ends before the request does | an upload ends once, as what it was |
| Accounts: `services/authentication/user.service.ts`, `controllers/user.controller.ts`, `controllers/first-time-setup.controller.ts` | users: owner (root user), admin, verified | register, delete, verify, make owner, wizard, demo account | checks of "the last one" apart from the write; a repeated boot that resets the demo account meanwhile | there is always an owner and an admin |
| Sessions: `services/authentication/auth.service.ts`, `refresh-token.service.ts` | refresh tokens with their attempts | login, renewal, logout | a read, a check and a write, each a call of its own; users deleted meanwhile | attempts are counted, no session outlives its user |
| Roles: `services/authentication/role.service.ts` | documents, a list of them, ids granted to users | synchronisation, grant | the list is emptied and filled across calls | a granted role is one that is found again |
| Settings: `services/settings.service.ts`, `state/settings.store.ts` | one document, one copy | a patch per section | whole-document write-back | no patch is lost |
| Tasks and boot: `services/core/task-manager.service.ts`, `tasks/boot.task.ts` | registered tasks and their timers; what has been loaded | register, enable, disable; the boot sequence | failure of a step, retry while serving, crashes, a job whose timer may not stop | a boot that ends leaves every cache loaded and every task scheduled, once |
| Migrations: `mongo-migrations/` | the fields of the documents, the changelog | one call after the other | interruption and repetition | the result is as if nothing had been interrupted |
| Print completions: `tasks/print-completion.socketio.task.ts` | records | message | emitter and listener meet only in an untyped event | the end of every print is recorded |
| Events cache: `state/printer-events.cache.ts` | last messages per printer | message, delete | late messages of deleted printers | entries only for printers |
| Batch calls, commands: `services/batch-call.service.ts`, `controllers/printer.controller.ts` | - | patches and commands of several printers at once | decisions from the cache, partial failure | maintenance is kept, an answer means that it is over |
| YAML: `services/core/yaml.service.ts` | - | export, import | matching by strategies, translation of ids, edits in between | a restored backup changes nothing; positions follow their printers |
| Connection tests: `state/test-printer-socket.store.ts` | one socket | test | tests that overlap share it; it may end by itself | no connection is left, a lone test is about its own |
| Client bundle, releases: `services/core/client-bundle.service.ts`, `server-release.service.ts` | the files of the client; the latest release | download, compare | interruption while files are replaced | a client the server trusts is whole |
| Gateway, plugins, logs, cameras, G-code, configuration | - | I/O or plain storage | - | - |

### How they interact

* `PrinterService` writes to the database and then emits `printerCreated`,
  `printerUpdated`, `printersDeleted` or `batchPrinterCreated` on one
  `EventEmitter2`.  `PrinterCache`, `PrinterSocketStore`, the events cache and
  others subscribe; `emit` calls them synchronously, one after the other.
* `PrinterSocketStore` creates, resets and deletes adapters on those events, and
  the reconnect task calls `reconnectPrinterSockets` on it.  The restore task
  closes and resets the adapters that are closed or aborted.
* Adapters emit `octoprint.*` events for each message; the events cache and the
  print-completion task subscribe.
* HTTP requests resolve their printer through `PrinterCache`
  (`middleware/printer.ts`) and call services, which read the database again.
* `FloorService` and the file services read `PrinterCache` and their own documents.
* `BootTask` connects, migrates, loads settings and caches in order, and then
  registers the periodic tasks; HTTP is served after its first attempt, even when that
  has failed.
* Requests mostly meet in the database: a handler reads a document, decides, and writes
  in a later call.

## 2. The modules

| Module | Purpose |
|---|---|
| `PrinterSockets` | the socket life cycle, one action per handler |
| `SocketSlots` | abstract: an adapter is a slot for one connection |
| `MCPrinterSockets` | instances for TLC |
| `PrinterSocketsProofs` | its invariants and the refinement of `SocketSlots`, for all constants |
| `PrinterFleet` | printer documents, events, and their two subscribers |
| `MCPrinterFleet` | instances for TLC |
| `PrinterFleetProofs` | its invariants, for all constants |
| `FloorPlan` | floor documents with positions of printers, and the floor store |
| `MCFloorPlan` | instances for TLC |
| `Actors` | printers and requests, the constants the modules below share |
| `TaskManager`, `Migrations`, `Boot` | tasks and timers; the migrations; the boot sequence, which uses both |
| `MCBoot` | instance for TLC |
| `Accounts`, `Sessions`, `Roles`, `Settings`, `YamlTransfer`, `Releases` | what a server is administered with |
| `MCAdministration` | instance for TLC: these six side by side |
| `PrinterFiles`, `PrintEvents`, `ConnectionTests`, `PrinterCalls` | what is kept per printer, and requests about single printers |
| `MCPrinters` | instance for TLC: these four side by side |
| `FloorPlanProofs`, `BootProofs` | invariants of `FloorPlan`; of `Boot` and the migrations |
| `AccountsProofs` | `OwnerStays` and `AdminStays` of `Accounts`, and an invariant of `Roles` |
| `YamlTransferProofs` | invariants of `YamlTransfer` |
| `AdministrationProofs` | invariants of `Settings`, `Sessions` and `Releases`; the composition of the six |
| `PrintersProofs` | invariants of `PrinterFiles`, `ConnectionTests`, `PrinterCalls` and `PrintEvents`; their composition |

### PrinterSockets

A step is the code between two awaits.

| Model | Code |
|---|---|
| `reg[p]` | `printerSocketAdaptersById[p]` |
| `ad[a]` | `socketState`, `apiState`, `reauthRequired`; `old`: the session was obtained with credentials since replaced |
| `sock[a]` | `a.socket` |
| `conn[c]` | a `ws` WebSocket, the adapter its handlers are bound to, and whether it has been sent a session |
| `run[r]`, `sess[r][a]` | an execution of `reconnectPrinterSockets`: which `Promise.all` it awaits, and what each of the promises awaits |
| `restore` | what the restore task has listed and not visited |
| `StartReconnect`, `OpenPhase`, `Settle` | the two loops of `reconnectPrinterSockets`; the second starts in the step in which the last promise of the first settles |
| `LoginSucceeds`, `LoginFails`, `UserFails`, `OpenSocket`, `SendReauth`, `ReauthSent`, `ReauthNotSent` | the continuations of `setupSocketSession`, followed by `open()` or by the rest of `reauthSession` |
| `StartRestore`, `RestoreAdapter` | `PrinterWebsocketRestoreTask.run`; the API call between two iterations only feeds its log |
| `SaveNewPrinter`, `SavePrinter`, `DropPrinter` | `createOrUpdateSocket` and `deleteSocket` |
| `ReconnectOctoPrint` | the method of that name |
| `ConnOpened`, `ConnMessage`, `ConnClosed`, `ConnRefused`, `ConnError` | `onOpen`, `onMessage`, `onClose`, `onError` |

What belongs to the `ws` library is marked external in the map: `close()` on a
connecting socket aborts the handshake and raises error and close events on the
next tick, before any other handler (`AbortEvents`); on an open one it starts a
closing handshake during which messages can still arrive (`closing`).  State
`opened` never survives the step that sets it (`afterOpened` calls `sendAuth`
before its first await), so it has no place in `SocketState`.  Printers that are
disabled have no adapter; which of "disabled" and "deleted" it is makes no
difference to the store, so both are `DropPrinter`.

Not modelled: message contents other than the re-authentication request, the
throttle message, the user name, the snapshot for clients.

### PrinterFleet

| Model | Code |
|---|---|
| `db[p]`, `unused` | the document of p; ids MongoDB has not given out |
| `cache[p]` | `PrinterCache` |
| `adapter[p]` | credentials of the adapter of p in `PrinterSocketStore` |
| `req[r]` | a request: what it awaits, the printers it is about, the documents it holds |
| `Create`, `ImportNext`, `ImportFails` | `create`, `batchImport` |
| `StartUpdate`, `Save`, `Reject` | `update`: read, then validation and `save()` |
| `StartPatch`, `FindByIdAndUpdate` | `updateEnabled`, `updateDisabledReason`, `updateConnectionSettings`, `updateFeedRate`, `updateFlowRate`, `updateLastPrintedFile` |
| `Delete`, `DeleteAll` | `delete`, `deleteMany` |
| `Emit` | the rest of a request: `emit`, which calls the handlers of both subscribers |
| `CacheHandles` | the handlers of `PrinterCache` |
| `SocketsHandle`, `CreateOrUpdateSocket` | the handlers of `PrinterSocketStore`, which look at the adapter that is there and at `enabled` |
| `LoadPrinters`, `Loaded`, `LoadedSockets`, `LoadFails` | `loadPrinterSockets` in a boot repeated while requests are served: the printers are listed, then the cache is set and all adapters replaced |
| `Restart`, `RestartUnloaded` | a restart, after which requests are served with everything loaded, or, if the database was away, with nothing |

`save()` writes the paths that were changed since the document was read
(`Modified`), but `update` emits the document it holds.  A document is reduced to
`enabled`, whether a reason is set, and the login (URL and API key).  `raced` and
`suspect` are history variables: no action reads them except to maintain them;
they record which printers two requests have been about at once, which the
property needs to say; so are printers not loaded yet.  What a printer that was deleted before a
load puts back into the cache, and what a load sets that a request changed meanwhile, is
part of it.

`PrinterSockets` and `PrinterFleet` meet at `adapter`: `reg[p] # None` there is
`adapter[p] # None` here, `SaveNewPrinter`, `SavePrinter` and `DropPrinter` there are
the adapter part of `SocketsHandle` here.  They are not one module because the state
of one adds nothing the properties of the other look at.

### FloorPlan

A step is the code between two database calls; the call itself is another one, so
that calls of two requests can be executed between the read and the save of either.

| Model | Code |
|---|---|
| `db[f]`, `unused` | the `printers` array of the document of f, in its order; ids not given out |
| `cache[f]` | the entry of f in `FloorStore` |
| `known` | the keys of `PrinterCache` |
| `req[r]` | a request: the call it awaits, its floors, the documents it holds, how it changed `printers`, the printer it is about, whether the version (`__v`) is still the one it read |
| `AddPrinter`, `RemovePrinter`, `Rename` | `addOrUpdatePrinter`, `removePrinter`, `updateName` and `updateLevel`, up to `save()` |
| `text`, `Kept` | coordinates given as text: `===` finds no stored number equal to them, so nothing is cleared; they are cast when they are stored |
| `Save`, `Refused` | `save()`: version check, write; or its refusal for the unique level |
| `Reply`, `Forget` | what `FloorStore` does with the reply |
| `Create`, `Given` | `create`, with any positions (at most `MaxGiven`): nothing looks at them |
| `Delete`, `GetFloor`, `ListCache` | the methods of those names |
| `DeletePrinter`, `Pull`, `List`, `CreateDefault`, `Load` | `deletePrinterFromAnyFloor` on the `printersDeleted` event, and `loadStore` |
| `DeleteAllPrinters` | `deleteAll` of the printers, which no floor hears of |
| `Restart` | a crash or stop, and the boot that loads the store |

How an array was changed decides what `save()` sends and checks, and that is what
protects a floor from overlapping requests.  The document library (Mongoose) is not
part of the repository; `PlacedHow`, `Written`, `Checked` and `Bumped` state what it
does and are external in the map:

| Change | Sent | Refused if the version changed | Makes a new version |
|---|---|---|---|
| a new array (`filter` that removes, `splice`) | the whole array | yes | yes |
| an assignment to one index | that element | yes | no |
| `push` | the new element | no | yes |
| none (a rename) | no positions | no | no |

The `updateMany` of `Pull` bypasses all of this: it neither checks nor makes a version.

Four histories say what a property excepts.  `suspect` are the floors that two requests were about at
once.  `clashing` are those whose positions may clash: given so at creation, placed with
coordinates as text over another printer, or saved into a document that another request
had changed (`Merged`).  `orphaned` are those that may have positions without a printer: given so at
creation, left by `deleteAllPrinters` or by a restart between the deletion of a printer and that of
its positions (`Pulling`), or brought back by a save that waited while the positions were
removed (`Restores`).  `shifted` are those whose positions `Pull` moved while a save by index (`ByIndex`)
waited.  `Operation` restricts what clients ask for, so that a run can look at one
interplay.

Not modelled: the name and the level of a floor (but for the refusal of a save); a call
still being executed by the database after the server that made it is gone.  The update of a
whole floor comes from the YAML import alone and is in `YamlTransfer`.

### TaskManager, Migrations and Boot

`TaskManager` gives the effect of each method on the state of a task (`Registering`,
`Enabling`, `Disabling`) and the scheduler's steps; `Boot` says when they are called.

| Model | Code |
|---|---|
| `tasks[t]` | the entry of t in `taskStates`, the timers of its jobs in the scheduler (`strays`: of jobs that were stopped and go on), the time-out of a delayed task, its executions |
| `bootAt[run]` | how far `BootTask.run` has come when called by `runOnce` (`"direct"`) and by its job |
| `Connect`, `ConnectFails` | `createConnection`; a `mongoose.Error` enables the job and ends the run (`RetriedLater`) |
| `SyncIndexes`, `SyncFails` | `syncIndexes`, which creates collections; its failure, with some created, is answered like one of the connection, or swallowed, and then the migrations are left out |
| `MigrateCall`, `MigrateRecord`, `MigrateEnds` | `migrateDatabase`: a call of the next migration, its entry in the changelog, and the end, by success or by an error, which `run` swallows |
| `Load`, `LoadFails` | each of the steps from `loadSettings` to `loadFloorStore` |
| `RegisterTasks` | the loop over the tasks, and the boot task's disabling |
| `Start`, `ProcessDies`, `DatabaseGoes`, `DatabaseComes` | the environment |

`job.stop()` is said by `services/core/task-manager.service.ts`, line 157, not to work as intended
(#1071).  `Disabling` therefore takes either outcome: the timer ends, or goes on as one of `strays`, and
the boot sequence may then be run again, every five seconds, for as long as the process lives.

In `Migrations` a document is the set of its fields and a migration a sequence of calls
(`Rename`, `Unset`, `Assign`, `Move`); documents of one collection are alike.  The calls
are not part of the transaction their migration opens, since none is given its session:
an interrupted migration is repeated from its first call.

### Accounts, Sessions, Roles and Settings

Each call to the database is a step; `accountReq[r]`, `sessionReq[r]`, `roleReq[r]`
and `settingsReq[r]` say which one request r waits for, and what it holds.

| Model | Code |
|---|---|
| `SetRootUser`, `SetVerified`, `DeleteUser`; `CheckRootUser`, `FindUser`, `CountOthers`, `SaveUser` | the requests of `UserController`; the calls `UserService` makes for them, in order.  A deletion ends the other requests about the account: what they still do finds nothing and changes nothing |
| `StartWizard`, `FindByUsername`, `RegisterOwner`, `CompleteWizard` | `completeWizard` |
| `RegisterUser` | registration |
| `StartDemo`, `FindDemoUser`, `RegisterOwner`, `NextOfBoot`, `RepeatBoot`, `BootSucceeds` | `createOrUpdateDemoAccount`, one call after the other: found or registered, then `setVerifiedById`, `setIsRootUserById`, `setUserRoleIds`, each by the steps of the requests above; in the first run of the boot, or in later ones while requests are served |
| `Login`, `LoginSigned`, `PurgeOutdated`, `CreateToken` | `loginUser` |
| `Renew`, `FindToken`, `FindTokenUser`, `RenewSigned`, `CheckAttempts`, `CountAttempt` | `renewLoginByRefreshToken` and `increaseRefreshTokenAttemptsUsed` |
| `Logout`, `DeleteMember`, `EndSessions`, `DropToken` | `logoutUserId` and the deletion of a user; of one token |
| `SyncRoles`, `FindRole`, `CreateRole`; `GrantRole` | `syncRoles`; `getSynchronizedRoleByName` and what uses it |
| `FindSettings`, `CompleteSettings`, `WriteSettings`, `SettingsReplied` | the three calls of every patch, and the store's copy |

Histories (`raced`, `sessionMixed`, `strays`, `rolesMixed`, `settingsLost`, `settingsMixed`)
record which overlaps and failures have happened, since the code does not exclude their
effects: the properties say that nothing else has these effects.  In `Accounts` a request carries what it
overlapped with (`raced`).

### YamlTransfer

`Export` writes the file (`backup`), the operator edits printers and floors, and
`StartImport`, `AnalysePrinters`, `AnalyseFloors` find for each printer and floor of the
file what it is to be written to (`PrinterTarget`, `FloorTarget`).  The four loops of the import are
the writes that are left (`import.writes`) and an order on them (`Before`): printers before floors,
of each what is created before what is updated.  They are made one by one, with edits in
between.  `import.idMap` is `printerIdMap`; `putIn`, `created` and `floorsIn` are histories.

| Model | Code |
|---|---|
| `CreatePrinter`, `UpdatePrinter`, `CreateFloor`, `UpdateFloor` | the bodies of the loops |
| `Mapped`, `MappedUpdate`, `Translated` | the entries of `printerIdMap`, and what it makes of positions |
| `ImportDone`, `ListFloors`, `StoreLoaded` | `loadStore` at the end; `listCache`; the default floor `loadStore` creates when there is none |
| `EditPrinter`, `DeletePrinterDoc`, `RecreatePrinter`, `DeleteFloorDoc`, `ClearFloor` | requests of the operator, each as one step |

The printers and floors at the start, the places and the levels are constants.  There is at least
one floor at the start: the boot loads the floor store.

### Releases

The client is three parts (`package.json`, `index.html`, the assets) that the download
removes one by one and writes anew; it can be stopped anywhere.  `told` is what the
server answers about releases.

### PrinterFiles

| Model | Code |
|---|---|
| `fileDb[p]`, `fileCache[p]` | `fileList` in the document of p; the entry of p in `FileCache` |
| `uploads[t]` | where the tracker lists the upload with token t, and whether it listens to it |
| `fileReq[r]` | what request r waits for, the list it is about to save, whether by a push, whether the version is still the one it read |
| `Refresh`, `CleanFiles`, `DeleteFile`, `ClearPrinterFiles`, `PurgeFiles`, `PurgeNext` | the changes, from the reply of OctoPrint to the call of `save()` |
| `SaveList`, `RefuseList`, `ListSaved` | `save()` or its refusal; what the store does with the reply |
| `StartUpload`, `UploadProgress`, `UploadFails`, `UploadSucceeds` | `uploadFile` of the API client, as controller and tracker see it |

The rules of the document library are those of `FloorPlan`: a list that was assigned is
checked against the version, a pushed file is not, and both make a version.

### PrintEvents

A message of a printer's socket is emitted once and reaches `PrinterEventsCache` and
`PrintCompletionSocketIoTask`.  The cache keeps it (`CacheEvent`), also if its printer has been deleted
(`stray`).  The task listens with two arguments, the name of the event and its data; the adapter
emits one object (`Emitted`), so `handleMessage` returns at its first condition (`Accepted`) and no end
of a print is recorded.  What it would do after that condition never runs and is not modelled.

### ConnectionTests and PrinterCalls

`testSocket` is the field of that name, `testsOpen` the sockets that are open, among them
any that would be left over.  `SocketDrops` is the end of one that OctoPrint
refuses or drops; the test goes on to wait for its time-out.  In `PrinterCalls` a batch (`Toggle`, `ConnectUsb`) decides at
once, from the cache (`listed`), and leaves calls that run on their own (`Write`, `Publish`,
`CommandEnds`).  `mode` is the printer reduced to on, off and in maintenance; OctoPrint is
external and reduced to its job.

## 3. What is model-checked

| Run | Instance | Properties |
|---|---|---|
| `sockets_recover` | 1 printer, 1 adapter, 2 WebSockets, 2 overlapping reconnect runs; 3 disturbances out of HTTP faults, WebSocket faults, manual reconnects; closing handshakes end in time | `NoLeakedConnection`, `FaultRecovery` |
| `sockets_disturbed` | 1 printer, 2 adapters, 3 WebSockets, 1 reconnect run; 3 disturbances of every kind; close events as late as they like | `TypeOK`, `AttachedIsLive`, `StatesAgree`, `OneSocketAtATime`, `RunEnds`, `NeverForgotten` |
| `reconnect_stuck` | 1 printer; a re-authentication request and manual reconnects, no fault | violates `ReconnectPicksUp` |
| `disabled_socket` | 1 printer; it is disabled, no fault | violates `DisabledHasNoSocket` |
| `fleet` | 2 printers, 2 requests, 2 logins, any initial database, restarts with and without a database, loads while requests are served | `TypeOK`, `SocketsFollowCache`, `CacheIsDb` |
| `floors` | 2 floors, 2 printers, 2 places, 2 requests, every operation, at most 2 positions given at creation, coordinates as numbers or text | `TypeOK`, `StoreIsDb`, `PlacesAreUnique`, `NoOrphans`, `IndexIsOwn` |
| `position_twice` | 1 floor, 2 printers placed at once | violates `PositionTakenOnce` |
| `printer_gone` | 1 floor; a printer is deleted while it is placed | violates `PrinterExists` |
| `boot` | 4 tasks, one of each preset; the database of the first release or none, at any migration; 3 faults, a failure of `syncIndexes` among them; jobs that stop or do not | `BootTypeOK`, `NothingTwice`, `NoReload`, `MigratedAsDesigned`, `BootCompletes` |
| `administration` | 2 requests (or 1 and a run of the boot); 1 user and the demo account, of either role; 2 tokens that can be used once; 3 roles, 4 role documents; 3 sections, 2 values; 2 printers and a floor, 1 edit, 3 lists of strategies; 2 releases | `AllTypeOK`, `OwnerStays`, `AdminStays`, `RenewalsCounted`, `NoStrayTokens`, `GrantsHold`, `NoPatchLost`, `StoreHasSettings`, `OwnPositionsImported`, `RestoreChangesNothing`, `TrustedIsWhole` |
| `printers` | 2 requests, 2 printers; 1 file, also one past its age, 1 upload token; 2 kinds of messages; tests whose sockets may end; every patch and command | `AllTypeOK`, `FilesAgree`, `NothingLost`, `UploadsHeard`, `EventsOfPrinters`, `LoneTestIsOwn`, `MaintenanceKept` |
| `prints_tracked` | 2 printers whose prints end | violates `PrintsTracked` |

What they show:

* **The socket an adapter refers to is never a dead one** (`AttachedIsLive`), even
  though handlers of closed WebSockets keep acting on the adapter, and **`open()`
  never replaces a socket** (`OneSocketAtATime`).  The price is paid elsewhere: a
  late close event deletes the reference to a newer, healthy socket, which then
  goes on unreferenced.  `NoLeakedConnection` therefore needs closing handshakes
  that end before the next session set-up does, which is `PromptClose`.
* **Faults heal** (`FaultRecovery`): from any state three faults can lead to, every
  enabled printer ends up authenticated with a current session, and stays so.
* **No run hangs, no adapter is forgotten** (`RunEnds`, `NeverForgotten`).
  `NeverForgotten` is what the tasks guarantee at any pace of the network:
  `unopened`, `closed` and `aborted` are always left.  It says nothing of the states
  the tasks do not look at; the next point is one.
* **A manual reconnect can strand a printer** (`reconnect_stuck`).  OctoPrint asks
  for re-authentication, the operator reconnects before the task runs:
  `resetSocketState` keeps `reauthRequired`, so the task re-authenticates on a
  socket that is gone and leaves `authenticating`.
* **A printer disabled at the wrong moment is connected** (`disabled_socket`): the
  session set-up goes on for an adapter that left the store, and opens its socket.
* **Cache and adapters never disagree** (`SocketsFollowCache`), although each has handlers of its own
  and the sockets' start from the adapter that is there, in any order of events and of
  loads.  One event reaches both in one step, since `emit` is synchronous.  **The database is
  followed** (`CacheIsDb`) except where two requests about one printer overlap, a load
  included, an import fails, or nothing has been loaded: events are emitted in the order of
  replies, `update` emits what it read, an update can emit after a delete.  One later
  request on that printer alone repairs it.
* **The floor store follows the database** (`StoreIsDb`) on floors that no two requests overlapped on.
* **A place is held twice** (`PlacesAreUnique`) only on a floor that was created so, by coordinates given
  as text, or by a save into a document that another request had changed; **a position
  outlives its printer** (`NoOrphans`) only if it was given at creation without one, all printers were
  deleted at once, the server stopped between the two halves of a deletion, or a save that
  waited meanwhile brings it back.  Other overlaps of requests are harmless to both.
* **A write by index hits the right element** (`IndexIsOwn`), whatever overlaps, because
  every change of a request that can move an element makes a new version.  The deletion of a
  printer, whose `updateMany` moves elements and makes none, is the exception (`shifted`): a save
  by index that waited meanwhile can hit another printer's position.
* **A place can be taken twice** (`position_twice`): clearing a free place changes
  nothing, so what is saved is a `push`, and that is not checked against the
  version.  Two requests that place two printers on one free place both succeed.
  **One client is enough** if it gives the coordinates as text, as every
  urlencoded body does: the validation accepts them, `===` does not match the stored numbers, and
  the schema casts them.  `PlacesAreUnique` excepts these floors, too.
* **A deleted printer can stay on a floor** (`printer_gone`): it exists when the request
  looks, is deleted and pulled from all floors, and is then pushed by the save.
* **The boot sequence never runs twice at once** (`NothingTwice`), by the direct run, the job, or timers that
  were not stopped, and it **ends** (`BootCompletes`), from any state three faults can lead to.
  **Sockets are not loaded again** under the tasks that use them (`NoReload`), as the job is
  disabled before these are registered; but only if `job.stop()` has stopped it: otherwise
  all adapters are replaced every five seconds, which the property excepts (`strays`).
* **Migrations bear their interruption** (`MigratedAsDesigned`), for printers and users.
  Floors are excepted: `syncIndexes` creates the collection that a migration renames
  another to, and that migration then fails for good.  `run` swallows the error, and
  the rest of the boot proceeds; so `BootCompletes` holds of a server that has not been
  migrated, too, by this error or by one of `syncIndexes`.
* **The last owner and the last admin stay** (`OwnerStays`, `AdminStays`) but for the overlaps
  that `Contended` lists: the check counts, and a later call writes.  The boot is one of those who
  overlap: repeated in demo mode, it demotes and re-roles the demo account in calls of its own while
  requests are served.  An owner is lost only to a change of an owner that overlaps with another
  or with a deletion, an admin to two deletions, or one and the demo account's role, or because the demo account is the only
  admin and is configured to be none.  Requests hold the id of
  an account (`Holds`), which the proof needs: were they about whoever has its name, a third
  request could delete the account and the set-up wizard create it again as the only owner, and
  the first, checked before, would take it away.  The run has two requests; the proof has any number.
* **Attempts are counted** (`RenewalsCounted`) unless two renewals with one token overlap,
  and **sessions end with their user** (`NoStrayTokens`) unless a login of that user was
  past its last check, or ending them failed, which is only logged.
* **A granted role is found again** (`GrantsHold`) unless two synchronisations overlap:
  both may then create the role, and names are not unique.
* **Patches of settings are lost only to overlaps** (`NoPatchLost`), and the store has what
  the database has when no request is under way (`StoreHasSettings`).
* **A restored backup changes nothing** (`RestoreChangesNothing`) if its first strategy tells
  its printers apart, and **positions follow their printers** (`OwnPositionsImported`), with
  an exception that the map of ids makes: the positions of printers that matched one with
  another id are discarded.
* **A client the server trusts is whole** (`TrustedIsWhole`) unless an update was stopped
  while it removed or wrote `dist`, or two overlapped: of `dist` only the page is looked at.
* **Lists and cache of files agree** (`FilesAgree`) and **no other request's file is lost**
  (`NothingLost`), by the version check.  Excepted are overlaps about one printer and the
  deletion of a file that is not listed: `splice` at index -1 removes the last of the list.
* **The tracker follows every upload** (`UploadsHeard`).  It does not end one that succeeds:
  the events have neither `done` nor `percent`.
* **The events cache has nothing of a deleted printer** (`EventsOfPrinters`) but what its socket delivered
  after the deletion, its close event at least.
* **No print completion is recorded** (`prints_tracked`): the adapter's one object is not the name the
  task's listener expects first.
* **A lone connection test is about its own socket** (`LoneTestIsOwn`), open and heard as long as the
  test waits, unless OctoPrint ends it; two at once answer for each other.  **Enabling in a batch keeps maintenance** (`MaintenanceKept`) unless patches of
  one printer overlap.

### Bounds

* `administration` and `printers` put parts side by side that share no state.  `part` says
  which of them moves, and the others stay where they start; so the states of the parts add
  up instead of multiplying, and one run covers them.
* Two requests are enough for every overlap of two; the properties speak of pairs.  Requests
  and printers are interchangeable, so the runs use symmetry (no property of these runs is a
  liveness property).
* `Bounded` stops at histories in which everything is excepted, and in `printers` takes
  uploads, changes of several lists, and events of several printers apart.
* `boot`: three faults are, for one, a death during a migration, the loss of the database and another
  death; a fourth finds the system in a state three have led to.  A `syncIndexes` that fails while
  the database is up is a fault, too: an index that can never be built, which keeps the boot
  retrying for good, is left out of the run.  No symmetry is used there.
* One user next to the demo account is enough to be the last, and two to take the last
  away together; a token that can be used once reaches its limit in two renewals.  Four role
  documents are one more than the roles, for the duplicate.
* Two printers on one floor and one edit: they can be matched crosswise, both match the
  same, be deleted, created anew, or renamed to each other.  `UsualConfig` leaves out of an
  export at most one of printers, floors and positions.
* One printer and one adapter are enough for recovery: adapters do not interact
  except through the `Promise.all` of a run.  A second adapter is there in
  `sockets_disturbed` so that a printer can be dropped and saved again while the old
  adapter lives on, in a set-up, in the restore task's list, or in a handler.
* Two WebSockets per adapter are enough for a new one to be open while the old
  one is closing; the third is for the second adapter.
* `Run` has two elements in `sockets_recover`.  Nothing in the store prevents two
  reconnect runs from overlapping; that they do not is left to the default of
  the scheduler library (`preventOverrun`), which a second registration of the task
  escapes.  Fairness only asks that some run starts again and again, so the
  behaviours without any overlap are among those checked.
* `MaxDisturb` = 3: each known way into trouble takes two (say, a message and a
  reconnect), and recovery starts from wherever three lead to.  Faults end, or
  recovery could not be stated; the tasks' actions and the good replies are unbounded.
* `fleet` has two requests, so every overlap of two is there; a printer's overlaps
  with two others at once are sequences of them as far as the subscribers see.  Two
  printers, so that imports and `deleteMany` have more than one.
* `floors` has two floors because the positions of a printer are deleted on all of
  them at once, and since the store is loaded as a whole.  `MaxGiven` = 2 is what two at
  one place take.  `Followed` says which states TLC goes on from (the properties are checked in
  those reached by one step from them, too): those with a printer left, with at most two
  positions on a floor, and with either both floors in use at one place, as long as one floor is
  not suspect and one neither clashes nor has orphans, or one floor in use at both places and
  in none of the three histories of documents.  Floors stay in these histories, and properties
  say nothing of them there.  One place is enough for the store, to which it makes no difference
  which place it is, and one floor for what is said of a single document.
* Floor ids run out; a default floor is then not created.  `Written` takes an
  index more than one past the end for the next one; it takes two deletions
  of printers during one save to get there.

### Fairness

`FairSpec` assumes weak fairness of: the starts of both tasks (interval timers),
each step of a session set-up (HTTP requests have time-outs), each step of the
restore task, the end of an opening handshake (`handshakeTimeout`), the end of a
closing one (`ws` destroys the socket after 30 s), and messages on a connection
that was sent a usable session (OctoPrint sends its state periodically).  Nothing
is assumed of operators, faults, or connections without a session.

`BootFairness` assumes weak fairness of the steps of a boot run (calls are answered or
fail), of the timer of the boot task, of a supervisor that starts the process again, and of
the return of the database.  Faults are bounded and not fair.

`PromptClose` is an assumption about times, not fairness: a closing handshake
takes one round trip, a session set-up two HTTP requests.  It can fail with a peer
that does not answer the close; the run that assumes it is named above, and
`sockets_disturbed` and all proofs do without it.

## 4. What is proved

All theorems are for every value of the constants.

`PrinterSocketsProofs` (`THEOREM Spec => ...`):

* `TypeCorrect`, `SocketsAreLive`: `TypeOK` is inductive; `AttachedIsLive` is
  so only with `OwnedIsLive` (a WebSocket that is alive has an owner, one that is not
  has none): otherwise a new connection could be given an object whose old handlers
  are still around.  The proof has one step per action, and the cases of `AfterClose`.
* `SocketsAreSlots`: each step maps to `Attach`, `Release` or `End` of `SocketSlots`, or
  to a stutter, from that invariant.
* `ConnectionsDoNotLeak`: under `PromptClose`, and with no printer disabled or deleted (both are
  hypotheses of the theorem, and the instance of `sockets_recover`): `NoLeakedConnection` is
  inductive with `ClosingIsLast` (while a WebSocket closes, its adapter has no other, so its
  close event drops no reference to a newer one) and `SetUpsRegistered` (a session is
  set up only for an adapter that is still in the store to be given the socket).
* `StatesAlwaysAgree`: `StatesAgree` is inductive as it stands, given `TypeOK`.  The proof
  goes over the writes rather than the actions: `WritesAgree` shows that each of the
  ways in which the code writes an adapter's states agrees, the other lemmas that
  every action writes in one of these ways, also to several adapters at once.

`PrinterFleetProofs`:

* `TypeCorrect`: inductive with what requests hold at the stages that read (`Reading`).
* `SubscribersAgree`: `HandlersAgree` compares what the two handlers of an event make of their own
  copies, `LoadedAgree` what a load makes of them; an event may not carry a printer that is
  null, which is what the handlers throw on.
* `CacheFollowsDb`: `CacheIsDb` needs the invariant `Sync`.  A request that is alone with
  a printer holds the document the database has (`Knows`, `Reading`), requests that
  share a printer are in `raced` and the printer in `suspect` (`RacesAreSeen`), ids not
  given out are unknown to everyone (`UnusedAreUnknown`), and a request in a stage is
  about as many printers as that stage allows (`StagesFit`).  A load is a request about all
  printers that were ever created.

`FloorPlanProofs`:

* `TypeCorrect`, `StoreFollowsDb`: from `FloorInv`.  A floor that is not suspect is `Clear`: at most one
  request is about it, and that request `Holds` what it needs at its stage: at a save a document that
  `Written` makes of the stored one, at a reply the stored one.  `AllFit` says what a request is about
  at each stage.  Sequences that `filter` shortens are described by the ranks of the indices
  that stay (`Ranked`), and the first index of a printer by the least element of a set.
* `PlacesStayUnique`: from `PlacesInv`: on a floor that is not `clashing`, what is stored, and each
  document that is to be saved, has one printer a place and one place a printer, however many
  requests are about it.  A save either leaves what is stored, or stores the document it holds,
  or is a merge, which the history marks (`SavePlaces`).
* `NoneOrphaned`: from `OwnersInv`: on a floor that is not `orphaned`, stored positions, and those that the
  saves under way bring back, are of `Owners`: printers that exist or are being deleted.  That
  a save stores printers of these two kinds only is `WrittenPrinters`.
* `IndexStaysOwn`: from `IndexInv`: a request that waits to save by index under an unchanged version
  finds at that index, in what is stored now, its own printer, although other requests may have
  written since.  `$pull` leaves a floor without the deleted printer as it is (`PulledUntouched`), and puts
  the others that such a request waits for among the `shifted`.

`BootProofs` (`THEOREM BootSpec => ...`):

* `NothingRunsTwice`, `SocketsAreLoadedOnce`: from `Phase`: a living server is `Starting` (the direct run is
  under way and the job disabled), `Repeating` (no direct run; the job has a run if and only if
  the task manager says so; if no timer goes on by itself, the job is enabled and other tasks are
  not known yet) or `Done` (no run; the job disabled).  `OneEach` bounds the timers and executions of
  each task.
* `MigrationsAreResumable` proves the action property `MigratedAsDesigned`, from `MigrationInv`: the
  fields of printers and users are those of a database that has gone through the recorded
  migrations and some calls of the next one, no fewer than `calls` says; an interruption sets
  `calls` back, never the fields.  `Reached` tabulates these fields, and `CallAgain` is the lemma that
  carries the proof: a call made again, after calls that follow it, changes nothing.  That a
  recursive `Migrated` makes of the oldest database what the table says is proved by unfolding it
  step by step along the nine migrations (`MigratedOneByOne`), of a fresh one that it stays
  without documents.

`AccountsProofs`:

* `OwnerAlwaysStays`, `AdminAlwaysStays` (`AccountsSpec => ...`), which are action properties: from
  `AccountsInv`.  A request about to take the owner's or admin's flag away, or to delete, and with which
  nothing contends, still finds what it has counted (`KeepsOwner`, `SparesOwner`, `KeepsAdmin`); this
  stays so because whoever could change it knows of the overlap and is known (`OverlapIsKnown`), and
  because what a request is about is there as long as the request is (`AboutAccount`), so that no
  account registered meanwhile is the one it checked.  A run of the boot is a request among the
  others (`BootAsks`, `NextOfBootFits`): in demo mode it is about the demo account, which nobody
  deletes then (`Suits`).
* `GrantsAlwaysHold` (`RolesSpec => ...`): from `RolesInv`.  Unless synchronisations have overlapped, every listed
  and granted role is the first document of its name (`AllLast`, `GrantsLast`), and a document
  about to be created has a name that none has (`CreatesNew`).  Documents are only appended, so
  the first of a name stays the first.

`YamlTransferProofs` (`THEOREM YamlSpec => ...`), all from `YamlInv`:

* `YamlTypeCorrect`: with the types go that ids given out next are new (`IdsAreNew`), levels differ
  (`LevelsDiffer`), the file has printers and floors that existed, each once (`FileFits`), and each
  write that is left is one of the file, fits the stage, and is there once (`WritesFit`).
* `OwnPositionsAreImported`: from `Undisturbed`, which holds as long as nobody edits during the import.
  `MapFollows` relates `printerIdMap` to where the printers went: a printer written under its own
  id is in it under that id, one that was created unless a printer of the file has been updated under
  the id it has in the file; and no write left is of a printer that is written or created.  `FloorsFollow` says
  that the floors of the file go to different floors, and that one already written has the translated
  positions; this needs that no printer is left when the first floor is written, which is
  what `Before` gives.  `NoneDangling` is the last conjunct of the property.
* `RestoringChangesNothing`: from `Unedited`.  Before the first edit the printers and floors are
  those of the start (`AtStart`), after the export those of the file (`AsExported`), and, if the first
  strategy tells the printers apart, every write left goes where its printer or floor is already,
  and the map is the identity on the printers written (`Restoring`).

The export lists ids in their order, and the analysis takes the first match: both are `CHOOSE`, whose
witnesses are shown to exist by well-founded order of the naturals (`InOrderOfInterval`,
`LeastOfNaturals`).

`PrintersProofs`, of the files and uploads (`THEOREM FilesSpec => ...`), all from `FilesTyped`, which is
`FilesTypeOK` with `Consistent`: the fields of a request fit its stage:

* `NoFileLost`: `ListsFresh` says of each request at its save that the list is made from what
  is stored, or the version is no longer its own.  Each write makes a version for all others
  about that printer (`OtherFresh`), so only the writer's own list is fresh after it.
* `CacheAgrees`: a printer about which exactly one request is, and that is not suspect, has
  a cache that differs from the document at most by what this request is changing; for a
  purge the printers it has still to visit are told from those it has.  The lemmas `...Follows`
  take the actions one by one.
* `UploadsAreHeard`: with the invariant that a token is in use by at most one request.

`PrintersProofs`, of the other components:

* `NoTestLeaks`, `LoneTestsAreOwn`: from `TestsInv`, in which the open sockets are at most the
  kept one (`OnlyKeptOpen`), tests that overlap are all in `together` (`OthersKnown`), and the
  socket of a lone test ends by itself only after it was opened (`DropsWaitForOpen`).
* `MaintenanceStays`, `AnswersEndBatches`: from `CallsInv`.  A call that no other overlaps with is
  the only patch of its printer, and the cache is right about a printer that no patch is
  under way of and that is not suspect; so what the batch decided by still holds.
* `EventsAreOfPrinters`: directly inductive.

`AdministrationProofs`:

* `NoPatchIsLost` (`SettingsSpec => ...`): from `Kept`, which adds to `NoPatchLost` that a request
  whose document nobody has overwritten since it was read (`same`) holds what every section was
  last set to, with its own patch.  Only such a request can write while nothing is lost.
* `StoreAgrees`: from `StoreFollows`: while nothing has overlapped there is one request under way
  at most, the document it replies with is the stored one, and the store differs from the
  database only while that request is about to write or to reply.
* `RenewalsAreCounted` (`SessionsSpec => ...`): from `CountedToken`: no two requests are about a token that
  is not mixed, and the request that has read its attempts has read those the document has,
  which are no fewer than the renewals.  A token not given out yet is one no request is about.
* `NoTokenStrays`: inductive with `LoginsKnown`: a login past its signature is for a user that is
  still there, or one that was deleted meanwhile and is among the strays.
* `TrustedClientIsWhole` (`ReleasesSpec => ...`): from `Accounted`: the client is torn, or nobody is replacing it
  and it is whole, or exactly one request is and what it has removed is not there.  An update that
  stops with `dist` half removed or half written tears it.

The compositions: `AdministrationIsItsComponents` and `PrintersAreTheirComponents` (`AllSpec => ...`) show
that in `MCAdministration` and `MCPrinters` every component behaves as its own specification says,
a step of one being a stutter of the others.  So every theorem about a component above is one about the
composition, for any number of everything at once, although the runs let one component move
at a time.  The type invariant of every component is a theorem of its own (`TypeCorrect`, `FilesTypeCorrect`
and so on), and `AdministrationTypeCorrect` and `PrintersTypeCorrect` put them together (`AllTypeOK`).

`NoTestLeftOpen` and `AnsweredIsOver` are proved and in no run.

Every invariant and every action property of a passing run is a theorem.  Only model-checked: liveness
(`FaultRecovery`, `RunEnds`, `NeverForgotten`, `BootCompletes`), which needs fairness and is out of the
prover's reach.

The assumptions are named in the modules: that `None` and the like are no elements of the other
sets, that bounds are natural numbers (`FaultAssumption` and `GivenAssumption` among them) and `PromptClose` a Boolean, that
the roles have names (`RolesAssumption`), that the demo account is a user and has one of two roles
(`AccountsAssumption`), that the boot task alone is registered disabled (`BootPreset`), that no set of fields is `None` (`MigrationAssumption`), that
a transfer starts with at least one floor, of printers that are there (`YamlAssumption`), and for
`PrinterFiles` and `PrinterCalls` that the old files and the printers are finite.  One theorem has hypotheses, `ConnectionsDoNotLeak`; they are named with it above.

## 5. Noted while modelling

The five runs that expect a violation show disagreements of the code with its own comments and
its list of features.
The following came up on the way; they are in the models as the code has them, or outside them:

* An error of the migrations is swallowed by `BootTask.run` (lines 106-120), although
  `mongo-migrations/README.md` says that the server applies them at its start.
* `createOrUpdateDemoAccount` calls `setIsRootUserById(demoUserId, false)`, which refuses while
  there is one owner, whoever that is (`user.service.ts`, line 146): with an existing demo account
  and one owner the boot fails.
* An owner cannot be set to verified either: `UserController.setVerified` refuses every change of an
  owner (`user.controller.ts`, lines 152-155).
* `batchReprintCalls` always answers that there is no file to reprint (`batch-call.service.ts`,
  lines 121 and 123: the properties are read of the promise, before it is awaited).
* `batchConnectUsb` and `batchConnectSocket` stop with an error at the first unknown printer, when
  earlier commands have been sent.
* The import of a YAML file without printers or without floors fails, although the export offers to
  leave them out; one without positions unsets those of the floors it matches and fails then.
  Printers that match others under other ids lose their positions (`yaml.service.ts`, 112-117,
  147-155), against what `docs/configuration/yaml_import_export.md` promises of a transfer.
  URLs are compared in lower case on one side only.
* "Ensure position is not taken twice" (`floor.service.ts`, line 172) compares with `===` what the
  client sent, before it is cast: coordinates given as text clear nothing (`Kept`).
* A connection test whose set-up fails leaves its event listener registered.
* A crash while the client is written leaves a page whose assets are missing, and the next start
  keeps it.

## 6. Not modelled

`PrinterSockets` assumes that requests come after the caches are loaded; `PrinterFleet` and `Boot` do
not: after a failed first attempt the server answers before it has loaded.

Several properties except overlaps that do happen in the code, by histories that name them: there
the code promises nothing, and the property says that nothing else has the same effect.
PROJECT.json says at each hazard what is excepted.

One hazard has no property: a login whose credentials are replaced while it is under way.  It is in the
model, and no run states what must not come of it.  Nor does any of a check of an
authorisation while the list of roles is being filled, which is modelled, or of two overlapping
updates of one printer's document that mix URL and API key, which are not: `PrinterFleet`
writes them as one value.  PROJECT.json gives the reasons.

Left out for good: the gateway, plugins, firmware, logs, cameras, custom G-code and metrics
(requests, files and plain storage without state that others rely on); updating the server by git
and npm; the blacklist and the contents of tokens; names, passwords and permissions of users; the
statistics of print completions; the safe mode; the reverse migrations.
