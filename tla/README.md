# AutoBleem core in TLA+

Models, model-checking runs and proofs for the C++ core of the AutoBleem launcher: the services under
`src/code/core/services/`, the engine under `lib_ableem/src/engine/` that they call, and the installer's jobs under
`src/code/installer/`. The models are written from
the code; each definition's lines are in `PROJECT.json` under `map`.

The launcher runs on a small console with a USB stick. Three facts make its logic hard to test and worth modelling:

- a **worker thread** scans the stick while the launcher's **main thread** draws, edits and launches, and the two
  share a queue and a few atomics;
- the **user edits the stick** behind both, and copies take minutes;
- the **power switch is the normal way to turn it off**: any two file operations may be the last one and the first
  one of two different runs.

## 1. The system and its parts

### The library: `ScanService`, `GameDatabase`, `GameScanner`

*State.* `regional.db` (tables GAME and DISC, the rows a carousel row displays, the refused folders),
`games.fingerprint` on disk, the worker's last two fingerprints, the event queue under its mutex, the rows of
games whose folders vanished (`vanished_`), the `ScanUpdate` a poll hands to the launcher.

*Operations.* The worker: read the tree, visit every folder (`scanGamesDirectory`, whose listener queues one event per
folder), take the fingerprint, queue `Finished`. The main thread: `poll()` applies what is queued - `ScanStarted`
compares rows and folders, `GameVerified` finds, moves, inserts or changes a row, `GameFailedVerify` deletes it,
`Finished` deletes the rows nobody claimed, rebuilds the rows and saves the fingerprint.

*Interaction.* The worker never writes the database; the main thread never reads the tree, except for the start-up
check. The queue is the only way from one to the other.

*Hard.* Edits between any two steps; a poll that sees half of one scan and half of the next; a power cut in a poll;
ids given out again; one update that names additions and removals without an order.

*Correct when* a folder has one row, a moved game keeps its row, the launcher shows what the database holds, a
skipped start-up scan was not needed, and the library ends up as the folder.

### What is scanned, and when: `ScanService`'s loop

*State.* Five atomics (`scanRequested_`, `stopping_`, `watching_`, `processorsSuspended_`, `processorsHeldBack_`),
two fingerprints per watched tree, `processors.state`.

*Operations.* `requestScan`, `start`, `stop`, `setProcessorsSuspended` on the main thread; the worker's loop, the
watcher, `runScan` with a turn for every scanner processor, `processorShouldStop`.

*Hard.* No lock joins the atomics, so each load, store and exchange is a step; processors write to the very trees the
watcher compares; `stop()` joins a thread that may be in the middle of a processor.

*Correct when* each request is taken into a scan, the package index is built at every start, a scan is neither
started in the middle of a copy nor by the scan's own writes, a processor makes way for a game, and `stop()` returns.
(Of the first two one step is an exception, section 3: the resume that stores over the requests.)

### Memory cards: `MemcardService`, `MemcardManager`, the card half of `LaunchService`

*State.* The card folders of each game (`memcards/`, `backup/`), the sets under `!MemCards/`, RetroArch's `.srm` and
its `.bak`, the set's name in `Game.ini` and again in `regional.db`, the journal `memcard-swap.txt`.

*Operations.* Swap a set in and out, play a set where it is, copy card 1 to RetroArch and back, recover after a crash,
and the screens' create, rename, remove, store and choose.

*Hard.* Every one of them is a sequence of file operations, and the journal is the only thing that tells the next
start where the last one ended. *Correct when* no save made in a game is lost and no game runs on another's.

### Resume points: `ResumePointService`

*State.* Per slot a state, a picture, a filename file and, for RetroArch's, a marker; a filename file all slots share
(older launchers knew no other); what the last run left, on the stick or in RAM.

*Operations.* Prepare a launch in PCSX or RetroArch, keep or drop the run's state, remove a slot.

*Hard.* Two emulators whose states are not interchangeable share the slots; a slot is several files; the state a run
resumes and the state it writes have one name; the stick may be full. *Correct when* a slot resumes what was kept in
it last, in the emulator that wrote it, and is there until it is written again or removed.

### Scanner processors: `ScanService::runProcessor`, `ProcessorRunner`, `ProcessorState`

*State.* `processors.state` and its copy in RAM: per processor and target the version, the digest of the target's tree
and how the last run ended. The worker's walk: target, place in the chain, round.

*Operations.* For every target in turn and every processor of its chain: pass over what is settled, hold back what a
game suspends, ask `--ismine`, run, stop or kill, record and save; round again for what a step made.

*Hard.* A processor's output changes the digest of the processors before it; a run can end, fail, be stopped by a game
or by `stop()`, or be cut off with the power; the suspension and the mark that something was held back are two atomics
without a lock; and the user's files change under all of it. *Correct when* nothing is passed over that was not seen
through, nothing done is done again, the next scan makes up for what was left undone, and a scan ends.

### Audio CDs: `CddaPlayer`

*State.* Under one lock: playing state, Repeat and shuffle, the order, a generation, the reader's cursor, a ring of
sectors, what is being heard. A reader thread; the sound side that empties the ring.

*Operations.* play, pause, resume, next, prev, seek, stop, setRepeat, setShuffle; `run()` and `read()`.

*Hard.* The reader lets go of the lock while the drive reads, so every call can overtake a sector; the reader sleeps
on a full ring and on nothing to do; the sound side must tell an underrun from the end. *Correct when* what is heard is
what `Listening` promises, nobody sleeps through a call, and a disc ends.

### The disc drive: `DriveWatcher`

*State.* The drive's handle, a few flags and counters and the published status, under two mutexes; a worker that polls.

*Operations.* `pollOnce` in its steps, `start`, `pause`, `resume`, `stop`; `LaunchService::launchDisc` around a game.

*Hard.* The emulator opens the drive while the worker may be in the middle of a poll; the tray and the cable ask for no
lock. *Correct when* a game has the drive to itself and the status is in the end what is in the drive.

### RetroArch and AutoBleem on a stick: `InstallerJob`

*State.* The stick (the launcher, `config.ini`, RetroArch's binary, its `VERSION`, `retroarch.cfg`, cores, assets and
theme), the downloads kept under `System/Install`, and what a run has in memory only.

*Operations.* The PC installer's run (`go`) with RetroArch or without, the console's `raInstall` (resumable),
`retroarchZip` and `retroarchRemove`.

*Hard.* A run is dozens of files; a stop, a failure or a power cut ends it between any two, and the next run has only
the stick to go by. *Correct when* an interrupted run leaves the old RetroArch or the new one, a run that failed is
not taken for done, the next one makes good what it left, and each job is done in the end.

### Around them

`LaunchService::launch` joins memory cards and resume points: cards in, run, cards out, then the offer to keep the
run's state. It runs on the main thread with the scan's worker alive, which `setProcessorsSuspended` keeps away from
the game; `launchDisc` takes the drive from its watcher for the game and gives it back.

### Not modelled yet, or not at all

| Part | State and hard behaviour | Why not |
|---|---|---|
| update service, downloader | one worker, `poll()`, `.part` files kept or dropped, `pending.json` last | planned |
| content installer | staged installs, versions that must not mix, saves migrated before Apps are parked | planned |
| theme zip cache, extension crash guard | small write-then-rename protocols | after the above |
| disc ripping | sequential copying with one cancel flag | the rest of it is encoding |
| LAN server | a tool beside the launcher: watcher, hasher, uploads | after the above |
| Windows install, flasher, old stick layouts | sequences a PC runs with the user present | the stick's own jobs are modelled |
| packages index | a function of a folder tree, published as one pointer | nothing happens between two steps |
| RetroArch sets, queries, settings, themes' content, file formats | text, tables, bytes | data, tested against files |
| `ab_gui`, SDL, renderer, vendored code | drawing and I/O | no protocol of the core's |

`PROJECT.json` lists every part with its sources, and the hazards at their lines.

## 2. The modules

| Module | Models | Read it with |
|---|---|---|
| `ScanLibrary` | one PS1 library: worker, queue, `poll()`, edits, power cuts | `scan_service.cpp` 440-790, `game_database.cpp` |
| `ScanRequests` | the scopes, the watcher, the processors' turns, start and stop | `scan_service.cpp` 225-345, 830-990 |
| `MemoryCards` | card sets, launches, journal, recovery | `memcard.cpp`, `memcard_manager.cpp`, `launch.cpp` 557-650, 889-930 |
| `ResumePoints` | the slots of one game | `resume_point.cpp` |
| `ScanProcessors` | the processors of one scan over the tree and its games | `scan_service.cpp` 458-496, 877-1135, `processor_runner.cpp`, `processor_state.cpp` |
| `Listening` | what the listener of an audio CD is promised | `cdda_player.h` |
| `CddaPlayer` | the player: reader, ring, sound side, transport; implements `Listening` | `cdda_player.cpp` |
| `DriveWatcher` | the watcher, the launcher and the player's hands | `drive_watcher.cpp`, `launch.cpp` 800-827 |
| `StickInstaller` | the jobs that lay and remove AutoBleem and RetroArch | `installer_job.cpp`, `install_job_base.cpp`, `command_downloader.cpp` |
| `MC...` | constants for TLC | the `.cfg` files |
| `..._proofs` | the theorems about each (section 4) | |

### ScanLibrary

A tree is a function from paths (folder, name) to the disc file a game folder holds, or `NoGame`; its fingerprint *is*
the tree, since the code's digest covers names, sizes and nesting. `Verifying` are the discs `UsbGame::verify` accepts.
The worker's program counter `wpc` runs `idle - read - visit - finish`; folders are visited one per step in any order
(`todo`). The main thread's `mpc` runs `frame - poll - discs - save`: one queued event is applied per step, and the
second transaction of a row (DISC) and the fingerprint's save are steps of their own, because the power may go before
them. `roster` is the launcher's list, changed only through the `ScanUpdate` a poll returns. `past`, `fresh` and the
three counters are history and bounds.

Abstracted: several discs of a game are one value; the covers lookup, favourites and history are columns no step
reads. A power cut empties everything but the stick. SQLite's own atomicity of one transaction is assumed.

### ScanRequests

Each atomic access is a step of the thread that makes it: a resume is three (`Resume`, `ExchangeHeldBack`,
`StoreRequest`), a held-back processor two (`SkipSuspended`, `HoldBack`). A tree is a version number; `owed` is the
set of trees a processor still has to run on (the complement of `isSettled`). `asked`, `touched` and `moving` are
history: what was asked for and not taken, what the user changed since its last scan, and since the watcher's last look.
`start` makes the thread, and `BeginThread` is the worker's own step that asks for the package index, so that a request, a
resume or a stop may come between the two. `dropped` are the scopes asked for that `StoreRequest` took off the flag; a
scope asked for again leaves it. Nothing keeps that store from happening: it is the properties that name what is in
`dropped` as what the code loses.

### MemoryCards

A file operation is an action and `step` names the one at hand. A function of the code is an operator over the
operations it performs: `swapOut(w, s, next)` is what follows `w`, `"begin"` gives its first, and `next` is what its
caller goes on with; `After` puts them together as a launch, a visit to the screens or a recovery does. A loop over a
folder's cards keeps those before it in `left`. `PowerCut` may fall between any two operations and in the middle of a
copy, which leaves a `Torn` file, and makes `recoverAfterCrash` the next thing that runs. `stage` says how far a launch
has come, and `CutStages` in which stages the power may go: a run that asks about one window leaves out the others.
What a card holds is the number of the save made last on it; `saved` is what each card of each folder is to hold.

### ResumePoints

A state is the emulator and the run that wrote it. `saving` is what is written, `slot` where, and `step` the next write;
`After` gives the order of the code. The run's
own files are cleared or written in one step, since the next launch clears them whatever became of them. `whole` is
the set of slots that must be there to resume, `due` the runs a slot's state may be of: more than one only while a
save is under way or was cut short. A RetroArch state without its picture is not told from one with it.

### ScanProcessors

A game folder holds one of a few `Contents` and the digest of a tree *is* its content, so that a processor's own output
is seen as the change it is. `at` is the place of the worker's walk; `pc` the step of the processor there: `check`,
`skipping` (the suspension read, the mark not yet set), `asking`, `running`, `worked` (its files are written, its end
is not in yet), `killing`. `entries` is `ProcessorState` in RAM and `disk` the file; `before` is `digestBefore`, taken
when the step begins, which is what a "not mine" is recorded with, while a run is recorded with the digest at its end.
The user may change a game at any moment (`Change`), also while a processor is asked about it or runs over it.
A scan of the games is one flag, `requested`, or the watcher's look at the tree (`scanned` is what the last scan left);
who asks is `ScanRequests`' matter, and `Resume` does here what its store does there: it asks for no scan of the games,
and takes one that was asked for off the flag. `touched`, `seen`, `unseen`, `finished` and `disturbed` are history:
whether the user changed the target since the step began; the runs and answers recorded as settled that saw what they
are recorded for, and those that did not; what the last finished run left; and whether anything - a game, a stop, an
edit, a new version, a restart, a power cut - came between since the last scan began, or kept it from its work.
Each of the `Events` happens at most once and `MaxEvents` of them in one behaviour.

### Listening and CddaPlayer

`Listening` has no ring and no reader: a place on the disc, how much of it was heard, the mode, and what may follow.
`CddaPlayer` adds the rest; its refinement mapping gives `part` the history variable `heard` and `mode` the Repeat and
order in force. `Listening` lets a track be followed as *any* mode in force since the last jump has it, because the code
chooses the next track when it reads it, up to a ring before it is heard.
One action is one section under the lock. A sector is heard in two halves, which stand for any split into buffers.

### DriveWatcher

`pollOnce` is one action up to where it lets go of the status' lock to read the disc (`identifying`), one after it, and
holds `stepMutex` throughout. The drive is external: a disc in the tray, a cable, and `cold`, how often opening the drive or
reading its disc still fails. A drive put back under its number while its old handle is kept is not opened anew and
shows empty (`HasNoDisc`), which only `QuickSwaps = TRUE` reaches. `QuickSwaps = FALSE` lets every change of disc or cable meet a poll before the next one; the poll comes
every second. `seen` and `same` are history.

### StickInstaller

A job is a list of steps (`Steps`) and `step` the one it is at; one action performs one, and what takes a while leaves `Half` of its part on the
stick before it is whole. `prepare` removes what the package ships folder by folder, in two steps, with `config.ini` in the run's
memory from the first; `retroarch.cfg` is written where it is and may be left torn. The run's memory (`want`, `saved`, `themed`, `ready`) is gone when it ends. `kept` are the
downloads, `keptFor` the build they are of; a part whose bytes never reached the stick is `Torn`. Cores stand for the
three packs, the assets bundle for libretro's bundles.
`Interrupted` is the job that is to be run again; with `Mixes = FALSE` it is run again before one of another kind is,
except that an install may follow a removal that was cut off.

## 3. The runs

Each `.cfg` gives the constants; the bounds and what they are for:

| Run | Checks | Bounds, and why they are enough |
|---|---|---|
| `library_scan` | `TypeOK`, `OneRowPerFolder`, `ShownGamesExist`, `RosterFollowsDatabase`, `VanishedAreTheirRows`, `NothingLeftAside`, `MovedGameKeepsItsRow` | two folders, one game name, two good discs and a refused one, two edits at any moment: moves, swaps, replacements and copies that complete, over up to three scans. No power cut: that is the next run |
| `library_converges` | `SkippedScanIsNotOwed`, `LibraryConverges` | one edit, one request, one power cut anywhere; the edit not while folders are visited (the next run shows why) |
| `library_race` | `LibraryConverges`, violated | two edits at any moment |
| `requests` | `EveryRequestIsTaken`, `IndexIsBuilt`, `Debounced`, `WatcherIgnoresOwnWork`, `ScansEnd`, `SuspendedProcessorsStop`, `StopReturns` | Apps, one tree with a modifying processor, the package index; one request, two changes, one game launched and left, one restart, each at any step of either thread: the store of a resume meets a request by hand, a start's, or none |
| `cards` | `SetsKeepTheirSaves`, `GamesKeepTheirSaves`, `PlaysItsCards`, `NothingLeftBehind` | two games (symmetric), one set and a second name for it, four visits, two saves, two power cuts at swap-in, play, hand-back and recovery: enough for a game to use a set another left, and for a recovery to be cut itself |
| `cards_cut` | `SetsKeepTheirSaves`, violated | a cut once the game's own cards are being put back |
| `resume_slots` | `ResumedWhereWritten`, `ResumesWhatWasKept`, `SlotsAreKept` | two slots, two discs, two cores, three runs: kept by one emulator, over it by another, and resumed; a removal, a full stick, a power cut |
| `processor_chains` | `SkippedWasSeen`, `DoneOnce`, `NextScanCatchesUp`, `ScansEnd` | two games, an index over the tree, two steps that undo each other; any two of a change, a game launched, a power cut, a failure, a new version, a request and a stop, at any moment: a run and what disturbs it, and what disturbs the scan that makes up for it |
| `cd_player` | `AwakeForWork`, `OnlyMusicIsRead`, `HeardInOrder`, `DiscEnds` | two discs of two and three tracks, of one or two sectors, a data track and pregaps; a ring of two sectors; three starts, jumps or stops and two changes of Repeat or shuffle |
| `disc_drive` | `DriveIsTheGames`, `StatusFollowsDisc`, `AnswerStands` | two games, an audio disc and one that cannot be read; three touches of the tray or the cable, two games played, one stop and start, two failed opens or reads to spin up against the code's three tries |
| `stick_installer` | `OldOrNew`, `FailedRunIsOffered`, `NothingLeftHalf`, `ThemeNeverHidesBundle`, `EveryJobIsFinished` | two builds on the site; three stops, failures or cuts (`MaxBreaks`): a run, its resume and the one after that all broken off |
| `installer_settings` | `SettingsAreKept`, violated | one stop, failure or cut |

Every module states its `TypeOK`; `library_scan` checks `ScanLibrary`'s, and the proofs establish each.

`CHECK_DEADLOCK FALSE` stands where the system really may stop: the card and slot runs, with the visits or runs used up;
the processors, with no scan wanted and the events over; the CD player, stopped or paused with its jumps used up. The
other models never stop: a worker looks and looks again, an installer can be run again.

### Fairness

`ScanLibrary`: the worker's loop and the frame loop run on, and a launcher that is off is started again. The user owes
nothing. `ScanRequests`: the worker's own steps and the main thread's steps *within* a call; that a processor is asked
to stop (the runner calls back on every line and every poll of its pipes). `ScansEnd` alone assumes more
(`OthersFinish`): a processor that ends, a game that is left - neither is the launcher's to give. Nothing is assumed of
requests, edits, launches or power cuts. The requests' own liveness (`EveryRequestIsTaken`, `IndexIsBuilt`) is stated
under `ProcessorsEnd`: a processor that never ends holds up the worker for ever.
`ScanProcessors`: the worker goes on, which includes that a processor answers and ends or its time limit ends it.
Whether a game is left or a launcher started again is up to others.
`CddaPlayer`: the reader and the sound side run; a `stop` that waits for the reader goes on once it is gone. Nothing
the user does is fair. `DriveWatcher`: the worker polls, `stop` joins, and a game is left in the end - `SF`, because the
launcher may find the lock taken by a poll now and then. `StickInstaller`: a run goes on until it is interrupted, and
whoever started a job that was interrupted starts it again; breaks are bounded. `MemoryCards` and `ResumePoints` check safety only and assume no fairness.

### What the code does otherwise than it says

Three runs find a behaviour some comment of the repository excludes; `PROJECT.json` quotes each. They are the ones
that cost the user something for good.

1. **An edit during a scan may never be scanned** (`library_race`). The fingerprint is taken after the folders were
   visited, so an edit of a folder already visited is in it, and no later look sees a change.
2. **A second swap-out over the set** (`cards_cut`). The journal is removed after the game's own cards are back: a cut
   in between makes the next start copy those over the set.
3. **The user's `config.ini` is lost** (`installer_settings`). `prepare` takes it off the stick into the run's memory and
   `unpack` writes it back at its end. A run broken off in between leaves no launcher, the next one is a fresh install,
   and the settings are the package's.

The passing runs beside them exclude just that window and show that the rest holds: `library_converges` the edit while
folders are visited (`EditsDuringScan`), `cards` the stage `restore` and the visits to the screens (`CutStages`);
`stick_installer` asks nothing of the settings.

Others are steps of the models like any other, and the properties name what they cost as an exception, so that
what is left of each property holds of the code as it is:

- **A resume drops requests** (`ScanRequests`: `StoreRequest`, `dropped`). `setProcessorsSuspended(false)` *stores*
  `true` (`scan_service.cpp:842`) where every other writer ORs its scopes in; a request on the flag, or a start's for the
  package index, is never taken. `EveryRequestIsTaken` and `IndexIsBuilt` except what was `dropped`, and nothing else.
- **What a game held back is not visited after it.** The same `true` is 1, and 1 is `ScanApps` (`scan_scope.h:12`), a scope
  in which no processor is opened (`scan_service.cpp:459-461`); `test_scan_service.cpp:1018-1030` has a scan of that
  scope start none. `scan_service.h:141-143` and `225-226` say that what was held back gets its turn then. `Resume` and
  `StoreRequest` do what the code does. What was held back has its turn in the next scan of the games that somebody else
  asks for, and `NextScanCatchesUp` is about that one. So it matters little that a game may end between
  the two steps of a hold-back (`scan_service.cpp:924-925`) and leave a mark nobody looks at.
- **A question that was stopped or failed counts as a no** (`ScanProcessors`: `QuestionIsStopped`, `QuestionFails`,
  `unseen`). A game launched while `--ismine` is asked stops the question, and the processor is recorded as settled
  on a game that may be its own (`scan_service.cpp:945-947`). `SkippedWasSeen` excepts those.
- **An edit during a run is settled unseen** (`ScanProcessors`: `Change`, `touched`, `unseen`). The digest recorded is taken
  after the run (`scan_service.cpp:982-985`), so what the user copied there meanwhile is recorded as what the processor
  saw; `processor_state.h:37-38` says of a settled target that it "has not changed since". `SkippedWasSeen` excepts those as well.

Others again are within the models, reached by the constant named here, and are kept out of the passing runs:

- **RetroArch's state in a PCSX slot** (`ResumePoints`, `CutMarking = TRUE` with a power cut violates
  `ResumedWhereWritten`): the power goes between the slot's name and its marker.
- **A disc changed within a second** (`DriveWatcher`, `QuickSwaps = TRUE` violates `StatusFollowsDisc`) keeps the answer
  of the one before.
- **Jobs that are mixed** (`StickInstaller`, `Mixes = TRUE` violates `FailedRunIsOffered` and `NothingLeftHalf`): a run broken off over a stick
  that was up to date, or a removal broken off between the binary and its stamp, followed by a job of another kind, is
  taken for done.

And some no property here asks about, met while modelling:

- A RetroArch killed after it resumed a slot leaves the copy it was given, which is offered as the state of the run.
- `MemcardManager::rename` follows `Game.ini` only: until a scan writes the row again, a launch finds no set of the old
  name and puts the game on its own cards.
- A failed processor counts as settled; the steps behind it, which waited for it, run in the next round.
- A change of shuffle or Repeat while the next track is being read ahead does not touch what is in the ring: shuffle
  toggled then can pass over a track, and Repeat set in the disc's last seconds does not start it over.
- A bundle that was half unpacked counts as there for ever; a theme that waited for a lost bundle is never laid, since
  the run stamps `VERSION` all the same; a removal leaves the theme's keys in `retroarch.cfg`.

### Mutants

Every checked property has a mutant of a mapped definition beside it (the `...X` operators) that breaks it in its
run's own bounds: a dropped reset, a swapped order, a separator left off a path. They show that the property depends on
the code and not on the shape of the model.

## 4. The proofs

`tlapm` checks every step, for any folders, games, names, discs, trees, slots, builds and bounds. Each theorem names a
property of a run where there is one: the run shows it on a small instance, the theorem for every one.

| Module | Theorems | What the invariant says |
|---|---|---|
| `ScanLibrary_proofs` | `TypesAreKept`, `FoldersHaveOneRow`, `RowsNameGames`, `AsideRowsAreTheirRows`, `NoScanMeetsAnother`, `CarouselIsTheDatabase`, `MovedGamesKeepTheirRows`, `SkippedScansAreNotOwed` | what worker, queue and poll hold together is a stream of whole scans |
| `ScanRequests_proofs` | `TypesAreKept`, `ScansWaitForTheCopy`, `ScansAnswerTheUser` | a tree nobody touched is the tree scanned or looked at last |
| `ScanProcessors_proofs` | `TypesAreKept`, `NothingIsPassedOver`, `NothingIsRedone`, `NothingIsLeftUndone` | a settled line, in RAM or on the stick, is of a run or an answer; the places a quiet scan has passed are done |
| `CddaPlayer_proofs` | `TypesAreKept`, `NeverSleepsThroughACall`, `NoNoiseIsRead`, `EveryNoteIsHeard` | what is heard, the ring and the cursor are one run of successive places |
| `DriveWatcher_proofs` | `TypesAreKept`, `GameHasTheDrive`, `AnswerIsKept` | the lock is held for a poll; a drive given away is closed |
| `StickInstaller_proofs` | `TypesAreKept`, `OldRetroArchOrNew`, `ThemeIsOverItsBundle`, `NothingIsTakenForDone`, `NothingIsLeftHalf` | what of a job is still to come, and what an interrupted one left |
| `ResumePoints_proofs` | `FilesAreOfTheirKind`, `LastRunIsResumed`, `KeptSlotsAreThere`, `ResumedByItsEmulator` | what a save has written so far, and whose states lie under which name |
| `MemoryCards_proofs` | `CardsTypeOK`, `SetsSafe`, `GamesSafe`, `CardsPlayed`, `SessionsEnd` | where the cards of each set and game are at every operation, and that the journal leads to them |

**ScanRequests_proofs.** `TypeInv` adds to the types that a processor's turn only comes in a scan of its tree.
`ScansWaitForTheCopy` is `Debounced`: by the invariant that a tree which did not move since the last look has the
fingerprint of that look. `ScansAnswerTheUser` is `WatcherIgnoresOwnWork`: a tree the user did not touch is, outside of
a scan of it, the tree that was scanned last - which needs that only trees of the scan at hand are written by its
processors.

**ScanLibrary_proofs.** Tables stay finite tables of positive ids. `FoldersHaveOneRow` and
`RowsNameGames` rest on `RowsInv`, which is inductive over the steps of the main thread: a row is written only at a
path where the lookup found none. `AsideRowsAreTheirRows` and `NoScanMeetsAnother` rest on `StreamInv`, the argument
the code relies on without stating it: what the worker, the queue and the events being handled hold *together* is a
stream of whole scans, the last one possibly unfinished, in which a `Finished` stands between any two `ScanStarted` and
each folder is reported once; and at each point of it the rows set aside are in the database, unchanged, at paths the
events still to come do not name. Neither property is inductive without the part of the stream still in the queue.
`CarouselIsTheDatabase` (`RosterInv`) needs of the stream that what a scan deletes it did not insert;
`MovedGamesKeepTheirRows` (`MovedInv`) that a row is inserted only when no row set aside is of that name and those discs.
`SkippedScansAreNotOwed` is the longest argument. Besides the types it needs that trees of the past are no tree of the
future (`PastInv`), that what a `Finished` says was found is what its scan looked at (`FoundInv`), what the poll has in
hand (`HandInv`), and `TreeInv`: somewhere in the stream the events *turn* to the tree as it now is - from there on each
agrees with it, every game of it is still to come in the scan it is in, and no fingerprint saved before that point is of
this tree. It is proved under the hypotheses of the run: no edit while the worker reads (`~EditsDuringScan`;
`library_race` shows what happens otherwise) and no return to an earlier tree (`~TreesReturn`; a digest cannot tell one
from the other).

**ScanProcessors_proofs.** All four hold without conditions on the constants beyond the assumption. `NothingIsPassedOver`
and `NothingIsRedone` follow from what `entries`, `disk`, `seen`, `unseen` and `finished` have in common, before and after a
power cut that drops the copy in RAM. `NothingIsLeftUndone` follows a scan
along its walk. While nothing disturbs it, no game runs and nothing stops or is killed (`Quiet`), and a game stays what it
was when its step began until the run has worked (`Standing`). As long as no run of the round has changed its game, every place of
every game's chain that the round has passed is done on the game as it is - as it *was*, if the run at hand has worked
and its end is not in yet - or lies behind one that failed there (`Upheld`). A run that changes its game ends the claim
with `changed`, and the next round makes it anew from the first place; that is why the property asks for a last round
that changed nothing.

**CddaPlayer_proofs.** `EveryNoteIsHeard` is the refinement: `Spec => HeardInOrder`, the specification of `Listening`
under the mapping of the module, step by step (`PromiseStep`). Its invariant (`Stream`, `Hearing`) says that the
place being heard, the ring, the sector in the reader's hands - unless a jump has made it stale - and the cursor follow
one another in the order of a mode in force since the jump. The list of tracks is a recursive function over the table
of contents; what it holds is shown with `UpTo`, an induction over an interval drawn from the well-foundedness of `<`.
`NoNoiseIsRead` assumes `TablesAreInOrder`, tables whose tracks do not overlap; TLC evaluates it for the discs of
the run.

**DriveWatcher_proofs.** `GameHasTheDrive` (`GivenAway`): `pause` waits for the lock a poll holds throughout, and closes
the drive. `AnswerIsKept` (`GameStays`): a watcher that reads a disc anew after a game knows the answer it had.

**StickInstaller_proofs.** A run's place in its list (`AtStep`) says what it has fetched, staged and installed so far
(`Builds`, `Runs`), `Left` what an interrupted one may have left. `OldRetroArchOrNew` and `ThemeIsOverItsBundle` hold
whatever job comes next; `NothingIsTakenForDone` and `NothingIsLeftHalf` where an interrupted job is run again before
one of another kind (`~Mixes`).

**ResumePoints_proofs.** `Written` follows a save or a removal write by write: which of the slot's files are gone, which
are of the new state. `SlotOK` holds of every slot at any write: under a disc's name lie states of PCSX, under
RetroArch's name states of the core the marker names; a slot of an older launcher goes by the shared name alone, and
then its game has one disc, so that no save of another slot renames it. All but `ResumedByItsEmulator` hold wherever the
power goes; that one assumes it stays on between a RetroArch state's arrival in a slot and its marker (`~CutMarking`),
as its run does.

**MemoryCards_proofs.** The invariant `Inv` follows the cards. A set or game no session has taken holds what it is to
hold (`SetFine`, `GameFine`); of the one that is taken it says, operation by operation and card by card in a loop, how
far the game's own cards are on their way to `backup/` and back (`OwnCards`), the set's on their way to `memcards/`
(`SetCards`), and from the journal on where the session's cards are (`LentOK`); `JournalOK` says that the journal names
the game and the set they are to go back to. None of the four properties is inductive without it: at rest they say
nothing of the middle of a launch, which is where the power goes. Games whose swap-in was cut off, and sets made of
their cards, are `damaged`, and nothing is claimed of them but that the launcher goes on. The theorems assume
`CutStages \subseteq {"in", "play", "back"}`: a cut while the game's own cards are being put back does lose the set's
saves (`cards_cut`), and the screens that edit sets keep no journal at all. There is one lemma for each operation of a
stage; how the orders of `MemcardManager` compose is what those lemmas check.

The assumptions on the constants (`ScanLibraryAssumption` and so on) are the only others the proofs use; TLC evaluates
them in the runs. Nothing in them narrows the code: sets disjoint from their marks, bounds that are numbers, chains and
lists that are sequences.

Every safety invariant and action property of the passing runs is stated by a theorem. **Model-checked only**:

- liveness - `LibraryConverges`, `EveryRequestIsTaken`, `IndexIsBuilt`, `ScansEnd`, `SuspendedProcessorsStop`,
  `StopReturns`, `DiscEnds`, `StatusFollowsDisc`, `EveryJobIsFinished`: under fairness, which
  TLAPS does not reach.

## 5. The plan

In this order:

1. **An abstract library** - a set of games that at some moment of a scan becomes the folder as it was then - with
   `ScanLibrary` shown to implement it under `EditsDuringScan = FALSE`.
2. **Updates**: the worker of `UpdateService` against `poll()`, `Downloader`'s `.part` and `pending.json`, with power
   cuts and failing downloads; a pending update names whole files only.
3. **AppInstaller**: no two versions mixed, no save lost when Apps are merged, under cuts.
4. **Launching**: `MemoryCards` and `ResumePoints` composed through one launch.
