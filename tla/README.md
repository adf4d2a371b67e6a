# reviews-api: a TLA+ verification project

reviews-api polls the App Store's customer-review feeds of the apps it is asked to monitor, keeps the
reviews in files, serves them over HTTP, and shows them in a React page. This directory holds TLA+ models
of its parts, TLC runs that check them on small instances, and theorems that the TLA+ proof system checks
for every instance. Paths and line numbers below are those of the repository.

- [The system](#the-system): its components and what makes each of them correct
- [The modules](#the-modules): which module models what, and how
- [The runs](#the-runs): what TLC checks, the bounds, the fairness
- [What disagrees](#what-disagrees): statements of the repository that the code does not keep
- [The proofs](#the-proofs)
- [Not modelled](#not-modelled) and [the plan](#the-plan)

## The system

One Go process and a page in the browser.

| Component | State | Operations | Interacts with |
| --- | --- | --- | --- |
| Atomic file write, `internal/storage/storage.go` | data files, temp files, what of them is on the platter | `atomicWrite`: create, write, fsync, close, rename, fsync of the directory; `readJSONFile` with a size limit | called by both stores under their `writeMu` |
| Review store, `file_store.go` | reviews per app in memory, one file per app, `writeMu`, `mu` | `NewFileStore` (boot), `Save`, `ListByApp` | saved to by polls, read by requests |
| App registry, `app_store.go` | apps in memory, `apps.json`, `writeMu`, `mu` | `NewAppStore` (boot and seed), `Add`, `Remove`, `List` | changed by requests, listed by the scheduler |
| Composition root, `cmd/server/main.go` | the shared context, two semaphores, two wait groups, the ticker, the HTTP server | `main`, `runScheduler`, `pollInBackground`, shutdown | starts every goroutine and waits for it |
| Service, `internal/service` | none | `PollApp`, `AddApp`, `RemoveApp`, `GetRecentReviews`, `GetSummary` | joins the fetcher, the store and the registry |
| Fetcher and lookup, `internal/appstore` | none | `Fetch` (pages of the feed), `Exists`, `Lookup` | Apple's endpoints, 15 s per request |
| HTTP handlers, `internal/httpapi` | none | five routes, the `hours` parameter, CORS | the service; `OnAppAdded` calls back into `main` |
| Hooks, `web/src/hooks` | list or summary, `loading`, `error`; the active flag and the interval of each effect | initial load, silent refresh, clean-up; `add` and `remove` of apps | the API; re-run by a change of the selection |
| Page, `web/src/pages/ReviewsPage.tsx`, `web/src/components` | selected app, window, page number | selection, automatic selection, removal, window, pages | shows what the hooks hold; the selection re-runs their effects |

What is hard, and the properties that make each part correct:

- **Storage.** A crash of the process and a loss of power are different: after the first the rename stays,
  after the second it may be gone unless the directory was fsynced. A file is never partial, an id never
  twice in it; what was acknowledged outlives every crash, and every boot that can read the file serves it or
  what an interrupted or failed write has put in its place since. Two writers never overlap, and every path
  releases the lock.
- **Registry.** The same, and the seed of `APP_IDS` is for the first run only: it never undoes a user's
  changes.
- **Process.** A signal, or a server that fails, always ends the process, and cuts nothing off; the passes
  of the scheduler do not pile up; an app whose initial poll was skipped is polled by the next pass; a
  removed app is left alone in the end.
- **Polls and reads.** The feed shifts while it is paged through: a poll must still find every review of its
  window, and a review that polls can reach is stored in the end. The list is exact at the edges of the window
  and strictly ordered, the summary counts the same reviews, and the page can parse both.
- **App list.** Requests are served and answered in any order, refused, or lose their answer: the page
  lists what the server monitors, and the effect that corrects the selection leaves one that is listed.
- **Page.** Responses come late, in another order, or not at all. A response is shown only under the
  selection it was asked for, the loading state ends, and the hooks catch up with the server. Once the
  effects have run, what is shown is of the app in the banner, also when an answer has taken an app away.
- **Reading.** The list is replaced under the reader by silent refreshes. Turning the pages skips nothing, the
  ages on the cards are true, and the summary counts the cards.

The hazards, each at its line and with the properties that cover it, are in `PROJECT.json`.

## The modules

`FileStore` and `AppStore` instantiate `AtomicFile` and are each shown to implement `DurableMap`.
`Polling` and `ReviewList` extend `Window`. `ReviewsPage` extends `AppList` and instantiates `ReviewsView`, and
is shown to implement both. `Server` stands on its own. `MC*` modules give the constants of the TLC runs their
values, `*_proofs` modules hold the theorems.

### AtomicFile: one data directory

`file[p]` is what a reader finds at a path, `onReboot[p]` the set of what a loss of power may leave there,
and `call[w]` how far writer `w` is in `atomicWrite`. `WriteTemp` (create and write), `SyncTemp` (fsync and
close), `RenameTemp` and `FsyncDir` are separate steps, since an error (`FailEarly`, `FailLate`) or a
crash (`Kill`, `PowerLoss`) may fall between any two. A rename of a fsynced temp file adds its content to
`onReboot`; an fsync of the directory leaves only what is shown. A fault is one of `FaultKind`: a call before or in the
rename fails (`io`), or `fsyncDir` does (`dirSync`), or a boot cannot read a file that is there (`read`: the Stat or
the ReadFile of `readJSONFile`), the process dies (`kill`), the machine does (`power`). `DirOpens = FALSE` is the platform on which
`fsyncDir` takes the refusal to open the directory as a success (storage.go:74-76). The constant `Faults`
says which of these a run or a theorem allows. Contents in `Oversized` are those `readJSONFile` refuses.
A temp file that a crash leaves behind is not represented: its name does not end in `.json`, and no boot
reads it.

### DurableMap: what a store promises

`serving` says whether the process serves, `val` is the map served (while down, the one served last),
`disk[k]` the values of `k` that a restart may find. An operation is first attempted (its value may be found),
then acknowledged (only its value can be found), or fails (both stay). A crash stops the serving, and no value
appears on the disk by it; a restart serves a value that it finds, and leaves the disk as it is. While the process
serves, a value changes only by an acknowledged operation. `Allowed` is what one operation may do to a key, and
`Instead` what a restart may serve in place of a value that it cannot read, which stays there to be found.

### FileStore: `file_store.go`

`mem`, `writeMu` and `up` are the store's fields and whether the process runs; while it is down, `mem` is what
was served last. `Boot` is `NewFileStore`: an app whose file is corrupt, oversized (`Loaded`) or cannot be read at all
(`unread`, any of the files under the fault `read`) is served empty. A boot that cannot list the directory fails, and is no
step. `SaveDiff` is `Save` up to the write (the lock, the read of the
stored list, the merge), `SaveWrite` the steps of the disk, `SaveError` and `SaveCommit` the two ways out.
The stored list is a set of reviews (two versions of an edited review are two elements with one `IdOf`),
because every reader sorts it; a batch of a poll stays a sequence, because the first version of an id in it
is the one stored. `mu` is not a variable: it is held for one read or one assignment, which are single
steps here. As a `DurableMap`, a key is an app, a value its set of reviews, and an operation `Extends` it by
reviews of new ids; a boot that cannot read a file, or finds it oversized, may serve nothing instead (`Skipped`). This is
the promise under failed reads, which the run checks; under the others, for which it is proved as well, it leaves a boot
no choice but what it finds.

### AppStore: `app_store.go`

The same shape with one file. `BootLoad` reads it; `BootSeed`, `SeedCommit` and `SeedError` are the first
run, in which the boot itself is the writer; a file that does not decode, or cannot be read, leaves the
store down, as `main` then exits. `AddDiff` and `RemoveDiff` take the lock and build the next map; `Write`, `Error` and
`Commit` are shared. `Meta` is what the lookup found (name and icon, or nothing). `Seeds` are the registries
`APP_IDS` may ask for, which may change from one run to the next. As a `DurableMap` it has one key.

Two history variables hold what a restart has to keep, and no guard reads them: `acked` is the registry acknowledged
last, by a written seed or by an Add or a Remove that returned nil (no set before any was), and `asked[a]` what has been
asked for `a` since, by a call that goes on, or failed or was cut off after it had reached the disk (`GiveUp` drops
what no file holds).

### Server: `main.go` with the service and handlers it runs

A token of a semaphore is a slot: `poll[s]` is the poll that holds it, with its app and its phase (`fetch`,
then `save`). The scheduler goes through `list`, `fanout` (one app at a time gets a token), `join`
(`wg.Wait`), `tick` and `done`; `queue` is the snapshot of the registry it has still to start, in any order,
since the registry is a map. An add is `joining` while its two requests to Apple, `ExistsEnds` and
`LookupEnds`, end in either order (`wg.Wait` waits for both), then refused or `registered` (before `OnAppAdded`
and the answer); `Remove` is one step. `main` goes through its select,
`stop`, `Shutdown`, and its two waits. Three choices of the code are nondeterminism here: which case a
`select` takes when several are ready, how a poll ends, and, with `ShutdownTimesOut`, whether `Shutdown`
returns before the handlers have. The registry is the set that is served; how it is kept is AppStore's
matter. A connection that adds arrive on is a `Handler`; requests that only read are left out.

### ReviewsView: `useReviews`, `useSummary` and the page's body

`data`, `loading` and `failed` are the state of each hook, `inFlight` the loads under way, each with the app
and window it asks for, whether it is an initial one, and the `active` flag of its effect. `Show` is a change
of the selection as the effects see it: the clean-up of the old one (`Disarmed`) and the start of the new one, which
React runs together. `selected` is the selection that they ran for; how it comes to be that of the page is
`ReviewsPage`'s matter. `Refresh` is the interval. A load is answered by the server
(`Answer`, when it reads the store) and `Arrive`s later, or `Fail`s on either way. A response is the version
of the app's reviews that was read; version 0 is an empty list. `Body` is what the page renders. The two
hooks share nothing but the selection.

### Window: what a request reads

Operators on the sequence of stored reviews: `WindowOf` is the `hours` parameter with its default and its
clamp (`Hours` is the product with `time.Hour`, which wraps around as a `time.Duration` does), `Within` (the places
in the sequence that the filter keeps), `RecentReviews` (the filter and the sort) and `Summary` (the average as its
sum and its total). `Sorted` says what `sort.Slice` returns, by the `Rank` of each place among the others: the ids of
stored reviews differ, so the comparison leaves it no choice. The unit of time
is the user's (an hour in `Polling`, a second in `ReviewList`), and a parameter beyond the range of an int is
`NoHours`, as `strconv.Atoi` refuses it. `ScoreOf` is the rating as the feed has it, a star or not.

### Polling: `Fetch`, `PollApp` and the reads of one app

The feed is a sequence, newest first, and a page is cut out of it at the moment it is requested (`PageOf`),
so that `Publish`, `Edit` and `Withdraw`, which are not part of the code, shift the reviews over the borders
of the pages; where several have one time, the feed may have them in any order. A review may appear late, in the middle of the feed, or be dated ahead of the clock. `StartPoll`
fixes the cutoff, `FetchPage` is one turn of the loop, `Ends` its three exits, `Save` and `PollFails` the two
ends of the poll; `PollFails` is also the only way out at a page with an entry that `toReview` refuses
(`Parses`), as one whose rating is no star. `ReviewSchema` is what the page asks of a review, so that
`AnswersParse` relates the check of the fetcher to that of the page. `due` is a ghost: the reviews of the window that were in the feed when the poll began, without
those that have been edited or withdrawn since, those behind a withdrawn one (they move up, past the page
being read), and those beyond the page cap when the loop ends. `Save` is one step; `FileStore` has its steps, and
its two writers cover the case of two polls of one app.

### AppList: `useApps`, `AddAppForm` and the selection

`registry` is the server's side, `apps`, `loading`, `selected` and `submitting` the page's. Each slot holds a
request under way. The server carries it out (`Serve`) and the answer arrives later (`Arrive`) or is lost
(`Lose`), or it is refused or never gets there (`Refuse`). `Over` resets the flag that waited, in every case
(`finally`). An answer's list is rendered with the old selection (`Arrive`), and the effect that corrects it is `due`
until its update is rendered (`Correct`); no other answer is rendered in between, since React runs a pending effect
before it renders again. A choice may be (`Select`): the effect that was due when it is made, and that saw the old
selection, overrides it. Nothing in the code keeps two
requests about one app apart, and the initial list may come after the answer to an add: the ghost `unsure`
holds the apps for which requests overlapped or an answer was lost, until a request that is alone is
answered. `InStep` speaks of the others. The page's own user is the only one here: a second page would change
the registry without this one knowing until it is loaded again.

### ReviewsPage: the app list, the hooks and the selectors together

`AppList` owns the selection and `ReviewsView` is what the effects of the hooks do with it. The effects run after what
they depend on is rendered: `viewed` is the app that they ran for last, and it is `ReviewsView`'s `selected`. So after an
answer that takes the selected app away there are two renders that a user may see: one with the new list, the controls
and the reviews of the app that is gone, and no banner (`ListStep`, an effect `due`); and one with the next app in
the banner and the old reviews under it, not yet loading (`Correction`, `viewed # selected`). `RunEffects` ends this. A
click on the `AppSelector` (`ChooseApp`) or the `WindowSelector` (`ChooseWindow`) is one step with its effects, as React
runs the effects of a click with it; the frame with the new choice whose loading flag is still to be rendered is left out.
`HookStep` is a step of the hooks alone, which may also come between the renders. `Controls` and `Banner` are what the
page renders of the selection: the banner looks the selected id up in the list, the controls do not.

### ReviewList: pages, cards and bars

`saved` is what the server has, stored late or dated ahead of the clock as in `Polling`; `list` is what the hook
holds, `page` the page's number, which only a click or a
change of the window moves, and which may be past the end of the list: `CurrentPage` clamps it for display.
`Refresh`, `Load` and `LoadFails` replace the list or not, in one step each; `Choose` is another window, and `Turn`
a click beside the number of the page. The ghost `met` is what the reader was shown under the chosen window and
what refreshes have brought since. `Age` is `formatRelative` on whole seconds (the sizes of a month and a year are
rounded; `Math.round` takes half a unit down, as the difference is negative); a `Card` is its age and its stars,
`SummaryBar` the numbers, the bars and the age of the newest review. The change of the app, which resets the page's
number in the same way, is left to `ReviewsPage`.

## The runs

| Run | Question | States |
| --- | --- | --- |
| `file_store_any_fault` | Every error of a write, failed reads at boot, and both crashes: types and mutual exclusion, no torn file, one review per id, and the refinement of `DurableMap` | 565 000 |
| `file_store_kill` | Processes die and disk calls fail (but not the directory fsync): nothing served is lost, files only grow, file and memory agree between Saves, the lock is released | 2 800 |
| `file_store_dir_fsync_fails` | finding, see below | |
| `file_store_oversized` | finding | |
| `app_store` | Every error of a write and both crashes, also while the seed is written: types, mutual exclusion, the refinement of `DurableMap`, what was acknowledged is never without its file (no second seed), and a boot serves what was acknowledged last but for what was asked for since in vain | 1 240 000 |
| `server` | Shutdown, passes, adds and their background polls: safety and liveness | 139 000 |
| `server_shutdown_times_out` | finding | |
| `reviews_view` | Late, overtaken and failed loads: safety and liveness | 43 000 |
| `reviews_view_load_fails` | finding | |
| `polling` | The feed shifts under the polls: completeness of a poll, what is reachable is stored in the end, exact lists and summaries for every parameter, which the page can parse | 368 000 |
| `reviews_page` | Requests in any order, refused and lost, with the renders, effects and loads they set off: the page and the server agree, the corrected selection is listed, the form is freed, and once the effects have run, what is shown is of the app in the banner | 4 830 000 |
| `review_list` | Refreshes under the reader: no review is skipped, true ages, bars that count the cards | 244 000 |

**Bounds.** The storage modules have finite state without bounds. Two apps and two writers are enough for
two Saves of one app, two of different apps, and one whose directory fsync also settles the other's
rename; three reviews of two ids give a batch with two versions of one id, one with an edited review that is
already stored, and one with only a new one. The registry has two apps, so that one stands by while the other is changed, or both
are changed one after the other, each known by its id or with its name, and seeds of both or none; apps and writers can be
exchanged (`SYMMETRY`). The server has
two apps (a pass has an order, and one can be missed), one connection for adds (an add after another one finds its
background poll still running) and one token of each kind, so
that an add can find the token taken; passes and ticks go on for ever. The page has two apps and two
windows; `MaxVersion = 1` is one poll per app that finds something; `MaxArmed = 2` lets one load of the
current effect overtake another; `MaxInFlight = 1` lets one disarmed load be under way when a new effect
starts. The
polls have pages of one review and a cap of two, so that every change of the feed shifts it over the border of a
page, and a third review is beyond the cap; three ids, one of which has no rating that can be parsed; five changes of the feed
(three reviews, and two that appear late, are edited, withdrawn or come back); and a clock of two hours with
windows of one and two, so that reviews dated an hour back leave the window and those dated ahead enter it. The
parameters are none, zero, both windows, and one above the clamp whose product would wrap around. The composed page has two apps and two
requests under way at once (the list with an add or a removal, two clicks on a button, an add with a removal), two
windows, an interval (`MaxArmed = 1`) and one load that comes late; what the server has stored does not change here
(`MaxVersion = 0`), as it does in `reviews_view`; apps cannot be exchanged, as the first one is selected, but request
slots and windows can (`SYMMETRY`).
One hook is checked, as the two share only the selection; the theorems are about any hooks, both at once included.
The reader has pages of two reviews and up to five reviews, hence a page in the
middle and one that is not full; the three windows of the page; and times that differ by a little less than an hour
and a day, a little more than a day, and a week, where ages change their unit.

**Fairness.** `FileStore`: a Save that is under way goes on, as it waits for system calls only.
`Server`: every goroutine that can run does; `PollStep` is weakly fair because each request to Apple ends by
its 15 s timeout; `Tick` because the ticker fires; the end of the scheduler is strongly fair because Go picks
at random among the ready cases of a `select`, and does not pass over `ctx.Done` for ever. Signals,
failures, adds and removes are not fair. `ReviewsView`: a load that is under way ends, the interval fires, and
loads are not answered by failures alone for ever (strong fairness of `Answer` and `Arrive`: without it a server
that is always down would refute that the page catches up). `Show`, `Store` and `Fail` are not fair.
`Polling`: the scheduler polls again and again (`RegisteredIsPolled` of `Server`), a poll ends, and each page and the
save do not fail for ever (strong fairness; a feed that is always down would refute `CaughtUp`). The feed and the
clock are not fair. The other modules state no fairness: that the form is freed is `FlagsHaveRequest`, a request
that ends being the only thing it waits for.

**Deadlock** is checked everywhere. A process that has stopped stays so (`Exited`).

**Mutants.** Operators marked `Mutant` in a module are wrong versions of the operator that follows, each a
plausible bug (a lock not taken, an fsync left out, a wait dropped). They are not part of `Spec`;
`PROJECT.json` pairs each with the property that it violates when put in place of the right one.

## What disagrees

Each is a run that TLC ends with a counterexample; `PROJECT.json` quotes the statement.

- **A failed directory fsync** (`file_store_dir_fsync_fails`). `Save` reports the error and keeps the old
  list, but the rename has happened. "Memory and disk never diverge" (file_store.go:65) fails until
  the next Save of the app or the next boot. `DurableMap` describes what holds instead: a restart may find either.
- **A file that grows past the limit** (`file_store_oversized`). The limit is enforced on reading only. The
  boot skips the file, and the next Save overwrites it.
- **Shutdown gives up before an add does** (`server_shutdown_times_out`). 10 s against 15 s: a background poll
  may start after `srv.Shutdown` has returned, against main.go:45-47. A validated add whose lookup hangs is enough.
- **The list of another app** (`reviews_view_load_fails`). After a failed load the page shows the reviews of
  the app selected before under the banner of the new one.

Known and not given a run of their own:

- `POLL_CONCURRENCY` bounds each of two semaphores, so twice as many apps may be polled at once.
- A boot that serves a file whose rename is not yet on the platter may be followed by a loss of power that takes
  it back: this is why `RestartLosesNothing` is claimed for one kind of crash at a time, and `KeepsPromise` for both. In
  the same way a seed written by a process that died before it was acknowledged may be taken back, and the next
  boot seed again, with nothing acknowledged lost.
- A boot that cannot read a review file, though it is whole, serves the app empty, and the next Save of the app replaces
  the file by what is new since, as after an oversized one (file_store.go:48-51), where file_store.go:63 says "appends".
  `KeepsPromise` says that until then the next boot finds it again; `FilesOnlyGrow` holds where files can be read, the
  directory fsync does not fail and only processes die.
- The controls of an app that has gone stay for the render before the effect that corrects the selection, and a choice
  made in it is overridden (ReviewsPage.tsx:36-42).
- The error of a failed initial load stays on the page while refreshes are answered with an empty list
  (useReviews.ts:24-37). `CatchesUp` says that the hooks have the server's list, and that one with reviews is shown.
- An overtaken refresh takes the list back for up to a minute.
- The answer to the initial list drops an app whose add was answered before it (useApps.ts:30), which `InStep` exempts
  as an overlap.
- An add waits for its lookup (service.go:78), where README.md:49 says "a slow lookup never blocks the add".
- "The stats always match what's on screen" (README.md:45) holds of one state of the store (`BarsCountCards`), but the
  list and the summary are two requests, and the page does not look at the loading or the error of the second.
- `hours=0` means the default window, where api/openapi.yaml:150 says it is clamped to 1.
- One entry that cannot be parsed, within reach, keeps an app from being polled at all.

## The proofs

All theorems are checked by tlapm. They rest on the named assumptions of the modules
(`NoWriter \notin Writer`, the types of the constants) and on what each theorem assumes; no bound on the
number of apps, reviews, writers, connections or tokens. Every safety property of a passing run is a theorem:
`PROJECT.json` lists which. The inductive invariants of `Polling` and `ReviewList` hold on the instances of their runs,
too, where TLC checked them before they were proved.

**FileStore_proofs.** `IInv` is `TypeOK`, `NoTornFile`, and: what is shown at a path is among what a reboot may
find; every file a reboot may find has unique ids; the content of a call under way extends the memory of
its app and has unique ids; and, from the fsync of the directory to the commit, the file of the call is the
only one a reboot may find (where the directory opens). `OnePerId` is not inductive without the call's content,
nor the refinement without the last part. `Typing`, `FilesAreWhole` and `NoDuplicates` follow for every set of
faults, for `DirOpens` true or false, and with oversized files. `StoreKeepsPromise` assumes only that the directory
opens. It maps each step to one of `DurableMap`: a rename to `Attempt`, an fsync of the directory to `Settle`, a crash to
`Crash`, `SaveCommit` to `Commit`, `Boot` to `Restart`, the others to stuttering. `OneKindOfCrashLosesNothing` and
`MemoryAndDiskAgree` add an invariant each (`Kept`, `Mirror`) under the assumptions that exclude the counterexamples
above; `SaveAppends` uses `Mirror` again: a Save writes more than memory has, and memory is what the file has.

**AppStore_proofs.** The same argument with the boot as one more writer. `StoreKeepsPromise` is the refinement.
`RegistrySurvivesRestart` and `SeedsOnce` are the registry's own promise, and rest on one invariant (`Kept`): every file
that a boot may find holds the registry acknowledged last but for what was asked for since (`Survives`), and nothing
acknowledged is without a file. An acknowledgement comes after the fsync of the directory, which leaves one file that holds it,
and a rename adds only what has been asked for. Both assume that the directory opens and nothing else: not which
faults happen, nor that the registry stays within the limit, as a boot that cannot read it does not serve.

**Server_proofs.** `IInv` relates the stages: the context is cancelled and the server closed once main is past
`stop`; the scheduler is done once main is past its first wait; no background slot is taken once it has stopped;
and, if no handler outlives Shutdown, no request is under way from then on. It gives `PassesApart` with no
assumption, `GracefulStop` and `AddsBeforeWait` under `~ShutdownTimesOut`.

**ReviewsView_proofs.** What makes the safety inductive is that an armed load always asks for what is selected
(`ArmedAskForSelected`), since the clean-up disarms the old loads in the step in which the selection changes.
`NoEndlessLoading`, `SettledShowsSelected` and `LateResponsesAreDropped` follow for any number of loads.

**ReviewsPage_proofs: the app list.** `InStep` alone is not inductive: while a request about an app is under way, what holds depends
on how far it is. `AloneStands` says that a request that is alone has its app for itself, so that what the
server did for it still stands when the answer comes; `OverlapIsUnsure` and `ListStands` that all others leave
their apps unsure; `Agree` that the two sides agree until the server has acted. `PageIsInStep` follows for any
number of requests. What the effect selects is listed because it is computed from the list that was rendered, and
no list is rendered while it is due. That a list which is not empty has a first app (`FirstIsListed`) rests on ids being
natural numbers, through the well-foundedness of their order. `FlagsAreFreed` needs of each step only that the
request of a flag survives it or resets it (`FlagsSurvive`).

**ReviewsPage_proofs: the page.** `PageRunsTheList` and `PageRunsTheHooks` map each step of the page to a step or a stutter of
`AppList` and of `ReviewsView`: what is proved of the two holds of the page. For the second, an answer and a correction
leave the hooks as they are, and what a choice or a run of the effects shows is one of `ReviewsView`'s selections
(`ShowIsAStep`), which rests on `AppList`'s types. `BannerAndReviewsAgree` then joins three invariants, one of each part:
`SelectedIsListed`, `SettledIsSelected`, and `NothingWithoutApp` of `ReviewsView_proofs`; they meet when no effect is due
and the hooks' have run for the selection.

**Window_proofs.** `WindowIsClamped` bounds the window of any parameter, and `WiderWindowKeeps` is the step from one
review to `WiderShowsMore`: both rest on `FittingHours`, that a product within the clamp does not wrap around, for which
the clamp has to fit into a `time.Duration` (`WindowAssumption`). `ListIsTheWindow` and `SummaryIsOfTheList` are what
`RecentReviews` and `Summary` return, for any number of stored reviews. The sort is counted, not executed: in a strict
order on a finite set, the number of elements before an element is a bijection to `0..n-1` that follows the order
(`Ranks`), so each place of the list has one review, and the order of places is the order of reviews (`SortedFacts`).
The sum of stars is a fold: that the function the fold stands for exists (`SumExists`), and what it returns whatever the
order of summation (`SumFacts`), is shown by induction on the size of the set.

**Polling_proofs.** `PollIsComplete` is not inductive: what a poll had to find is in the batch only at its end. `IInv`
adds where it is until then. `DueIsAhead`: while pages are read, a review that is due is in the window of the poll and
has been read, or is in the feed at a place behind the pages read so far (`Ahead`). A review that appears pushes others
back, which keeps them ahead; a withdrawal pulls those behind it forward, which is why the ghost gives them up; and the
loop may end at a page past the window because the feed is sorted, so that nothing due is behind it, wherever the feed
has moved since (`FetchPageInv`). `DueIsRead`: once the last page is read, what is still due has been read. The other
parts (`IdsAreUnique`, `StarsAreRead`, `AllDated`) are what `ListIsTheWindow` and `SummaryIsOfTheList` need of the
store. `InsertedFacts` and `RemovedFacts` say where a change of the feed leaves every review, `MergedFacts` what `Save`
keeps and adds. `PollsAreComplete`, `ListsAreExact`, `SummariesMatch`, `AnswersParsed`, `WiderShows` and `ListedStays`
follow for any page size, page cap, windows and parameters, and for as many changes of the feed as `MaxChanges` allows,
whatever it is.

**ReviewList_proofs.** Of one state: for any list and page size, `EveryReviewOnOnePage`, `PagesMakeTheList` (the pages,
one after the other, are the list: an induction on the pages that `FlattenSeq` joins), and `ClampedPageHasReviews`, that
a page number left over from a longer list still shows reviews. `IInv` for `ReadersSkipNothing` says that everything up
to the *end* of the shown page has been met (`MetSoFar`), that a window is loaded from its first page on
(`LoadsFromTheFirst`), and that nothing held is from ahead of the clock, though what is saved may be (`HeldIsSaved`). The step that matters is a refresh: what the server answers is sorted in the same strict order,
and what has left it is the oldest, so a review that stays never moves to an earlier place
(`NothingMovesForward`, an induction on places); what is new has been met by coming in; and the clamp only ever
takes the reader back. `AgesTrue` is about arithmetic: rounding to the nearest is off by half of the unit (`Rounded`),
and no age of one unit is rounded beyond the next one, as each division is some multiple of the one before plus less than what
would be rounded up (`NextDivision`); the order needs both. It holds of reviews of any age, where the run has those on both sides
of the hour, the day and the week. `BarsCount` puts `SummaryIsOfTheList`, `PagesMakeTheList` and the arithmetic of the
bars (`BarFacts`) together.

Model-checked only: liveness (`LockIsReleased`, `ShutdownCompletes`, `RegisteredIsPolled`, `RemovedIsLeft`,
`CatchesUp`, `CaughtUp`), which needs fairness and ENABLED, out of the prover's reach. The induction theorems of the
library take an operator as a parameter and cannot be used; where the proofs need an induction over data, it is one over
a set of natural numbers (`Counting`, from the well-foundedness of their order).

## Not modelled

- `loadConfig`, the JSON formats, the HTML, CORS and the docs page: pure or static.
- The death of the process by a second signal: it is `Kill` for the stores.
- A boot that fails because `MkdirAll` or `ReadDir` does: the process exits, as if it had not been started.
- `mu` of the stores: it protects single reads and assignments, which are atomic here.
- The lookup: its result is `Meta`, its URL check is pure; when it ends is `LookupEnds`.
- `reload` of `useApps`, which nothing calls but the mount; what is typed into the form, and that the answer to an add
  clears it (AddAppForm.tsx:27); the icon of the banner and its fallback; the texts of errors; styling.
- A clock of the page that differs from the server's: `ReviewList` has one clock.
- A change of the app in `ReviewList`, and the steps of a load there: `ReviewsPage` and `ReviewsView` have them.

## The plan

1. `AtomicFile`, `DurableMap`, `FileStore`, `AppStore`, their refinement and its proof. *Done.*
2. `Server`: scheduling, background polls, shutdown; safety proved. *Done.*
3. `ReviewsView`: the hooks under late and failed loads. *Done; its safety is proved.*
4. `Window` and `Polling`: paging through a feed that shifts, and what requests read. *Done; its safety is proved.*
5. `AppList`: the app list and the selection. *Done; its safety is proved.*
6. `ReviewsPage`: the app list with the hooks. *Done; proved to implement both.*
7. `ReviewList`: pages, cards and bars. *Done; its safety is proved.* The join of the two requests in `AddApp`. *Done.*
8. Theorems: `RestartKeepsRegistry`, `FilesOnlyGrow`; the list and the summary of any number of stored reviews; the invariants of
   `Polling` and of `ReviewList`. *Done.*
9. A composition of the scheduler with the store and the registry, so that the promise of the store meets the
   graceful stop.
