# Kyvro in TLA+

Kyvro is a macOS launcher: a summon window (Vue, `frontend/src/App.vue`) over a
Go backend that finds applications, folders and web searches, evaluates
arithmetic, and runs third-party JavaScript plugins in goja VMs. The backend is
full of goroutines with small locks: every call of a window is one goroutine,
every plugin has a worker, every background task has a timer goroutine. This
directory models the parts whose correctness depends on how those interleave,
checks them with TLC, and proves some of the results with TLAPS.

Paths below are relative to the repository's `src/`.

## 1. Inventory

| Part | State it keeps | Operations | Hard behaviours |
|---|---|---|---|
| Plugin runtime (`internal/plugin/runtime.go`, `capabilities.go`) | one goja VM, its latched interrupt, request channel, `quit`, `Once`, timeout counter, background tasks | `newRuntime`/`runBounded`, `call`, `work`, `prepareVM`, `await`, `every`/`cancel`, `Shutdown` | deadline against late result; `ClearInterrupt` against `Shutdown` and against another call's deadline; JavaScript that never ends; promises that stay pending |
| Plugin manager (`manager.go`) | plugin table, command index, `disabled` bits; persisted disabled ids | `LoadAll`, `SetEnabled`, `ClearDisabledState`, `liveSearch` and `disable`, `Shutdown` | reload passes that overlap each other, toggles and searches; decisions by plugin id about a replaced runtime; store writes after memory changes |
| Plugin views (`views.go`, `service/plugin_views.go`) | the one active view session | `OpenView`, `ViewEvent`, `CloseView` | late or lost closes; a session that outlives its runtime |
| Search session (`App.vue`, `service/search_service.go`) | what the window shows, the tag `seq`, `SearchService.last` | type, debounce, `Search`, `Execute`, secondary lists, detail pages, hide and show | answers in any order; answers after the window has gone |
| Folder sources (`internal/folders`, `internal/indexcache`, `internal/core/store.go`) | store records, cache mirror and JSON file, provider index, scanning marks | `AddSource`, `RemoveSource`, `SetEnabled`, `RefreshSource`, `RefreshAll`, `LoadAtStartup` | scans of seconds outside every lock; three layers, three locks; failures half-way; restart |
| Plugin installer and manifest (`installer.go`, `manifest.go`) | `plugins/<id>/<version>` trees, `current` pins | `InstallRemote`, `InstallFromBytes`, `Uninstall`, `ResolveVersionDir` | crash between removing, renaming and pinning; two installs at once |
| Auto-upgrade and install service (`service/search_service.go`) | none of its own | `InstallPlugin`, `ImportPluginZip`, `UninstallPlugin`, `autoUpgradePlugins` | a background upgrade against user actions and shutdown |
| Registry client (`registry.go`) | `list.json`, `lastUpdated` | `FetchPlugins`, `FetchPlugin`, `SelectVersion` | two files written separately, here and on the registry; two fetches at once |
| Apps provider and scanner (`internal/providers/apps`, `internal/platform/darwin/apps.go`) | application list, index, scanning flag, `app-index.json`, cached icons | `Warmup`, `maybeRescan`, `Rescan`, `Search` | two scans that overlap, results in the wrong order; half-written icons |
| Search engine (`internal/core/engine.go`, `rank.go`, `searchindex.go`) | the usage snapshot all searches share | `Search`, `refresh`, `usage`, `sortResults`, `Find` | a search per keystroke: snapshots replaced between two rows of another search |
| Plugin provider (`internal/plugin/provider.go`) | reads the command index | longest prefix match | pure |
| Usage store (`internal/core/store.go`) | bbolt buckets | put, get, delete, list | transactions are atomic |
| Snippets, text expander (`internal/core/snippets.go`, `internal/platform/darwin/expander.go`) | snippet list, event-tap ring buffer | disabled at this commit | read-modify-write of one list; start/stop of the tap |
| Icon cache (`service/icons.go`) | decoded icons and their bytes | `iconPNG` | budget under concurrent decodes |
| Calculator, web search, application keys, conversion, permissions | none | pure functions | numeric edges of the calculator |
| macOS layer, settings window, wiring, SDK, generated code | none of interest here | I/O, views, set-up | — |

How they interact: the search window calls `SearchService`, which calls the
engine, which calls the providers; the plugin provider calls the manager's
`liveSearch`, which calls the runtime of one plugin. `Execute` and
`OpenPluginView` take the action of a row from `SearchService.last` and call the
same runtimes. The settings window calls the manager (`SetEnabled`), the
installer (followed by `LoadAll`) and the folder controller. `main.go` starts
and ends all of them.

What makes each part correct:

- *runtime*: no caller is ever stuck; one request runs at a time; a result
  reaches only the call it belongs to; `Shutdown` ends even looping JavaScript,
  and nothing runs once it has returned;
- *manager*: command index and background timers follow the table; no runtime
  leaks over a reload; what the user chose survives a reload;
- *session*: a hidden window stays blank; a view session is open exactly while
  its page is shown; a row on screen can be executed;
- *folders*: search shows the cached entries of the enabled sources and nothing
  else; no source stays marked as scanning;
- *installer*: what is on disk can be loaded and is what the manager runs; a
  failed upgrade keeps the old version; a local plugin is not taken for a market one;
- *registry*: a list and its stamp belong together;
- *apps*: what is searched, what is saved and what is installed agree, and do not go
  back in time; an icon that is listed is a whole image;
- *engine*: a page is the merge of its providers, best first, with nothing hidden
  without a reason, ranked by what was recorded before the search;
- *calculator*: it answers expressions, and nothing else, with their value.

## 2. Modules

| Module | Models |
|---|---|
| `PluginCalls` | the abstract promise of a plugin's calls: asked, answered once, refused once closed |
| `PluginRuntime` | one runtime with its callers, worker, timers and closers |
| `PluginRuntime_proofs` | typing, the inductive invariant, the refinement of `PluginCalls` |
| `PluginManager` | the table of plugins under reloads, toggles, searches and shutdown |
| `FolderSources` | the abstract promise of folder sources: configuration, cache and search, each changed in one step |
| `FolderController` | folder operations over the three layers, failures and restart |
| `SearchSession` | the window, its backend calls, `last` and the active view |
| `PluginInstaller` | one plugin's directory under installs, imports, uninstalls and auto-upgrades, with the reload each ends with |
| `RegistryCache` | the two cache files of the registry client under concurrent fetches, failures and restarts; the choice of a version |
| `AppIndex` | the application index: scans, their hook, the saved index, the cached icon |
| `Calculator` | the calculator's parser, and a reading of expressions without one |
| `SearchEngine` | searches that overlap: usage snapshot, providers, ranking, merge |
| `PluginManager_proofs` | typing, the command index, the choice a reload keeps, the runtimes and their timers |
| `SearchSession_proofs` | typing, the blank hidden window, the view session and its page |
| `RegistryCache_proofs` | typing, the stamp that vouches for its list, recent answers, the choice of a version |
| `PluginInstaller_proofs` | typing, what is installed loads and is what runs, local plugins, rollback |
| `FolderController_proofs` | typing, scanning marks, the cache and the search against the configuration, the refinement of `FolderSources` |
| `AppIndex_proofs` | typing, saved against searched index, never back to an older one, whole icons |
| `SearchEngine_proofs` | sorting, finding and merging rows; typing, the ranking, the page; the reading of expressions |
| `MC*` | the small instances TLC checks |

Definitions whose comment begins with "Faulty" are variants of an operation
with a plausible bug. No specification uses them; each is there so that one can
see a property fail.

### PluginRuntime

A caller is a goroutine inside `call`: `dispatch` is the first select
(`reqs <-`, `quit`, `dispatchCtx`), `wait` the second one (`req.res`, `quit`,
`timer.C`, `ctx.Done`). A select that has chosen the timer and the
`vm.Interrupt` it leads to are two steps (`ChooseTimer`, `GiveUp`), for a
result may arrive between them. The worker goes `idle` → `ready` (request
received) → `prepareVM` → `gate` (a timer's request only: stop channel and
`backgroundEnabled` are looked at again on the worker) → `js`, then `poll` when
the function returned a promise. `stuck` is a promise whose tick script was
interrupted: `await` discards that error, so the interrupt is gone, the jobs
are gone, and only the request's own deadline ends it.

Time is a fact a deadline may acquire at any moment (`Expire`). The interrupt
is a latch; JavaScript that observes it may or may not leave it set
(`interrupt' \in BOOLEAN`), which covers both what goja does on a return to Go and
a second interrupt that arrives meanwhile. Strikes saturate at `StrikeCap`:
they are compared with a threshold and never read otherwise. What JavaScript
computes is not modelled; that it may return, throw, promise, register and
cancel tasks, or do none of these ever again, is.

`fresh` is a history variable: did the call begin before `quit` was closed?

### PluginManager

An instance is one `loadedPlugin` with its runtime. A pass of `LoadAll` loads
the directory entries in id order, reading the persisted flag of each at that
moment (`PassLoads`), swaps the table and rebuilds the index under the lock
(`PassSwaps`), and shuts the old runtimes down one by one (`PassRetires`).
`SetEnabled` is three steps: memory under the lock, strikes, store. `disable`,
at the end of a timed-out `liveSearch`, works by plugin id on whatever runtime
the table has by then. Runtimes behave as `PluginRuntime` lets them: a call
answers (strikes 0), times out (a strike, or none if it never reached the
worker), or is told the runtime is shutting down.

`sure` is a history variable: the plugins a pass must load disabled, since their
choice was persisted before it began and nobody has touched it since. The pool
of instances is finite: a pass that finds no free instance waits.

### FolderController

The state is the three layers: `record` (bbolt), `mirror` and `file` (cache) and
`index` (provider). An operation is a goroutine that goes through the layers as
the code does; the value it carries (`found`) is the version of the tree its
scan has found, or `Nothing`. `ReplaceSourceEntries` is two steps, copy under
the read lock and swap under the write lock. `writeJSON` may fail after the
mirror changed; the store may fail; a scan may fail. `SetEnabled(true)` goes on
as a background refresh on the same worker. `Restart` drops all goroutines and
memory and rebuilds the index from the file and the records, as
`LoadAtStartup` does. An operation is begun only on a source that has a record.

`clashes` is a history variable: has an operation begun while another one on the
same source was in progress, or a rebuild of the index while another one was
between its copy and its swap? The properties say for which of these overlaps
they hold.

`FolderSources` knows no goroutines and no copies: a source is configured, toggled or removed, its
cache takes what a scan of it finds, and search takes over what the cache has by then. The
refinement maps the layers to themselves; `Over`, the sources that never return, are those drawn
whose record is gone and that no addition has in hand. What an operation took earlier (`found`,
`kept`) has no counterpart, so that the refinement says it is never stale. Once operations
have overlapped on one source the abstract module promises nothing until the next restart, and once
rebuilds have, nothing about `index`; neither is excluded by the code.

Left out: `Controller.List` reads only, and the error it may return inside
`AddSource`'s duplicate check is not modelled. A refresh, toggle or removal of a
source that never existed changes nothing and is not an action.

### SearchSession

The window executes one callback at a time; a backend call is a record that
moves from `sent` to its result and arrives at any later moment. Rows are
records of an id and an action; `last` is the set of rows of the Go map. The
three kinds of call (`Search`, the one `activate` makes, `PluginViewEvent`) are
tagged with `seq` as in `App.vue`. The ids of a list are distinct
(`SessionAssumption`): for a plugin that repeats an id, the map keeps its later
row.

Hiding the window and the reset at `visibilitychange` are one step (`HideWindow`);
showing it and the reset of `kyvro:shown` are one step (`Shown`). A reload of
the plugin is a new generation of its runtime (`runtime`); a call that began
before a reload may find the old or the new one.

### PluginInstaller

The state is the directory of one plugin: which version trees it has (`tree`), and
its `current.json` (`pin`). A tree is `whole`; `half` when it has a manifest but
lacks the main file, so that it is resolved and fails to load; or `bare`, without a
manifest, so that it is not resolved. A pin that is absent, empty or garbled reads
as `Nothing`. `loaded` is the version the manager runs and the source it believes.

A user's operation is a goroutine that appears when its archive is validated and staged;
until then it has touched nothing but a staging directory `LoadAll` ignores. It
goes through `RemoveAll` of the version it replaces (`Replaces`, `Removes`), `MkdirAll`
and `Rename` (`Promotes`), and `WriteFile`, which truncates first (`PinTruncates`,
`PinWrites`). `Uninstall` removes the files in any order, one step each. Every
operation that changed the directory ends with `LoadAll`: it resolves the version,
reads the source from the pin a second time, and swaps the table. Any step may
fail where the code returns an error, and `Restart` may come between any two.

`autoUpgradePlugins` is three steps before that: it decides by `loaded`, never by the disk
(`UpgradeDecides`), then `InstallRemote` downloads and stages (`UpgradeStages`) or gives up
(`UpgradeEnds`); whatever the user does in between goes unnoticed. The directory it installs
is named by the manifest of the archive (installer.go:245), which may be of another version
than the registry said. An operation on another plugin appears as the `LoadAll` it ends with
(`OtherReloads`), which also loads this one. The `SetEnabled` and `ClearDisabledState` of
`UninstallPlugin` belong to `PluginManager`; reading
the pin and looking for the directory it names are one step of `ResolveVersionDir`.

Three histories say which promises are due: `faults` (have operations overlapped; was
a removal cut short), `base`, the version an upgrade started from, and `alone`: no
operation of a user has been under way since the upgrade decided. `UpgradeSparesLocal` ends
with `~alone`, and so confines how a local plugin is replaced, but does not rule it out: an
import that is done while the upgrade downloads is overwritten, although
`search_service.go:607` says that "local plugins are never touched".

### RegistryCache

A list is the number of its publication. The registry's two files reach the client one
after the other (`Publish`), and so do the client's: `cacheList` truncates and writes
`list.json`, then `lastUpdated`, each with `WriteFile` (`Torn` and 0 are what a
crash leaves in between). A stamp is the list's own `lastUpdated`, formatted anew:
a registry that writes it in another notation (`Canonical`) has a stamp this client
never equals, so that it downloads every time. A list of another format version
(`Readable`) is an error and leaves the cache as it is. `SelectVersion` is an operator over
the two lists of an entry, in any order and with malformed texts (0).

`overlapped` is a history variable: have two fetches run at the same time? Then the list
of one may end up under the stamp of the other, and is answered as current until
the registry publishes again; the market page and the auto-upgrade of a start do that.

### AppIndex

One application stands for all; it is updated at most `MaxVersion` times, and versions are the
clock of file times. A scan goes through `Rescan` (read the bundle, look for a
fresh cached icon, convert, write, rename, store the list) and then, in the
provider, takes the list from the source, swaps the index and runs the hook that
saves it. Between the scan's store and its `List` another scan may have stored its
own. `maybeRescan` is two steps, the staleness check and the flag. `Warmup` never
looks at the flag. `Restart` may come at any moment and leaves only the files.

Histories: `overlapped` (Warmup beside another scan), `unsaved` (the last save
failed), `shared` (two scans in `writePNGAtomic` at once: they share one temporary
file, so that a crash may leave a truncated image that counts as fresh), `late` (the
application was updated while its icon was converted: the old icon gets a newer time). The
last two really happen and leave a wrong icon until the application's next update; the
comment of `writePNGAtomic` rules out the first.

### Calculator and SearchEngine

`Calculator` goes from characters to a value. `Normalise` drops blanks and separators before
anything else, so that digits a blank stood between become one number; `Tokens` makes one
token of each run of figures, if `strconv.ParseFloat` reads it (`Word`); the parser is one
recursive function from calls (rule, position and the value the rule's loop has reached) to what
the rule's method returns. The arithmetic is a parameter, `Apply` and `Negated` over any set of
values, some of which are zero and some finite, as the operations of float64 with `math.Mod` and
`math.Pow` are. What the code decides itself, that a division or modulus by zero is an error
and that an infinite or undefined result shows no row, is in the model.

`Meaning` is the reference, a recursive function from parts (two positions) to what they
mean: split at the operator applied last, nothing being divided by zero on the way (`Applied`).
It takes its operations from `Apply`, not from the parser's `Results`; that `Apply` is what
`math.Pow` computes is not a claim of this project.

What is well-formed is the code's notion, and here two comments and a document disagree
with it. `docs/features.md:59` names as a condition "需至少一个二元运算符" (at least one
binary operator is needed); calc.go:26-28 says of `Search` that it answers "a well-formed arithmetic expression
with at least one binary operator, and nothing otherwise", and calc.go:46-48 that `Evaluate` is
not ok for a query with "no binary operator". `looksArithmetic` takes any operator after the
first character, so that `(-2)` and `--2`, which have only signs, are answered. `CalcReads` states
what the code does; the run has both queries.

`SearchEngine` has a record for each search under way. `refresh` is two steps (read the
store; replace the shared snapshot), and each row's usage is a step of its own, for
each takes the lock anew. A provider's answer is one step: what the providers have indexed
stands still, `AppIndex`, `FolderController` and `PluginManager` being about its
changes; a plugin may also answer nothing. `Find` drops an item whose best match has a negative
score, as the code does: a scattered match in a long name is no match. `typed` is
the set of queries a behaviour is about, chosen at the start. `since` and `floor` are
histories: the usage at the start of a search, and the least its ranking must know. Any row
may be activated, whatever provider it came from (`Activated`).

## 3. Runs

| Run | Instance | Shows |
|---|---|---|
| `runtime_safety` | 2 callers (one opens views, so its requests run two functions), 2 closers | `TypeOK`, `ShutdownInterruptPending`, the inductive `RuntimeInv`, and that the runtime implements `PluginCalls` |
| `runtime_liveness` | 1 caller, 1 background task, 1 closer, fairness | every call and every `Shutdown` returns, timer goroutines end |
| `runtime_clear_race` | 1 caller, 1 closer, fairness | *violated*: JavaScript whose caller has expired is interrupted |
| `manager_reload` | either 1 plugin, 2 passes, 1 toggler, `Shutdown`, 4 instances; or 2 plugins that claim one prefix, 1 pass, 1 search, threshold 2 | no leak, timers follow the mode, a settled choice survives, the index is the one the table calls for |
| `manager_toggle_race` | 1 plugin, 1 pass, 1 toggler | *violated*: a disabled plugin stays disabled over a reload |
| `folder_sources` | 2 goroutines on any of 2 sources, failures, 1 restart, 3 trees | search agrees with configuration and cache; marks; cached entries; the layers implement `FolderSources` |
| `search_session` | 3 queries, 6 inputs, 1 reload | hidden is blank, sessions and pages belong together |
| `installer` | 3 versions, a user, the auto-upgrade of each of 2 starts, reloads by other plugins' operations | what is on disk loads and is what runs; rollback; local plugins |
| `app_index` | `Warmup`, 2 rescans, 1 searcher, 1 update, 1 failure, 1 restart, fairness | saved, searched and installed agree; never back to an older scan; whole icons; it catches up |
| `registry` | 2 callers, 4 lists (one unreadable, one with a foreign stamp), 1 failure, 1 restart, fairness; entries of up to 3 versions | the stamp vouches, answers are recent, the best version is offered, the cache settles |
| `search_engine` | 2 searches at a time without end, 3 queries, 1 activation each of an application and of a row a plugin answers twice, 1 failed read, 3 rows a page; 1 search for every expression of up to 4 characters, or 5 with two numbers, and for 15 longer ones | the page is the merge, ranked by recent usage; the calculator |
| `session_order` | 3 queries, 4 inputs | *violated*: the rows on screen are those `Execute` knows |

Why the bounds are enough. The runtime's hazards are between two calls (one
that runs or expires, one whose turn is next) and between two closers (the one
in the `Once` and one blocked in it); a third adds no role. The requests of a
caller follow each other without bound. In the manager, two passes give every
overlap of loading, swapping and retiring; four instances are two tables of one
plugin in construction, one installed and one being retired. Two plugins are
enough for a prefix to change hands. Folder operations meet in pairs; two
sources show that a rebuild for one loses the entries of the other, and one
source with two tree versions tells a stale scan from a new one. The
installer needs three versions: one installed, one being installed, and a higher
one that is not pinned and would win if the pin were ignored; one user against the
upgrader gives every overlap of two operations, and, since the user goes on, several
during one download. Two fetches are the market page and the auto-upgrade; four
lists give an unreadable and a foreign one a good one on either side. Two versions
of an application suffice to tell older from newer, and two goroutines of
`maybeRescan` are one more than its flag admits, so that a second one
shows a broken flag. Two searches at a time give every interleaving of the shared
snapshot; they go on, so that what one leaves meets the next. Expressions
of five characters have two operators in a row, the least that shows
precedence and grouping, and every misplaced parenthesis and sign. The longer ones have
separators, points, a division by what is zero or infinite, and powers of and to the
infinite; their floats end at 30, beyond which all is infinite, so that overflow is met.
In the session,
six inputs are: type, activate a row, an event on the page, leave, and two more
in which the answers of the first ones arrive; one reload separates an old
session from a new one.

No run checks for deadlock, because each system may come to rest: a runtime
whose worker has exited, a manager whose passes have ended, a session whose
inputs are used up, a plugin nobody installs. That nobody waits forever is said by the liveness
properties instead, where the code waits.

### Fairness

`FairSpec` of `PluginRuntime` assumes that goroutines that can run do run (weak
fairness of the worker, of a caller's select and of `Shutdown`), that clocks
reach every deadline (`Expire`, `ExpireJob`, `ActivateExpires`) and that JavaScript
which is running observes a pending interrupt (goja polls it between
instructions; it is part of `WorkerStep`). `ActivateFails` is fair after the
timeout only, for the same reason. `TimerExit` has strong fairness: the
timer goroutine's select chooses at random among the ticker, `stop` and `quit`,
so `quit` cannot lose for ever. Nothing makes JavaScript return, throw or settle
a promise, nothing makes a caller call, and `Dispatch` itself is not fair: a
caller gets away by its deadline.

`FairSpec` of `RegistryCache` assumes that a call goes on and that there is always
another one (`Begins`): the settings page and each start fetch again. `FairSpec` of
`AppIndex` assumes that scans go on, that time passes and that the user keeps
searching, since only a search starts a rescan.

### What the violated runs show

1. `runtime_clear_race`. `prepareVM` clears an interrupt left by an earlier call
   after it has received the request. When the request's own deadline passes
   between the two, its own interrupt is cleared: the caller has its `TIMEOUT`,
   and the JavaScript runs on. The next caller's deadline, or `Shutdown`, ends it.
2. `manager_toggle_race`. `docs/plugins.md:204` promises that the choice of the
   user is kept across reloads. A pass that has read the flag before
   `SetEnabled(false)` stored it swaps in an enabled plugin afterwards.
3. `session_order`. `Search` stores `last` when it ends: an older search that
   ends last makes the rows of the newer one unknown to `Execute`.

One more promise fails in the model and has no run of its own. `docs/search.md:541` says
that results and cache agree after every operation on a folder source: `SearchFollowsConfig`
without its premise `clashes = {}`. A scan in flight installs what it found after its source
was disabled or removed; of two overlapping rebuilds of the index one is lost.

## 4. Proofs

Every safety property that a passing run checks is proved too.
The theorems hold for all values of the constants that satisfy the named assumptions:
`RuntimeAssumption`, `ManagerAssumption`, `SessionAssumption`, `RegistryAssumption`,
`InstallerAssumption`, `FolderAssumption`, `AppIndexAssumption`, `SearchEngineAssumption`,
`ArithmeticAssumption`, `LiteralAssumption` and `ProvidersAssumption`. They only say what the constants are: bounds are
numbers, rows have distinct ids in a list, more activations never lower a boost,
providers have sequences of items with whole scores, a query is a sequence, an operator makes
a value of two, the number tokens have values and are none of the calculator's signs. The code's
float64 is one such arithmetic.

- `PluginRuntime_proofs`: `TypeCorrect`; `InvCorrect` (`RuntimeInv`);
  `ShutdownInterruptStays`; `Refinement` (`Spec => PromiseKept`).

  `ShutdownInterruptPending` alone is not inductive: one has to know that `quit`
  is closed by the body of the `Once` only and together with the interrupt
  (`QuitInv`). The refinement needs more. That a call begun after `quit` never
  gets a plugin's answer follows from `LateInv` (such a call is neither the one
  that executes nor the owner of a delivered result), which holds since
  a result belongs to the caller that waits for it and to one slot
  (`RequestInv`) and since `prepareVM` refuses once `quit` is closed. `QuitInv`
  also gives the last clause of `PluginCalls`: a closer has returned only when the
  worker has exited, and the worker never starts again.

- `PluginManager_proofs`: `TypeCorrect`; `IndexCorrect` (`IndexFollowsTable`);
  `ChoiceSurvivesReload` (`ReloadKeepsUserChoice`); `NoLeaks` (`NoRuntimeLeaks`);
  `TimersFollowMode` (`BackgroundFollowsMode`). Every property the run
  `manager_reload` checks is so proved for any number of plugins, passes,
  toggles and searches.

  `TypeOK` needs that a toggle or search in progress has a plugin, and that a set of
  claimants has a lowest one (`HasLeast`, from the well-foundedness of finite sets
  under inclusion). That a reload keeps the choice needs what its pass still has to load
  (`PassShape`) and that whoever changes what is persisted makes the plugin
  unsure first (`ChoiceKept`). Leaks and timers need to know whose runtime each
  one is (`Owners`: of one table entry or one pass) and that a fresh one is
  live with the timers its pass has read (`Alive`): otherwise the swap could drop a
  runtime, a toggle switch on the timers of a retired one, or Shutdown stop one
  that is about to enter the table.

- `SearchSession_proofs`: `TypeCorrect`; `HiddenInvCorrect`; `HiddenStaysBlank`;
  `SessionsCorrect`; `NoSessionOrphaned` (`NoOrphanSession`); `ShownPageKeepsSession`
  (`ShownPageHasSession`).

  `HiddenIsBlank` becomes inductive with `Tags`: no call carries a tag from the
  future, and a hidden window has outdated the tags of all calls in flight. The
  debounce timer, which hiding does not stop, needs the blankness itself: it
  finds a blank query and asks for nothing. For the view session, `Sessions` says that tokens
  are never reused: a page on its way or on screen has a token that has been given out and that
  no close in flight names, and whoever has no page has a close on its way (`Covered`).

- `RegistryCache_proofs`: `TypeCorrect`; `InvCorrect` (`RegistryInv`);
  `StampAlwaysVouches`; `AnswersAreRecent`; `SelectsBest`; `OffersAreBest` (`OffersBest`).

  That the stamp is not ahead of the list is not inductive: the step that writes the
  stamp needs to know what its call has downloaded and that nobody has written
  the list since (`Progress`, `Alone`), and an answer from the cache needs that the cache is
  not ahead of the registry (`CacheBehind`). All of it holds up to the first
  overlap of two calls, and is stated so. `SelectsBest` is about the loop of `SelectVersion`:
  that its recursive function is well defined and what it returns, by well-founded
  induction over the set of versions it has not looked at (`SetInduction`).

- `PluginInstaller_proofs`: `TypeCorrect`; `InstalledPluginsLoad` (`InstalledLoads`);
  `LoadedStaysInstalled` (`LoadedIsInstalled`); `LocalStaysSpared` (`UpgradeSparesLocal`);
  `RollbackAlwaysSurvives` (`RollbackSurvives`).

  Each needs its own strengthening, since each promise is due under other
  circumstances. Whatever overlaps, a version that is half there is in the hands of an operation
  that will finish removing or will replace it (`HeldInv`). Without overlaps one operation is at work (`OneBusy`)
  and what its reload has read is still what the directory says (`Told`); for the upgrader,
  which looks at memory only, this is needed of the pin's source even over failures
  (`Spared`). An upgrade that has been alone since it decided finds the disk as the
manager knew it (`AloneInv`). Rollback needs that the version an upgrade started from is never touched
  (`Untouched`) and that what is half promoted or half removed is not what
  the pin selects (`UpgradeInv`). `HasGreatest` and `ResolvedFinds` are the lemmas about `ResolveVersionDir`.

- `FolderController_proofs`: `TypeCorrect`; `ScanningStaysTrue` (`ScanningIsTrue`);
  `CacheKeepsToConfig` (`CacheFollowsConfig`); `SearchKeepsToConfig` (`SearchFollowsConfig`);
  `LayersRefine` (`LayersActAsOne`: `Spec` implements `FolderSources`).

  A mark is held by an addition for its whole life and by a refresh while it scans
  (`MarksHeld`). For the cache one has to say how far each operation has got with record,
  file and mirror (`Phases`), that a source has one operation until two clash (`OnePer`), and that
  only a removal half-way leaves entries without a record (`Cached`). For the search: between a
  change of record or cache and the swap that follows, one operation is responsible for
  the source (`Shown`), and whoever is about to swap holds a copy that is still the
  index (`Copies`), which is what the read lock and the write lock do not give by themselves.
  The refinement uses all of these but `Cached` and `Shown`, and `FoundOwn`: what is about to be cached was found
  by a scan of that source.

- `AppIndex_proofs`: `TypeCorrect`; `SavedStaysSearched` (`SavedIsSearched`);
  `IndexNeverGoesBack` (`NeverGoesBack`, an action property); `CachedIconAlwaysServes`
  (`CachedIconServes`).

  `OneRescan` ties the flag to the one goroutine of `maybeRescan` that scans, so that without
  Warmup's overlap a scan is alone (`Alone`); what it carries may then replace the index
  at each of its steps (`AllFollow`), and nothing is newer than the disk (`Behind`). For icons:
  one goroutine at a time is between `write` and `rename` (`OneWriter`), the file it renames is
  whole and of the version it read (`Image`), and every list that names the cached icon, in
  memory, saved or carried by a scan, is served by it (`AllServed`).

- `SearchEngine_proofs`: `TypeCorrect`; `RankAlwaysSeesUsage` (`RankSeesUsage`);
  `PageIsMerge` (`OutIsMerge`); `ParseIsMeaning`; `CalculatorReads` (`CalcReads`).

  Three lemmas are about the operators, for any input: `SortedPermutes` (sorting returns the rows it is
  given, in order, equal ones as they stood), `FindIsAnswer` (what the index finds are rows) and
  `MergeAccounts`. The merge is a fold; `MergeFold` gives its steps as a
  function and `KeepMerges` is the invariant of one step: the page that was there stays, what is
  added is in order and not there twice, and every row so far is on the page, or has a better
  copy there, or found it full of better ones (`Accounted`). Then `UsageInv`: what a search must know of never
  overtakes the shared snapshot, nor what any search that may yet replace the snapshot has read
  from the store; hence no replacement between two rows hurts. `PageInv` says of a page under
  construction what `OutIsMerge` says of a finished one, for the providers asked so far; a
  row's rank may have used a newer snapshot than its neighbour's, which is why the bound is in terms of
  `floor`.

  The calculator's part compares two recursive functions. Each exists (`ParseIsParser`,
  `MeaningIsMeaning`): a call leads to calls of a lower `Stage` (further right, or at the same
  place by a weaker rule to a stronger one), a part to narrower parts, and two functions that agree
  below a stage agree at it (`Agree`, `Narrower`). What the parser returns is what the
  reference reads (`ParserSound`, by stage): each rule returns parts whose parentheses match
  (`Closed`) and that have no operator weaker than the rule's (`ReadsAs`), so that the operator
  the rule has just applied is where the reference splits (`JoinBinary`). What the reference
  reads, the parser returns (`ParserCovers`, by width): for the loops of `expr` and `term`, whose result
  depends on what follows, this says that from the position of the part on the loop goes as it
  does from the part's value at its end (`Covers`). `ParseIsMeaning` is both, for any tokens, and
  `CalculatorReads` carries it to the queries of every behaviour: what is left when
  characters are dropped is a sequence (`WithoutIsSequence`), and so are the tokens. Both sides
  take their operations from `Apply`, so the theorem is about grammar, separators, divisions by
  zero and the finite result, for whatever `Apply` computes.

The proofs have one step per action. Induction over data is by the library's well-foundedness of a
set (of the versions left, of the numbers): a set `T` of the numbers for which a claim holds, with
`SetInduction`. Only model-checked is all liveness (`EveryCallReturns`, `EveryShutdownReturns`,
`TimersEnd`, `CatchesUp`, `CacheSettles`): the prover treats neither fairness nor `ENABLED` here.

## 5. Not modelled

Parts that are pure (conversion, permissions, application keys), pure I/O (launching,
paths, AppKit, wiring) or generated have no module; `PROJECT.json` lists each with its
reason. Snippets and the text expander are disabled at this commit: nothing
constructs them, so that they have no behaviour. The icon cache of the service is a
memo that no other part depends on. The formatting of the calculator's value is
left out, and so is the decay of a use with its age.

Inside the modelled parts: manifest validation and permissions appear as "a
plugin may fail to load"; the content of plugin results and component trees, the
text of a row, launching and the clipboard do not appear. `TIMEOUT` of
`activate` is in `PluginRuntime` (`ActivateExpires`) and appears in `PluginManager` as
a plugin that is skipped. A read of the persisted flag that fails, which `LoadAll` takes
for "enabled" (manager.go:118), does not occur.

Hazards without a property, or with one that leaves part of them out, say so in
`PROJECT.json`: most of them really happen, and the properties end where they begin
(overlaps on one folder source, overlapping fetches, two writers of one icon, an update during
its conversion, a toggle whose write fails, a timeout that disables a reloaded instance, an
import during the download of an upgrade).

## 6. Plan

What could be added, in this order:

1. A run of its own for the claim of `search_service.go:607` without its exception:
   "local plugins are never touched" fails when an import ends while an upgrade that
   was decided before it downloads.
2. Another for "at least one binary operator" (`docs/features.md:59`), which `(-2)` refutes.
3. The runtimes behind the events of a page in `SearchSession`, for the hazard at `views.go:205`.

Modules that are proved about use no recursive operators.
