--------------------------- MODULE PluginManager ---------------------------
(***************************************************************************)
(* The plugin table of internal/plugin/manager.go: reload passes that      *)
(* build a fresh table and retire the old one, user toggles persisted in   *)
(* the store, live searches that feed the three-strikes rule, shutdown.    *)
(* A plugin instance is one loadedPlugin with its runtime; what happens    *)
(* inside a runtime is PluginRuntime's subject.                            *)
(***************************************************************************)
EXTENDS Naturals, FiniteSets

CONSTANTS
  Ids,            \* plugin ids, ordered as LoadAll and the index order them
  Prefixes,       \* command prefixes
  Claims,         \* the prefixes each plugin's manifest declares
  Instances,      \* loadedPlugin values with their runtimes
  Loaders,        \* goroutines that run LoadAll (startup, install, upgrade)
  Togglers,       \* goroutines that run SetEnabled
  Searchers,      \* goroutines that run liveSearch
  DisableStrikes, \* disableStrikes, 3 in the code
  Nobody

ASSUME ManagerAssumption ==
  /\ Ids \subseteq Nat
  /\ Claims \in [Ids -> SUBSET Prefixes]
  /\ DisableStrikes \in Nat \ {0}
  /\ Nobody \notin Ids \cup Instances

VARIABLES
  disk,      \* the plugins installed in the plugins directory
  persisted, \* ids with a "disabled" entry in the plugins-state namespace
  table,     \* m.plugins
  mode,      \* lp.disabled of the plugins in the table, and why
  index,     \* m.cmds
  inst,      \* the runtimes: life, strikes, backgroundEnabled
  loader,    \* reload passes in progress
  toggler,   \* SetEnabled calls in progress
  searcher,  \* liveSearch calls in progress
  closing    \* Shutdown: not called, or the runtimes still to be stopped

procs == <<loader, toggler, searcher>>
lists == <<disk, persisted, table, mode, index>>
vars == <<lists, inst, procs, closing>>

\* Enabled, disabled by the user (or by his persisted choice), or by the strike
\* rule; the code keeps one bit, "disabled", of it.
Mode == {"on", "user", "rule"}

Runtime == [life : {"free", "live", "shut"}, strikes : 0..DisableStrikes,
            background : BOOLEAN]

Slot == Instances \cup {Nobody}

NoToggle == [pc |-> "idle", id |-> Nobody, on |-> FALSE, inst |-> Nobody]
NoSearch == [pc |-> "idle", id |-> Nobody, inst |-> Nobody]

\* A pass: the directory entries it still has to load, the table it builds and
\* the disabled plugins in it, the old runtimes it still has to shut down; and
\* as history, the plugins it must load disabled.
NoPass == [pc |-> "idle", todo |-> {}, fresh |-> [i \in Ids |-> Nobody],
           off |-> {}, old |-> {}, sure |-> {}]

TypeOK ==
  /\ disk \subseteq Ids
  /\ persisted \subseteq Ids
  /\ table \in [Ids -> Slot]
  /\ mode \in [Ids -> Mode]
  /\ index \in [Prefixes -> Ids \cup {Nobody}]
  /\ inst \in [Instances -> Runtime]
  /\ loader \in [Loaders -> [pc : {"idle", "loading", "retiring"},
                             todo : SUBSET Ids, fresh : [Ids -> Slot],
                             off : SUBSET Ids, old : SUBSET Instances,
                             sure : SUBSET Ids]]
  /\ toggler \in [Togglers -> [pc : {"idle", "reset", "store"}, id : Ids \cup {Nobody},
                               on : BOOLEAN, inst : Slot]]
  /\ searcher \in [Searchers -> [pc : {"idle", "calling", "judging", "condemning"},
                                 id : Ids \cup {Nobody}, inst : Slot]]
  /\ closing \in [called : BOOLEAN, todo : SUBSET Instances]

Init ==
  /\ disk \in SUBSET Ids
  /\ persisted = {}
  /\ table = [i \in Ids |-> Nobody]
  /\ mode = [i \in Ids |-> "on"]
  /\ index = [p \in Prefixes |-> Nobody]
  /\ inst = [x \in Instances |-> [life |-> "free", strikes |-> 0, background |-> FALSE]]
  /\ loader = [l \in Loaders |-> NoPass]
  /\ toggler = [t \in Togglers |-> NoToggle]
  /\ searcher = [s \in Searchers |-> NoSearch]
  /\ closing = [called |-> FALSE, todo |-> {}]

----------------------------------------------------------------------------
(* Helpers.                                                                *)

InTable(x) == \E i \in Ids : table[i] = x

Held(x) ==
  \/ InTable(x) \/ x \in closing.todo
  \/ \E l \in Loaders : x \in loader[l].old \/ \E i \in Ids : loader[l].fresh[i] = x
  \/ \E t \in Togglers : toggler[t].inst = x
  \/ \E s \in Searchers : searcher[s].inst = x

\* rebuildCommandsLocked: a prefix goes to the lowest enabled plugin claiming it.
IndexOf(tab, mod) ==
  [p \in Prefixes |->
     LET claimants == {i \in Ids : tab[i] # Nobody /\ mod[i] = "on" /\ p \in Claims[i]}
     IN  IF claimants = {} THEN Nobody
         ELSE CHOOSE i \in claimants : \A j \in claimants : i <= j]

\* Faulty SetMode: the command index is not rebuilt.
SetModeKeepsIndex(i, m) ==
  /\ mode' = [mode EXCEPT ![i] = m]
  /\ inst' = [inst EXCEPT ![table[i]].background = (m = "on")]
  /\ UNCHANGED index

\* Faulty SetMode: the timers are not told.
SetModeKeepsTimers(i, m) ==
  /\ mode' = [mode EXCEPT ![i] = m]
  /\ index' = IndexOf(table, mode')
  /\ UNCHANGED inst

\* What SetEnabled and disable do under m.mu.
SetMode(i, m) ==
  /\ mode' = [mode EXCEPT ![i] = m]
  /\ inst' = [inst EXCEPT ![table[i]].background = (m = "on")]
  /\ index' = IndexOf(table, mode')

\* jsRuntime.Shutdown: timers stopped, worker gone; a second call does nothing.
ShutDown(x) ==
  inst' = IF inst[x].life = "shut" THEN inst
            ELSE [inst EXCEPT ![x].life = "shut", ![x].background = FALSE]

----------------------------------------------------------------------------
(* The plugins directory changes under the manager: installer, user.       *)

DiskChanges(i) ==
  /\ disk' \in {disk \cup {i}, disk \ {i}} \ {disk}
  /\ UNCHANGED <<persisted, table, mode, index, inst, procs, closing>>

----------------------------------------------------------------------------
(* LoadAll.                                                                *)

PassBegins(l) ==
  /\ loader[l].pc = "idle"
  /\ loader' = [loader EXCEPT ![l] =
       [NoPass EXCEPT !.pc = "loading",
                      !.todo = disk,
                      !.sure = {i \in persisted : \A t \in Togglers : toggler[t].id # i}]]
  /\ UNCHANGED <<lists, inst, toggler, searcher, closing>>

\* Faulty PassLoads: the persisted choice is not read.
PassLoadsEnabled(l) == \E i \in loader[l].todo :
  /\ \A j \in loader[l].todo : i <= j
  /\ \/ /\ i \in disk
        /\ \E x \in Instances :
             /\ ~Held(x) /\ inst[x].life # "live"
             /\ inst' = [inst EXCEPT ![x] =
                  [life |-> "live", strikes |-> 0, background |-> TRUE]]
             /\ loader' = [loader EXCEPT ![l].todo = @ \ {i}, ![l].fresh[i] = x]
     \/ loader' = [loader EXCEPT ![l].todo = @ \ {i}] /\ UNCHANGED inst
  /\ UNCHANGED <<lists, toggler, searcher, closing>>

\* Directory entries come in id order. One that is gone, or whose manifest,
\* module or activate fails, is skipped.
PassLoads(l) == \E i \in loader[l].todo :
  /\ \A j \in loader[l].todo : i <= j
  /\ \/ /\ i \in disk
        /\ \E x \in Instances :
             /\ ~Held(x) /\ inst[x].life # "live"
             /\ inst' = [inst EXCEPT ![x] = [life |-> "live", strikes |-> 0,
                                            background |-> i \notin persisted]]
             /\ loader' = [loader EXCEPT ![l].todo = @ \ {i}, ![l].fresh[i] = x,
                                         ![l].off = @ \cup ({i} \cap persisted)]
     \/ /\ loader' = [loader EXCEPT ![l].todo = @ \ {i}]
        /\ UNCHANGED inst
  /\ UNCHANGED <<lists, toggler, searcher, closing>>

\* Faulty PassSwaps: only plugins that are gone are retired, not replaced ones.
PassSwapsRetiringGone(l) ==
  /\ loader[l].pc = "loading" /\ loader[l].todo = {}
  /\ table' = loader[l].fresh
  /\ mode' = [i \in Ids |-> IF i \in loader[l].off THEN "user" ELSE "on"]
  /\ index' = IndexOf(table', mode')
  /\ loader' = [loader EXCEPT ![l] = [NoPass EXCEPT !.pc = "retiring",
       !.old = {table[i] : i \in {j \in Ids : loader[l].fresh[j] = Nobody}} \ {Nobody}]]
  /\ UNCHANGED <<disk, persisted, inst, toggler, searcher, closing>>

\* Faulty PassSwaps: ids without a plugin are retired too.
PassSwapsRetiringNobody(l) ==
  /\ loader[l].pc = "loading" /\ loader[l].todo = {}
  /\ table' = loader[l].fresh
  /\ mode' = [i \in Ids |-> IF i \in loader[l].off THEN "user" ELSE "on"]
  /\ index' = IndexOf(table', mode')
  /\ loader' = [loader EXCEPT ![l] =
       [NoPass EXCEPT !.pc = "retiring", !.old = {table[i] : i \in Ids}]]
  /\ UNCHANGED <<disk, persisted, inst, toggler, searcher, closing>>

PassSwaps(l) ==
  /\ loader[l].pc = "loading" /\ loader[l].todo = {}
  /\ table' = loader[l].fresh
  /\ mode' = [i \in Ids |-> IF i \in loader[l].off THEN "user" ELSE "on"]
  /\ index' = IndexOf(table', mode')
  /\ loader' = [loader EXCEPT ![l] =
       [NoPass EXCEPT !.pc = "retiring", !.old = {table[i] : i \in Ids} \ {Nobody}]]
  /\ UNCHANGED <<disk, persisted, inst, toggler, searcher, closing>>

PassRetires(l) == \E x \in loader[l].old :
  /\ ShutDown(x)
  /\ loader' = [loader EXCEPT ![l].old = @ \ {x}]
  /\ UNCHANGED <<lists, toggler, searcher, closing>>

PassEnds(l) ==
  /\ loader[l].pc = "retiring" /\ loader[l].old = {}
  /\ loader' = [loader EXCEPT ![l] = NoPass]
  /\ UNCHANGED <<lists, inst, toggler, searcher, closing>>

----------------------------------------------------------------------------
(* SetEnabled: memory under the lock, then the strikes, then the store.    *)

\* The history variable sure forgets a plugin the user touches.
Touched(i) == loader' = [l \in Loaders |-> [loader[l] EXCEPT !.sure = @ \ {i}]]

SetEnabled(t, i, on) ==
  /\ toggler[t].pc = "idle" /\ table[i] # Nobody
  /\ SetMode(i, IF on THEN "on" ELSE "user")
  /\ toggler' = [toggler EXCEPT ![t] =
       [pc |-> IF on THEN "reset" ELSE "store", id |-> i, on |-> on, inst |-> table[i]]]
  /\ Touched(i)
  /\ UNCHANGED <<disk, persisted, table, searcher, closing>>

ToggleResets(t) ==
  /\ toggler[t].pc = "reset"
  /\ inst' = [inst EXCEPT ![toggler[t].inst].strikes = 0]
  /\ toggler' = [toggler EXCEPT ![t].pc = "store"]
  /\ UNCHANGED <<lists, loader, searcher, closing>>

\* The write may fail: the call then returns the error, memory stays changed.
ToggleStores(t) ==
  /\ toggler[t].pc = "store"
  /\ persisted' \in {persisted, IF toggler[t].on THEN persisted \ {toggler[t].id}
                                                 ELSE persisted \cup {toggler[t].id}}
  /\ toggler' = [toggler EXCEPT ![t] = NoToggle]
  /\ UNCHANGED <<disk, table, mode, index, inst, loader, searcher, closing>>

\* The uninstall path, once the plugin's files are gone.
ClearDisabledState(i) ==
  /\ i \notin disk /\ i \in persisted
  /\ persisted' = persisted \ {i}
  /\ Touched(i)
  /\ UNCHANGED <<disk, table, mode, index, inst, toggler, searcher, closing>>

----------------------------------------------------------------------------
(* liveSearch and the strike rule. Strikes saturate: only the comparison   *)
(* with disableStrikes is ever made.                                       *)

Strike(x) == [inst EXCEPT ![x].strikes = IF @ < DisableStrikes THEN @ + 1 ELSE @]

SearchBegins(s, p) ==
  /\ searcher[s].pc = "idle" /\ index[p] # Nobody
  /\ table[index[p]] # Nobody /\ mode[index[p]] = "on"
  /\ searcher' = [searcher EXCEPT ![s] =
       [pc |-> "calling", id |-> index[p], inst |-> table[index[p]]]]
  /\ UNCHANGED <<lists, inst, loader, toggler, closing>>

\* Rows, a plugin error, or "shutting down".
SearchAnswers(s) ==
  /\ searcher[s].pc = "calling"
  /\ \/ inst' = [inst EXCEPT ![searcher[s].inst].strikes = 0]
     \/ inst[searcher[s].inst].life = "shut" /\ UNCHANGED inst
  /\ searcher' = [searcher EXCEPT ![s] = NoSearch]
  /\ UNCHANGED <<lists, loader, toggler, closing>>

\* TIMEOUT: with a strike, or without one (cancelled, or never dispatched).
SearchTimesOut(s) ==
  /\ searcher[s].pc = "calling"
  /\ inst' \in {inst, Strike(searcher[s].inst)}
  /\ searcher' = [searcher EXCEPT ![s].pc = "judging"]
  /\ UNCHANGED <<lists, loader, toggler, closing>>

SearchJudges(s) ==
  /\ searcher[s].pc = "judging"
  /\ searcher' = [searcher EXCEPT ![s] =
       IF inst[@.inst].strikes >= DisableStrikes THEN [@ EXCEPT !.pc = "condemning"]
                                                 ELSE NoSearch]
  /\ UNCHANGED <<lists, inst, loader, toggler, closing>>

\* disable works on the plugin id, whatever runtime the table now has.
Disable(s) ==
  /\ searcher[s].pc = "condemning"
  /\ IF table[searcher[s].id] # Nobody /\ mode[searcher[s].id] = "on"
       THEN SetMode(searcher[s].id, "rule")
       ELSE UNCHANGED <<mode, index, inst>>
  /\ searcher' = [searcher EXCEPT ![s] = NoSearch]
  /\ UNCHANGED <<disk, persisted, table, loader, toggler, closing>>

\* Callback actions, views and background tasks use the same counter: they
\* succeed, or exceed their own budget.
OtherCall(x) ==
  /\ inst[x].life = "live" /\ InTable(x)
  /\ inst' \in {[inst EXCEPT ![x].strikes = 0], Strike(x)}
  /\ UNCHANGED <<lists, procs, closing>>

----------------------------------------------------------------------------
(* Manager.Shutdown, called once when the application exits.               *)

ShutdownBegins ==
  /\ ~closing.called
  /\ closing' = [called |-> TRUE, todo |-> {table[i] : i \in Ids} \ {Nobody}]
  /\ UNCHANGED <<lists, inst, procs>>

ShutdownStops == \E x \in closing.todo :
  /\ ShutDown(x)
  /\ closing' = [closing EXCEPT !.todo = @ \ {x}]
  /\ UNCHANGED <<lists, procs>>

----------------------------------------------------------------------------
PassStep(l) == PassLoads(l) \/ PassSwaps(l) \/ PassRetires(l) \/ PassEnds(l)
ToggleStep(t) == ToggleResets(t) \/ ToggleStores(t)
SearchStep(s) == SearchAnswers(s) \/ SearchTimesOut(s) \/ SearchJudges(s) \/ Disable(s)

Next ==
  \/ \E i \in Ids : \/ DiskChanges(i)
                    \/ ClearDisabledState(i)
                    \/ \E t \in Togglers, on \in BOOLEAN : SetEnabled(t, i, on)
  \/ \E l \in Loaders : PassBegins(l) \/ PassStep(l)
  \/ \E t \in Togglers : ToggleStep(t)
  \/ \E s \in Searchers : SearchStep(s) \/ \E p \in Prefixes : SearchBegins(s, p)
  \/ \E x \in Instances : OtherCall(x)
  \/ ShutdownBegins \/ ShutdownStops

Spec == Init /\ [][Next]_vars

----------------------------------------------------------------------------
(* Properties.                                                             *)

\* The command index is always the one the table and the modes call for: no
\* prefix leads to a plugin that is gone or disabled (no "ghost" command),
\* none of an enabled plugin is missing.
IndexFollowsTable == index = IndexOf(table, mode)

\* A live runtime is in the table, or in the hands of a pass that will put it
\* there or shut it down: reloads, however they overlap, leak none.
NoRuntimeLeaks ==
  \A x \in Instances : inst[x].life = "live" =>
    \/ InTable(x)
    \/ \E l \in Loaders : x \in loader[l].old \/ \E i \in Ids : loader[l].fresh[i] = x

\* Timers may fire for the plugins of the table that are enabled, for no
\* others, and for no runtime a reload retired (no toggle that raced with the
\* reload switches it on again).
BackgroundFollowsMode ==
  /\ \A i \in Ids : LET x == table[i] IN
       x # Nobody /\ inst[x].life = "live" => inst[x].background = (mode[i] = "on")
  /\ \A x \in Instances :
       ~InTable(x) /\ inst[x].life = "shut" /\ ~closing.called => ~inst[x].background

\* A plugin disabled, and persisted so, before a pass begins and not touched
\* during it comes out of the pass disabled.
ReloadKeepsUserChoice ==
  [][\A l \in Loaders : loader[l].pc = "loading" /\ loader'[l].pc = "retiring" =>
       \A i \in loader[l].sure : table'[i] # Nobody => mode'[i] # "on"]_vars

----------------------------------------------------------------------------
(* A statement of the documentation that the code contradicts.             *)

\* "The user's choice to enable or disable is persisted and kept across upgrades
\* and reloads" (docs/plugins.md, section 9).
ReloadKeepsMode ==
  [][\A l \in Loaders, i \in Ids :
       /\ loader[l].pc = "loading" /\ loader'[l].pc = "retiring"
       /\ table[i] # Nobody /\ table'[i] # Nobody
       => (mode[i] = "user" => mode'[i] # "on")]_vars

=============================================================================
