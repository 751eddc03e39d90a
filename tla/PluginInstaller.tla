-------------------------- MODULE PluginInstaller --------------------------
(***************************************************************************)
(* The installation of one plugin: internal/plugin/installer.go and the    *)
(* version resolution of manifest.go, driven by InstallPlugin,             *)
(* ImportPluginZip, UninstallPlugin and autoUpgradePlugins of              *)
(* service/search_service.go. Every call is a goroutine; nothing but the   *)
(* file system orders them.                                                *)
(*                                                                         *)
(* Archives are validated and extracted into a staging directory of their  *)
(* own, which LoadAll ignores: a user's operation appears here when its    *)
(* staged tree is complete. The auto-upgrade appears when it decides: its  *)
(* download and staging follow, while users go on. Removing a tree takes   *)
(* time and may fail or be cut short; so may writing the pin.              *)
(***************************************************************************)
EXTENDS Naturals

CONSTANTS
  Versions,    \* versions of the plugin, in SemVer order
  Users,       \* goroutines of the settings window
  Upgrader,    \* the auto-upgrade goroutine of each start
  MaxRestarts  \* bound: restarts of the application

None == 0

ASSUME InstallerAssumption ==
  /\ Versions \subseteq Nat \ {None}
  /\ Upgrader \notin Users
  /\ MaxRestarts \in Nat

Workers == Users \cup {Upgrader}
Sources == {"market", "local"}

VARIABLES
  dir,      \* does <root>/<id> exist
  tree,     \* the version directories
  pin,      \* current.json
  loaded,   \* the version the manager runs, with its source
  worker,   \* operations in progress
  restarts,
  faults,   \* history: operations have overlapped; one failed or was cut short
            \* while it removed files
  base,     \* history: the version an upgrade started from, until a user acts
  alone     \* history: an upgrade has decided, operations had not overlapped before,
            \* and no user's has been under way then or begun since

disk == <<dir, tree, pin>>
history == <<restarts, faults, base, alone>>
vars == <<disk, loaded, worker, history>>

\* A version directory without a manifest is bare; a half one has it, but lacks
\* the main file.
Tree == {"none", "whole", "half", "bare"}
Install == [ver : Versions \cup {None}, source : Sources]

\* No pin, or one that cannot be parsed: read as local.
Nothing == [ver |-> None, source |-> "local"]

Idle == [pc |-> "idle", op |-> "none", ver |-> None, found |-> Nothing]

TypeOK ==
  /\ dir \in BOOLEAN
  /\ tree \in [Versions -> Tree]
  /\ ~dir => pin = Nothing /\ \A v \in Versions : tree[v] = "none"
  /\ pin \in Install /\ loaded \in Install
  /\ worker \in [Workers ->
       [pc : {"idle", "listing", "fetch", "replace", "removing", "promote", "pin", "write",
              "uninstall", "resolve", "source", "swap"},
        op : {"none", "market", "local", "upgrade", "uninstall"},
        ver : Versions \cup {None}, found : Install]]
  /\ restarts \in 0..MaxRestarts
  /\ faults \subseteq {"overlap", "error"}
  /\ base \in Versions \cup {None}
  /\ alone \in BOOLEAN

Init ==
  /\ dir = FALSE
  /\ tree = [v \in Versions |-> "none"]
  /\ pin = Nothing
  /\ loaded = Nothing
  /\ worker = [w \in Workers |-> IF w = Upgrader THEN [Idle EXCEPT !.pc = "listing"] ELSE Idle]
  /\ restarts = 0
  /\ faults = {}
  /\ base = None /\ alone = FALSE

----------------------------------------------------------------------------
(* Version resolution.                                                     *)

HasManifest(v) == tree[v] \in {"whole", "half"}

\* Faulty Resolved: a pinned version need not be there.
ResolvedUnchecked ==
  LET there == {v \in Versions : HasManifest(v)}
  IN  IF pin.ver # None THEN pin.ver
      ELSE IF there = {} THEN None
      ELSE CHOOSE v \in there : \A u \in there : u <= v

\* ResolveVersionDir: the pinned version if it is there, or else the highest.
Resolved ==
  LET there == {v \in Versions : HasManifest(v)}
  IN  IF pin.ver \in there THEN pin.ver
      ELSE IF there = {} THEN None
      ELSE CHOOSE v \in there : \A u \in there : u <= v

\* The plugin loads: its code is complete.
Loadable == Resolved # None /\ tree[Resolved] = "whole"

\* What Manager.load makes of the directory when nothing happens meanwhile.
LoadOf == IF Loadable THEN [ver |-> Resolved, source |-> pin.source] ELSE Nothing

----------------------------------------------------------------------------
(* Operations begin.                                                       *)

\* At work on the directory, or at reading it.
Busy(w) == worker[w].pc \notin {"idle", "listing", "fetch"}
Ver(w) == worker[w].ver
At(w, pc) == worker[w].pc = pc
Goto(w, pc) == worker' = [worker EXCEPT ![w].pc = pc]
Ends(w) == worker' = [worker EXCEPT ![w] = Idle]

Starts(w, op, v, pc) ==
  /\ worker' = [worker EXCEPT ![w] = [Idle EXCEPT !.pc = pc, !.op = op, !.ver = v]]
  /\ faults' = IF \E u \in Workers : Busy(u) THEN faults \cup {"overlap"} ELSE faults
  /\ UNCHANGED restarts

\* InstallPlugin, ImportPluginZip.
InstallStarts(w, op, v) ==
  /\ At(w, "idle")
  /\ Starts(w, op, v, "replace")
  /\ base' = None /\ alone' = FALSE
  /\ UNCHANGED <<disk, loaded>>

UninstallStarts(w) ==
  /\ At(w, "idle") /\ dir
  /\ Starts(w, "uninstall", None, "uninstall")
  /\ base' = None /\ alone' = FALSE
  /\ UNCHANGED <<disk, loaded>>

\* The LoadAll after an operation on another plugin.
OtherReloads(w) ==
  /\ At(w, "idle")
  /\ Starts(w, "none", None, "resolve")
  /\ UNCHANGED <<disk, loaded, base, alone>>

\* The user is not at it, the manager runs what is installed, and no half tree
\* is left but the one the upgrade to v will replace.
Sound(v) ==
  /\ \A u \in Users : ~Busy(u)
  /\ loaded = LoadOf
  /\ \A u \in Versions \ {v} : tree[u] # "half"

Decides(v) ==
  /\ worker' = [worker EXCEPT ![Upgrader] =
                  [Idle EXCEPT !.pc = "fetch", !.op = "upgrade", !.ver = v]]
  /\ base' = IF Sound(v) THEN loaded.ver ELSE None
  /\ alone' = ("overlap" \notin faults /\ \A u \in Users : ~Busy(u))
  /\ UNCHANGED <<disk, loaded, restarts, faults>>

\* Faulty UpgradeDecides: any other version is an upgrade.
UpgradeDecidesAny ==
  /\ At(Upgrader, "listing") /\ loaded.ver # None /\ loaded.source = "market"
  /\ \E v \in Versions : v # loaded.ver /\ Decides(v)

\* autoUpgradePlugins looks at a list of the loaded plugins, not at the disk, for
\* one that the registry has a newer version v of.
UpgradeDecides ==
  /\ At(Upgrader, "listing") /\ loaded.ver # None /\ loaded.source = "market"
  /\ \E v \in Versions : v > loaded.ver /\ Decides(v)

\* InstallRemote has downloaded and staged the archive, and goes by the version
\* that the manifest in it names. Nobody looks at the plugin again.
UpgradeStages ==
  /\ At(Upgrader, "fetch")
  /\ \E v \in Versions : /\ Starts(Upgrader, "upgrade", v, "replace")
                         /\ base' = IF v = Ver(Upgrader) THEN base ELSE None
  /\ UNCHANGED <<disk, loaded, alone>>

\* There is nothing newer, or it cannot be fetched.
UpgradeEnds ==
  /\ At(Upgrader, "listing") \/ At(Upgrader, "fetch")
  /\ Ends(Upgrader)
  /\ UNCHANGED <<disk, loaded, history>>

----------------------------------------------------------------------------
(* installFromReader, once the archive is staged.                          *)

Remnants(t) == IF t = "whole" THEN {"half", "bare"} ELSE {t, "bare"}

Fails(w) ==
  /\ Ends(w)
  /\ faults' = faults \cup {"error"}
  /\ UNCHANGED <<restarts, base, alone>>

\* RemoveAll of the version to be replaced, if it is there.
Replaces(w) ==
  /\ At(w, "replace")
  /\ IF tree[Ver(w)] = "none"
       THEN Goto(w, "promote") /\ UNCHANGED tree
       ELSE /\ Goto(w, "removing")
            /\ \E t \in Remnants(tree[Ver(w)]) : tree' = [tree EXCEPT ![Ver(w)] = t]
  /\ UNCHANGED <<dir, pin, loaded, history>>

Removes(w) ==
  /\ At(w, "removing")
  /\ \/ /\ tree' = [tree EXCEPT ![Ver(w)] = "none"]
        /\ Goto(w, "promote")
        /\ UNCHANGED history
     \/ Fails(w) /\ UNCHANGED tree
  /\ UNCHANGED <<dir, pin, loaded>>

\* Faulty Promotes: the plugin directory is not created.
PromotesUnmade(w) ==
  /\ At(w, "promote")
  /\ \/ /\ tree[Ver(w)] = "none"
        /\ tree' = [tree EXCEPT ![Ver(w)] = "whole"]
        /\ Goto(w, "pin")
        /\ UNCHANGED history
     \/ Fails(w) /\ UNCHANGED tree
  /\ UNCHANGED <<dir, pin, loaded>>

\* MkdirAll and Rename, which refuses an existing directory.
Promotes(w) ==
  /\ At(w, "promote")
  /\ \/ /\ tree[Ver(w)] = "none"
        /\ tree' = [tree EXCEPT ![Ver(w)] = "whole"]
        /\ dir' = TRUE
        /\ Goto(w, "pin")
        /\ UNCHANGED history
     \/ Fails(w) /\ dir' \in {dir, TRUE} /\ UNCHANGED tree
  /\ UNCHANGED <<pin, loaded>>

\* WriteFile truncates the pin, then writes it. A failure is only logged.
PinTruncates(w) ==
  /\ At(w, "pin")
  /\ \/ dir /\ pin' = Nothing /\ Goto(w, "write")
     \/ UNCHANGED pin /\ Goto(w, "resolve")
  /\ UNCHANGED <<dir, tree, loaded, history>>

\* Faulty PinWrites: who imports does not tell the manager.
PinWritesUntold(w) ==
  /\ At(w, "write")
  /\ pin' \in {pin, Nothing} \cup
       IF dir THEN {[ver |-> Ver(w),
                     source |-> IF worker[w].op = "local" THEN "local" ELSE "market"]}
              ELSE {}
  /\ IF worker[w].op = "local" THEN Ends(w) ELSE Goto(w, "resolve")
  /\ UNCHANGED <<dir, tree, loaded, history>>

\* Nothing is written, or the file is no longer there; or two writers have left
\* a mixture.
PinWrites(w) ==
  /\ At(w, "write")
  /\ pin' \in {pin, Nothing} \cup
       IF dir THEN {[ver |-> Ver(w),
                     source |-> IF worker[w].op = "local" THEN "local" ELSE "market"]}
              ELSE {}
  /\ Goto(w, "resolve")
  /\ UNCHANGED <<dir, tree, loaded, history>>

----------------------------------------------------------------------------
(* UninstallPlugin.                                                        *)

\* RemoveAll of the plugin directory, file by file in any order.
UninstallRemoves(w) ==
  /\ At(w, "uninstall")
  /\ \/ pin # Nothing /\ pin' = Nothing /\ UNCHANGED tree
     \/ /\ \E v \in Versions : /\ tree[v] # "none"
                               /\ \E t \in (Remnants(tree[v]) \cup {"none"}) \ {tree[v]} :
                                    tree' = [tree EXCEPT ![v] = t]
        /\ UNCHANGED pin
  /\ UNCHANGED <<dir, loaded, worker, history>>

\* Faulty UninstallEnds: the manager is not told.
UninstallEndsUntold(w) ==
  /\ At(w, "uninstall")
  /\ \/ /\ pin = Nothing /\ \A v \in Versions : tree[v] = "none"
        /\ dir' = FALSE
        /\ Ends(w)
        /\ UNCHANGED history
     \/ Fails(w) /\ UNCHANGED dir
  /\ UNCHANGED <<tree, pin, loaded>>

\* An installation that still has the pin open writes to a file that is gone.
UninstallEnds(w) ==
  /\ At(w, "uninstall")
  /\ \/ /\ pin = Nothing /\ \A v \in Versions : tree[v] = "none"
        /\ dir' = FALSE
        /\ worker' = [u \in Workers |-> IF u = w \/ At(u, "write")
                                           THEN [worker[u] EXCEPT !.pc = "resolve"]
                                           ELSE worker[u]]
        /\ UNCHANGED history
     \/ Fails(w) /\ UNCHANGED dir
  /\ UNCHANGED <<tree, pin, loaded>>

----------------------------------------------------------------------------
(* LoadAll, as far as this plugin is concerned: the version, then the      *)
(* source (a second look at the pin), then the table.                      *)

Resolves(w) ==
  /\ At(w, "resolve")
  /\ worker' = [worker EXCEPT ![w].pc = IF Loadable THEN "source" ELSE "swap",
                              ![w].found = [Nothing EXCEPT !.ver = LoadOf.ver]]
  /\ UNCHANGED <<disk, loaded, history>>

ReadsSource(w) ==
  /\ At(w, "source")
  /\ worker' = [worker EXCEPT ![w].pc = "swap", ![w].found.source = pin.source]
  /\ UNCHANGED <<disk, loaded, history>>

Swaps(w) ==
  /\ At(w, "swap")
  /\ loaded' = worker[w].found
  /\ Ends(w)
  /\ UNCHANGED <<disk, history>>

----------------------------------------------------------------------------
(* The application dies or quits, and starts again.                        *)

\* The operation has removed files and not replaced them yet.
Removing(w) == worker[w].pc \in {"removing", "promote", "uninstall"}

Restart ==
  /\ restarts < MaxRestarts
  /\ restarts' = restarts + 1
  /\ faults' = (faults \ {"overlap"}) \cup
               (IF \E w \in Workers : Removing(w) THEN {"error"} ELSE {})
  /\ worker' = [w \in Workers |-> IF w = Upgrader THEN [Idle EXCEPT !.pc = "listing"] ELSE Idle]
  /\ loaded' = LoadOf
  /\ alone' = FALSE
  /\ UNCHANGED <<disk, base>>

UserStarts(w) ==
  \/ UninstallStarts(w)
  \/ \E op \in Sources, v \in Versions : InstallStarts(w, op, v)

Continues(w) ==
  \/ Replaces(w) \/ Removes(w) \/ Promotes(w) \/ PinTruncates(w) \/ PinWrites(w)
  \/ UninstallRemoves(w) \/ UninstallEnds(w)
  \/ Resolves(w) \/ ReadsSource(w) \/ Swaps(w)

Next ==
  \/ \E u \in Users : UserStarts(u)
  \/ UpgradeDecides \/ UpgradeStages \/ UpgradeEnds
  \/ \E w \in Workers : OtherReloads(w)
  \/ \E w \in Workers : Continues(w)
  \/ Restart

Spec == Init /\ [][Next]_vars

----------------------------------------------------------------------------
(* Properties.                                                             *)

Rest == \A w \in Workers : ~Busy(w)

\* Whatever installs, imports, upgrades and uninstalls overlap, a plugin whose
\* directory is there when they are done can be loaded: no two of them mix their
\* trees or leave a pin that hides the complete ones (installFromReader,
\* ResolveVersionDir). Not when a removal failed or was cut short: it leaves half
\* a tree, or none at all.
InstalledLoads == Rest /\ "error" \notin faults /\ dir => Loadable

\* Every operation that changed the directory has told the manager about its
\* last change: at rest the manager runs the version and knows the source that the
\* directory says, through any sequence of operations and restarts. Not after
\* operations that overlapped (an earlier reload may swap its table in last), nor
\* after one that failed half-way (it does not reload).
LoadedIsInstalled == Rest /\ faults = {} => loaded = LoadOf

\* "A failed upgrade keeps the old version and pin, so the active install is the
\* natural rollback" (search_service.go:608): from the moment an upgrade decides
\* until a user acts again, whatever fails and wherever the application dies, the
\* directory can be loaded, and never as an older version than before. Not when
\* the archive holds another version than the registry says.
RollbackSurvives == base # None => Loadable /\ Resolved >= base

\* "local plugins are never touched" (search_service.go:607), although the upgrade
\* decides by what the manager has loaded: it replaces the pin of a local plugin
\* only if a user's operation was under way when it decided or has begun since,
\* while it downloads or installs; or if its decision had come after overlaps.
\* What failed, was cut short or died before does not make it mistake a plugin.
UpgradeSparesLocal ==
  [][(pin.ver # None /\ pin.source = "local" /\ worker[Upgrader].op = "upgrade" /\ pin' # pin)
       => ~alone]_vars

=============================================================================
