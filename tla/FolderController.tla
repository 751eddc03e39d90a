-------------------------- MODULE FolderController --------------------------
(***************************************************************************)
(* Folder sources: internal/folders/controller.go over its three layers,   *)
(* the bbolt records, the index cache (in-memory mirror and JSON file of   *)
(* internal/indexcache) and the search provider. Every call of the         *)
(* settings window runs on its own goroutine; each layer has its own lock  *)
(* and no lock spans two of them.                                          *)
(*                                                                         *)
(* What a scan finds is one of a few versions of the folder tree; a layer  *)
(* keeps the version it last received for a source, or Nothing.            *)
(***************************************************************************)
EXTENDS Naturals

CONSTANTS
  Sources,     \* source ids: random, each drawn by one AddSource
  Roots,       \* folders that may be configured
  RootOf,      \* the path each id is created for
  Workers,     \* goroutines that run controller operations
  Owned,       \* the sources each of them operates on
  Trees,       \* bound: the versions of its folder tree a scan may find
  MaxCrashes   \* bound: restarts of the application

ASSUME FolderAssumption ==
  /\ RootOf \in [Sources -> Roots]
  /\ Owned \in [Workers -> SUBSET Sources]
  /\ Trees \in [Sources -> SUBSET (Nat \ {0})]
  /\ MaxCrashes \in Nat

Nothing == 0
Versions == UNION {Trees[s] : s \in Sources}
Entries == [Sources -> Versions \cup {Nothing}]

VARIABLES
  used,     \* ids already drawn
  record,   \* the source records of the store
  mirror,   \* Cache.folderEntries
  file,     \* cache/folder-index.json
  index,    \* Provider.index
  scanning, \* the sources whose Controller.status has Scanning set
  worker,   \* operations in progress
  crashes,
  clashes   \* history: have two operations overlapped on one source, or two
            \* rebuilds of the provider's index, since the start

history == <<crashes, clashes>>
layers == <<record, mirror, file, index, scanning>>
vars == <<used, layers, worker, history>>

\* An operation: its source, the entries it will install, and the copy of the
\* provider's index it builds the next one from.
Idle == [pc |-> "idle", op |-> "none", src |-> Nothing, found |-> Nothing,
         kept |-> [s \in Sources |-> Nothing]]

TypeOK ==
  /\ used \subseteq Sources
  /\ \A s \in Sources \ used : record[s] = "none" /\ {mirror[s], file[s], index[s]} = {Nothing}
  /\ record \in [Sources -> {"none", "on", "off"}]
  /\ {mirror, file, index} \subseteq Entries
  /\ scanning \subseteq used
  /\ worker \in [Workers ->
       [pc : {"idle", "put", "get", "mark", "scan", "save", "cache", "uncache",
              "restore", "read", "swap", "unmark"},
        op : {"none", "add", "remove", "enable", "disable", "refresh"},
        src : Sources \cup {Nothing},
        found : Versions \cup {Nothing},
        kept : Entries]]
  /\ crashes \in 0..MaxCrashes
  /\ clashes \subseteq {"source", "provider"}

Init ==
  /\ used = {}
  /\ record = [s \in Sources |-> "none"]
  /\ mirror = [s \in Sources |-> Nothing]
  /\ file = mirror
  /\ index = mirror
  /\ scanning = {}
  /\ worker = [w \in Workers |-> Idle]
  /\ crashes = 0
  /\ clashes = {}

----------------------------------------------------------------------------
(* Steps of an operation.                                                  *)

Src(w) == worker[w].src
At(w, pc) == worker[w].pc = pc
Goto(w, pc) == worker' = [worker EXCEPT ![w].pc = pc]
Operation(op, s, pc) == [Idle EXCEPT !.op = op, !.src = s, !.pc = pc]
Start(w, op, s, pc) ==
  /\ worker' = [worker EXCEPT ![w] = Operation(op, s, pc)]
  /\ clashes' = IF \E v \in Workers : Src(v) = s THEN clashes \cup {"source"} ELSE clashes
  /\ UNCHANGED crashes
Found(w, v, pc) == worker' = [worker EXCEPT ![w].pc = pc, ![w].found = v]
\* What the operation held is not used again.
Turn(w, op, pc) == worker' = [worker EXCEPT ![w] = Operation(op, Src(w), pc)]
Done(w) == worker' = [worker EXCEPT ![w] = Idle]
Mark(s) == scanning' = scanning \cup {s}
Unmark(s) == scanning' = scanning \ {s}

\* writeJSON replaces the whole file or, when it fails, leaves it as it was;
\* the mirror has changed in both cases.
Install(s, v) ==
  /\ mirror' = [mirror EXCEPT ![s] = v]
  /\ file' \in {mirror', file}

\* Faulty AddChecks: the new source has no id of its own.
AddChecksNoId(w, s) ==
  /\ At(w, "idle") /\ s \notin used
  /\ \A t \in Sources : record[t] # "none" => RootOf[t] # RootOf[s]
  /\ Mark(s)
  /\ Start(w, "add", s, "scan")
  /\ UNCHANGED <<used, record, mirror, file, index>>

\* AddSource: duplicate check under mu, then (mu released) the scan.
AddChecks(w, s) ==
  /\ At(w, "idle") /\ s \notin used
  /\ \A t \in Sources : record[t] # "none" => RootOf[t] # RootOf[s]
  /\ used' = used \cup {s}
  /\ Mark(s)
  /\ Start(w, "add", s, "scan")
  /\ UNCHANGED <<record, mirror, file, index>>

\* Faulty Scans: a refresh whose scan fails returns with the mark still set.
ScansKeepingMark(w) ==
  /\ At(w, "scan")
  /\ \/ /\ worker[w].op = "add"
        /\ \E v \in Trees[Src(w)] \cup {Nothing} : Found(w, v, "save")
        /\ UNCHANGED scanning
     \/ /\ worker[w].op = "refresh"
        /\ \/ \E v \in Trees[Src(w)] : Found(w, v, "cache") /\ Unmark(Src(w))
           \/ Done(w) /\ UNCHANGED scanning
  /\ UNCHANGED <<used, record, mirror, file, index, history>>

\* Scan reads the tree, which may have changed since the last time, or fails.
\* RefreshSource then clears the mark, and a failed scan ends it; AddSource
\* saves the record in either case.
Scans(w) ==
  /\ At(w, "scan")
  /\ \/ /\ worker[w].op = "add"
        /\ \E v \in Trees[Src(w)] \cup {Nothing} : Found(w, v, "save")
        /\ UNCHANGED scanning
     \/ /\ worker[w].op = "refresh"
        /\ Unmark(Src(w))
        /\ Done(w) \/ \E v \in Trees[Src(w)] : Found(w, v, "cache")
  /\ UNCHANGED <<used, record, mirror, file, index, history>>

\* PutFolderSource may fail; so may the scan have done.
AddSaves(w) ==
  /\ At(w, "save")
  /\ record' \in {record, [record EXCEPT ![Src(w)] = "on"]}
  /\ IF record'[Src(w)] = record[Src(w)] \/ worker[w].found = Nothing
       THEN Turn(w, "add", "unmark")
       ELSE Goto(w, "cache")
  /\ UNCHANGED <<used, scanning, mirror, file, index, history>>

CacheReplaces(w) ==
  /\ At(w, "cache")
  /\ Install(Src(w), worker[w].found)
  /\ Goto(w, "read")
  /\ UNCHANGED <<used, record, index, scanning, history>>

\* Provider.ReplaceSourceEntries: copy the others' entries under the read lock.
ProviderReads(w) ==
  /\ At(w, "read")
  /\ worker' = [worker EXCEPT ![w].pc = "swap", ![w].kept = index]
  /\ clashes' = IF \E v \in Workers : At(v, "swap") THEN clashes \cup {"provider"}
                ELSE clashes
  /\ UNCHANGED <<used, layers, crashes>>

\* ... and swap the rebuilt index in under the write lock. SetEnabled leaves a
\* refresh of the enabled source to a goroutine.
ProviderSwaps(w) ==
  /\ At(w, "swap")
  /\ index' = [worker[w].kept EXCEPT ![Src(w)] = worker[w].found]
  /\ \/ worker[w].op \in {"add", "remove"} /\ Turn(w, worker[w].op, "unmark")
     \/ worker[w].op \in {"disable", "refresh"} /\ Done(w)
     \/ worker[w].op = "enable" /\ Turn(w, "refresh", "get")
  /\ UNCHANGED <<used, record, mirror, file, scanning, history>>

\* AddSource and RemoveSource end with the source's status.
Unmarks(w) ==
  /\ At(w, "unmark")
  /\ Unmark(Src(w))
  /\ Done(w)
  /\ UNCHANGED <<used, record, mirror, file, index, history>>

\* Faulty RemoveDeletes: the cache entries are forgotten.
RemoveKeepsCache(w, s) ==
  /\ At(w, "idle") /\ record[s] # "none"
  /\ record' = [record EXCEPT ![s] = "none"]
  /\ Start(w, "remove", s, "read")
  /\ UNCHANGED <<used, mirror, file, index, scanning>>

RemoveDeletes(w, s) ==
  /\ At(w, "idle") /\ record[s] # "none"
  /\ record' = [record EXCEPT ![s] = "none"]
  /\ Start(w, "remove", s, "uncache")
  /\ UNCHANGED <<used, mirror, file, index, scanning>>

CacheDeletes(w) ==
  /\ At(w, "uncache")
  /\ Install(Src(w), Nothing)
  /\ Goto(w, "read")
  /\ UNCHANGED <<used, record, index, scanning, history>>

\* SetEnabled: GetFolderSource, later PutFolderSource of the changed copy.
ToggleGets(w, s, op) ==
  /\ At(w, "idle") /\ record[s] # "none"
  /\ Start(w, op, s, "put")
  /\ UNCHANGED <<used, layers>>

TogglePuts(w) ==
  /\ At(w, "put")
  /\ \/ LET enable == worker[w].op = "enable"
        IN  /\ record' = [record EXCEPT ![Src(w)] = IF enable THEN "on" ELSE "off"]
            /\ Goto(w, IF enable THEN "restore" ELSE "read")
     \/ UNCHANGED record /\ Done(w)  \* the store fails
  /\ UNCHANGED <<used, mirror, file, index, scanning, history>>

\* Faulty EnableRestores: the entries come from the file, not from the mirror.
EnableRestoresFile(w) ==
  /\ At(w, "restore")
  /\ worker' = [worker EXCEPT ![w].pc = "read", ![w].found = file[Src(w)]]
  /\ UNCHANGED <<used, layers, history>>

EnableRestores(w) ==
  /\ At(w, "restore")
  /\ worker' = [worker EXCEPT ![w].pc = "read", ![w].found = mirror[Src(w)]]
  /\ UNCHANGED <<used, layers, history>>

RefreshBegins(w, s) ==
  /\ At(w, "idle") /\ record[s] = "on"
  /\ Start(w, "refresh", s, "mark")
  /\ UNCHANGED <<used, layers>>

\* RefreshSource in SetEnabled's goroutine: the record may be gone, or off.
RefreshGets(w) ==
  /\ At(w, "get")
  /\ IF record[Src(w)] = "on" THEN Goto(w, "mark") ELSE Done(w)
  /\ UNCHANGED <<used, layers, history>>

RefreshMarks(w) ==
  /\ At(w, "mark")
  /\ Mark(Src(w))
  /\ Goto(w, "scan")
  /\ UNCHANGED <<used, record, mirror, file, index, history>>

----------------------------------------------------------------------------
(* The application dies or quits, and starts again (Open, LoadAtStartup).  *)

\* Faulty Restart: the provider is seeded with every cached entry.
RestartUnfiltered ==
  /\ crashes < MaxCrashes
  /\ crashes' = crashes + 1
  /\ clashes' = {}
  /\ worker' = [w \in Workers |-> Idle]
  /\ mirror' = file
  /\ index' = file
  /\ scanning' = {}
  /\ UNCHANGED <<used, record, file>>

Restart ==
  /\ crashes < MaxCrashes
  /\ crashes' = crashes + 1
  /\ clashes' = {}
  /\ worker' = [w \in Workers |-> Idle]
  /\ mirror' = file
  /\ index' = [s \in Sources |-> IF record[s] = "on" THEN file[s] ELSE Nothing]
  /\ scanning' = {}
  /\ UNCHANGED <<used, record, file>>

----------------------------------------------------------------------------
Begins(w) == \E s \in Owned[w] :
  \/ AddChecks(w, s) \/ RemoveDeletes(w, s) \/ RefreshBegins(w, s)
  \/ \E op \in {"enable", "disable"} : ToggleGets(w, s, op)

Continues(w) ==
  \/ Scans(w) \/ AddSaves(w) \/ CacheReplaces(w) \/ CacheDeletes(w)
  \/ TogglePuts(w) \/ EnableRestores(w) \/ RefreshGets(w) \/ RefreshMarks(w)
  \/ ProviderReads(w) \/ ProviderSwaps(w) \/ Unmarks(w)

Next ==
  \/ \E w \in Workers : Begins(w) \/ Continues(w)
  \/ Restart

Spec == Init /\ [][Next]_vars

----------------------------------------------------------------------------
(* Properties.                                                             *)

\* No operation on the source is in progress.
Settled(s) == \A w \in Workers : Src(w) # s

\* At rest, search shows what the cache has of the enabled sources.
Agree ==
  (\A s \in Sources : Settled(s)) =>
    \A s \in Sources : index[s] = IF record[s] = "on" THEN mirror[s] ELSE Nothing

\* At rest, search shows exactly what the cache has of the enabled sources,
\* whatever was added, toggled, removed, refreshed, lost to a failed write or
\* cut short by a restart before, as long as neither two operations on one
\* source nor two rebuilds of the provider's index have overlapped since the
\* start (controller.go over provider.go and cache.go). docs/search.md:541
\* promises it without that reservation, and then it fails: a scan in flight
\* installs its entries after its source was disabled or removed, and
\* ReplaceSourceEntries (provider.go:52) rebuilds the index from a stale copy.
SearchFollowsConfig == clashes = {} => Agree

\* A source the settings show as scanning is being added or refreshed by some
\* goroutine: no failure path and no other operation, however they overlap,
\* leaves the mark behind (Controller.status).
ScanningIsTrue ==
  \A s \in scanning :
    \E w \in Workers : Src(w) = s /\ worker[w].op \in {"add", "refresh"}

\* Overlapping operations on different sources never disturb each other's cached
\* entries: until a crash comes between the two deletes of RemoveSource, a
\* settled source is cached only while it is configured.
CacheFollowsConfig ==
  "source" \notin clashes /\ crashes = 0 =>
    \A s \in Sources : Settled(s) /\ record[s] = "none" => mirror[s] = Nothing

\* The sources that were removed or not saved: their ids are not drawn again.
Over ==
  {s \in used : record[s] = "none" /\ \A w \in Workers : Src(w) = s => worker[w].op # "add"}

Promise == INSTANCE FolderSources WITH
  conf <- record, over <- Over, cached <- mirror, saved <- file, shown <- index,
  lapses <- clashes

\* The goroutines of the controller, each with steps of its own under three locks,
\* act as if an operation changed one layer at a time to what the others say by then:
\* until two overlap on one source, whoever swaps the index installs what the cache
\* and the record hold at that moment, although it took both earlier and its copy
\* of the others' entries as well; a removed source never comes back; and what is
\* cached of a source was found by a scan of it while it was configured.
LayersActAsOne == Promise!Spec

=============================================================================
