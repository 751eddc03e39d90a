------------------------------ MODULE AppIndex ------------------------------
(***************************************************************************)
(* The index of installed applications: the provider of                    *)
(* internal/providers/apps/apps.go over the scanner of                     *)
(* internal/platform/darwin/apps.go, with cache/app-index.json and the     *)
(* cached icon of a bundle whose own icon cannot be served. Scans run on   *)
(* goroutines: Warmup's, started with the application, and those of        *)
(* maybeRescan, of which the flag "scanning" admits one at a time.         *)
(*                                                                         *)
(* One application stands for all of them. It is installed in successive   *)
(* versions, which also are the clock of the file times: a file is as old  *)
(* as the version that was installed when it was written.                  *)
(***************************************************************************)
EXTENDS Naturals

CONSTANTS
  Warm,        \* the goroutine of Warmup
  Rescanners,  \* goroutines of maybeRescan
  Searchers,   \* concurrent searches
  MaxVersion,  \* bound: versions that get installed
  IconOf,      \* how each version carries its icon
  MaxFaults,   \* bound: operations of the file system or of AppKit that fail
  MaxRestarts  \* bound: restarts, at any moment

ASSUME AppIndexAssumption ==
  /\ Warm \notin Rescanners /\ Rescanners # {}
  /\ MaxVersion \in Nat \ {0}
  /\ IconOf \in [1..MaxVersion -> {"png", "jp2", "catalog"}]
  /\ {MaxFaults, MaxRestarts} \subseteq Nat

Scanners == Rescanners \cup {Warm}
Versions == 0..MaxVersion   \* 0: none

\* What a scan lists: a version (or nothing) and where its icon path points.
Listings == [ver : Versions, icon : {"bundle", "cache", "none"}]
Empty == [ver |-> 0, icon |-> "none"]

\* A PNG file: the version of the icon in it (0: truncated) and its time
\* (0: no such file).
Files == [img : Versions, time : Versions]
Absent == [img |-> 0, time |-> 0]

VARIABLES
  disk,       \* the version installed
  apps,       \* AppSource.apps
  snapshot,   \* Provider.entries and index
  file,       \* cache/app-index.json
  stale,      \* has rescanEvery passed since Provider.lastRescan
  scanning,   \* Provider.scanning
  saw,        \* searches that found the index stale
  scan,       \* scans in progress
  tmp, dst,   \* the cached icon, and the file it is written to first
  faults, restarts,
  overlapped, \* history: has Warmup overlapped a scan since the last start of
              \* a scan that was alone
  unsaved,    \* history: did the last save fail
  shared,     \* history: have two scans written the icon at the same time
  late        \* history: has an application been updated while its icon was
              \* being converted

provider == <<snapshot, file, stale, scanning, saw>>
image == <<tmp, dst>>
history == <<faults, restarts, overlapped, unsaved, shared, late>>
vars == <<disk, apps, provider, scan, image, history>>

\* A scan: what it lists, the image it converted and the file it has open.
Idle == [pc |-> "idle", list |-> Empty, img |-> 0, fd |-> "none"]
Scans == [pc : {"idle", "read", "check", "convert", "write", "rename",
                "store", "list", "swap", "save"},
          list : Listings, img : Versions, fd : {"none", "tmp", "dst", "gone"}]

TypeOK ==
  /\ disk \in 1..MaxVersion
  /\ {apps, snapshot, file} \subseteq Listings
  /\ {stale, scanning} \subseteq BOOLEAN
  /\ saw \subseteq Searchers
  /\ scan \in [Scanners -> Scans]
  /\ {tmp, dst} \subseteq Files
  /\ dst.time = 0 => dst.img = 0
  /\ scanning = (\E r \in Rescanners : scan[r].pc # "idle")
  /\ faults \in 0..MaxFaults /\ restarts \in 0..MaxRestarts
  /\ {overlapped, unsaved, shared, late} \subseteq BOOLEAN

\* A start has Warmup on its way; a search may come before it.
AtStart == [w \in Scanners |-> IF w = Warm THEN [Idle EXCEPT !.pc = "read"] ELSE Idle]

Init ==
  /\ disk = 1
  /\ apps = Empty /\ snapshot = Empty /\ file = Empty
  /\ stale = TRUE /\ scanning = FALSE /\ saw = {}
  /\ scan = AtStart
  /\ tmp = Absent /\ dst = Absent
  /\ faults = 0 /\ restarts = 0
  /\ overlapped = FALSE /\ unsaved = FALSE /\ shared = FALSE /\ late = FALSE

----------------------------------------------------------------------------
At(w, pc) == scan[w].pc = pc
Goto(w, pc) == scan' = [scan EXCEPT ![w].pc = pc]
Scanning(w) == ~At(w, "idle")
Converting(w) == scan[w].pc \in {"convert", "write", "rename"}

Fails ==
  /\ faults < MaxFaults
  /\ faults' = faults + 1
Works == UNCHANGED faults

\* The icon path the scan lists.
PutIcon(w, icon) == scan' = [scan EXCEPT ![w].pc = "store", ![w].list.icon = icon,
                                         ![w].img = 0, ![w].fd = "none"]

----------------------------------------------------------------------------
(* The scan: AppSource.Rescan. Roots or bundles that cannot be read are    *)
(* skipped, so that a scan may list nothing.                               *)

\* readAppBundle: Info.plist.
Reads(w) ==
  /\ At(w, "read")
  /\ \/ /\ scan' = [scan EXCEPT ![w].pc = "check", ![w].list = [ver |-> disk, icon |-> "none"]]
        /\ Works
     \/ /\ scan' = [scan EXCEPT ![w].pc = "store", ![w].list = Empty]
        /\ Fails
  /\ UNCHANGED <<disk, apps, provider, image, restarts, overlapped, unsaved, shared, late>>

\* newestIconSourceMtime against the time of the cached icon.
Fresh == dst.time > 0 /\ dst.time >= disk

\* cachedOrConvertedIcon and renderedIconFallback up to the conversion.
Checks(w) ==
  /\ At(w, "check")
  /\ IF Fresh THEN PutIcon(w, "cache")
     ELSE IF IconOf[disk] = "png" THEN PutIcon(w, "bundle")
     ELSE Goto(w, "convert")
  /\ UNCHANGED <<disk, apps, provider, image, history>>

\* What both return when a step of theirs fails: the bundle's own icon file,
\* or none where there is only a catalogue.
Degrade(w) == PutIcon(w, IF IconOf[scan[w].list.ver] = "catalog" THEN "none" ELSE "bundle")

\* Faulty Converts: the image is written in place.
ConvertsInPlace(w) ==
  /\ At(w, "convert")
  /\ dst' = [img |-> 0, time |-> disk]
  /\ scan' = [scan EXCEPT ![w].pc = "write", ![w].img = disk, ![w].fd = "dst"]
  /\ UNCHANGED <<disk, apps, provider, tmp, history>>

\* convertIcon or renderIcon makes the image; writePNGAtomic's WriteFile then
\* creates or truncates dst.tmp, one name for all scans.
Converts(w) ==
  /\ At(w, "convert")
  /\ \/ /\ scan' = [scan EXCEPT ![w].pc = "write", ![w].img = disk, ![w].fd = "tmp"]
        /\ tmp' = [img |-> 0, time |-> disk]
        /\ shared' = (shared \/ \E v \in Scanners \ {w} : scan[v].pc \in {"write", "rename"})
        /\ Works
     \/ Degrade(w) /\ Fails /\ UNCHANGED <<tmp, shared>>
  /\ UNCHANGED <<disk, apps, provider, dst, restarts, overlapped, unsaved, late>>

\* The file after one write of the whole image at its beginning: over another
\* version's bytes the result is whole only if it is not shorter.
Written(f, img) ==
  {[img |-> i, time |-> disk] : i \in IF f.img \in {0, img} THEN {img} ELSE {0, img}}

\* The write goes to the file that was opened, whatever its name is by now.
Writes(w) ==
  /\ At(w, "write")
  /\ tmp' \in IF scan[w].fd = "tmp" THEN Written(tmp, scan[w].img) ELSE {tmp}
  /\ dst' \in IF scan[w].fd = "dst" THEN Written(dst, scan[w].img) ELSE {dst}
  /\ scan' = [scan EXCEPT ![w].pc = "rename", ![w].fd = "none"]
  /\ UNCHANGED <<disk, apps, provider, history>>

\* A write that fails leaves the truncated file.
WriteFails(w) ==
  /\ At(w, "write")
  /\ Degrade(w) /\ Fails
  /\ UNCHANGED <<disk, apps, provider, image, restarts, overlapped, unsaved, shared, late>>

\* The files that are open change names with the rename; it fails if another
\* scan has renamed the file first.
Renames(w) ==
  /\ At(w, "rename")
  /\ IF tmp = Absent
       THEN Degrade(w) /\ UNCHANGED image
       ELSE /\ dst' = tmp
            /\ tmp' = Absent
            /\ scan' = [v \in Scanners |->
                 IF v = w THEN [scan[w] EXCEPT !.pc = "store", !.list.icon = "cache", !.img = 0]
                 ELSE [scan[v] EXCEPT !.fd = IF @ = "tmp" THEN "dst"
                                             ELSE IF @ = "dst" THEN "gone" ELSE @]]
  /\ UNCHANGED <<disk, apps, provider, history>>

\* Rescan ends: the list replaces AppSource.apps.
Stores(w) ==
  /\ At(w, "store")
  /\ apps' = scan[w].list
  /\ Goto(w, "list")
  /\ UNCHANGED <<disk, provider, image, history>>

----------------------------------------------------------------------------
(* The provider: rescan, maybeRescan and the hook.                         *)

\* List returns what the source has by now, which another scan may have put.
TakesList(w) ==
  /\ At(w, "list")
  /\ scan' = [scan EXCEPT ![w].pc = "swap", ![w].list = apps]
  /\ UNCHANGED <<disk, apps, provider, image, history>>

\* Faulty Swaps: an empty list is not swapped in.
SwapsSome(w) ==
  /\ At(w, "swap")
  /\ snapshot' = IF scan[w].list = Empty THEN snapshot ELSE scan[w].list
  /\ stale' = FALSE
  /\ Goto(w, "save")
  /\ UNCHANGED <<disk, apps, file, scanning, saw, image, history>>

\* The snapshot is swapped, then the time taken, each under its lock.
Swaps(w) ==
  /\ At(w, "swap")
  /\ snapshot' = scan[w].list
  /\ stale' = FALSE
  /\ Goto(w, "save")
  /\ UNCHANGED <<disk, apps, file, scanning, saw, image, history>>

\* Faulty Saves: the flag is not cleared.
SavesKeepingFlag(w) ==
  /\ At(w, "save")
  /\ \/ file' = scan[w].list /\ unsaved' = FALSE /\ Works
     \/ unsaved' = TRUE /\ Fails /\ UNCHANGED file
  /\ scan' = [scan EXCEPT ![w] = Idle]
  /\ UNCHANGED <<disk, apps, snapshot, stale, scanning, saw, image, restarts, overlapped,
                 shared, late>>

\* The hook: SaveAppIndex replaces the file, or fails and leaves it. Then a
\* goroutine of maybeRescan clears the flag.
Saves(w) ==
  /\ At(w, "save")
  /\ \/ file' = scan[w].list /\ unsaved' = FALSE /\ Works
     \/ unsaved' = TRUE /\ Fails /\ UNCHANGED file
  /\ scan' = [scan EXCEPT ![w] = Idle]
  /\ scanning' = (scanning /\ w = Warm)
  /\ UNCHANGED <<disk, apps, snapshot, stale, saw, image, restarts, overlapped, shared, late>>

\* maybeRescan: a search looks at the time of the last scan ...
SearchSees(s) ==
  /\ stale /\ s \notin saw
  /\ saw' = saw \cup {s}
  /\ UNCHANGED <<disk, apps, snapshot, file, stale, scanning, scan, image, history>>

\* A new goroutine, which one does not matter.
Spare == CHOOSE r \in Rescanners : At(r, "idle")
Begins(w) ==
  /\ Goto(w, "read")
  /\ overlapped' = IF \E v \in Scanners : Scanning(v)
                     THEN overlapped \/ Scanning(Warm) ELSE FALSE

\* Faulty SearchScans: the flag is set without looking at it.
SearchScansAnyway(s) ==
  /\ s \in saw /\ \E r \in Rescanners : At(r, "idle")
  /\ saw' = saw \ {s}
  /\ Begins(Spare)
  /\ scanning' = TRUE
  /\ UNCHANGED <<disk, apps, snapshot, file, stale, image, faults, restarts, unsaved, shared, late>>

\* ... and starts a scan if the flag lets it.
SearchScans(s) ==
  /\ s \in saw
  /\ saw' = saw \ {s}
  /\ IF scanning
       THEN UNCHANGED <<scanning, scan, overlapped>>
       ELSE /\ Begins(Spare)
            /\ scanning' = TRUE
  /\ UNCHANGED <<disk, apps, snapshot, file, stale, image, faults, restarts, unsaved, shared, late>>

\* A minute passes.
TimePasses ==
  /\ ~stale
  /\ stale' = TRUE
  /\ UNCHANGED <<disk, apps, snapshot, file, scanning, saw, scan, image, history>>

\* An application is installed or updated.
Update ==
  /\ disk < MaxVersion
  /\ disk' = disk + 1
  /\ late' = (late \/ \E w \in Scanners : Converting(w))
  /\ UNCHANGED <<apps, provider, scan, image, faults, restarts, overlapped, unsaved, shared>>

\* The application dies and is started again: NewWithCache seeds the provider
\* from the file, and no scan has been stamped yet.
Restart ==
  /\ restarts < MaxRestarts
  /\ restarts' = restarts + 1
  /\ apps' = Empty
  /\ snapshot' = file
  /\ stale' = TRUE /\ scanning' = FALSE /\ saw' = {}
  /\ scan' = AtStart
  /\ overlapped' = FALSE /\ unsaved' = FALSE
  /\ UNCHANGED <<disk, file, image, faults, shared, late>>

ScanStep(w) ==
  \/ Reads(w) \/ Checks(w) \/ Converts(w) \/ Writes(w) \/ WriteFails(w)
  \/ Renames(w) \/ Stores(w) \/ TakesList(w) \/ Swaps(w) \/ Saves(w)

Next ==
  \/ \E w \in Scanners : ScanStep(w)
  \/ \E s \in Searchers : SearchSees(s) \/ SearchScans(s)
  \/ TimePasses \/ Update \/ Restart

Spec == Init /\ [][Next]_vars

\* Scans go on, time passes, and the user keeps searching.
FairSpec ==
  /\ Spec
  /\ \A w \in Scanners : WF_vars(ScanStep(w))
  /\ \A s \in Searchers : WF_vars(SearchSees(s)) /\ WF_vars(SearchScans(s))
  /\ WF_vars(TimePasses)

----------------------------------------------------------------------------
\* Between scans the saved index is the one searched, so that the next start
\* shows what this one did -- unless the save failed, or Warmup overlapped the
\* scan of the first search and the two hooks ran in the other order.
SavedIsSearched ==
  (\A w \in Scanners : At(w, "idle")) /\ ~overlapped /\ ~unsaved => file = snapshot

\* A row whose icon is the cached one finds a whole image there, of its own
\* version or a later one, after any crash and any failure -- unless two scans
\* wrote the image at once or the application changed during the conversion.
CachedIconServes ==
  snapshot.icon = "cache" /\ ~shared /\ ~late => dst.img >= snapshot.ver

\* A scan never replaces the index by an older one, except in the overlap of
\* Warmup with the first search's scan; an unreadable disk empties it.
NeverGoesBack ==
  [][\/ snapshot'.ver >= snapshot.ver \/ snapshot' = Empty
     \/ overlapped \/ restarts' # restarts]_vars

\* As long as searches come, index and file follow what is installed, whatever
\* overlapped, failed or crashed before.
CatchesUp == <>[](snapshot.ver = disk /\ file.ver = disk)

=============================================================================
