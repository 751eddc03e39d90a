--------------------------- MODULE AppIndex_proofs ---------------------------
(***************************************************************************)
(* Proofs about AppIndex, for any number of scans, searches, versions,     *)
(* failures and restarts.                                                  *)
(***************************************************************************)
EXTENDS AppIndex, TLAPS

Pcs == {"idle", "read", "check", "convert", "write", "rename",
        "store", "list", "swap", "save"}
Icons == {"bundle", "cache", "none"}

LEMMA Bounds ==
  /\ MaxVersion \in Nat /\ 1 \in 1..MaxVersion
  /\ 0 \in Versions /\ 1 \in Versions /\ Versions \subseteq Nat
  /\ MaxFaults \in Nat /\ MaxRestarts \in Nat
  /\ Warm \in Scanners /\ Warm \notin Rescanners /\ Rescanners \subseteq Scanners
<1>1. MaxFaults \in {MaxFaults, MaxRestarts} /\ MaxRestarts \in {MaxFaults, MaxRestarts}
  OBVIOUS
<1> QED
  BY <1>1, AppIndexAssumption DEF Versions, Scanners

\* Versions and times are numbers.
LEMMA NumbersType ==
  /\ \A l \in Listings : l.ver \in Nat
  /\ \A f \in Files : f.img \in Nat /\ f.time \in Nat
<1>1. \A v \in Versions : v \in Nat
  BY Bounds
<1> QED
  BY <1>1 DEF Listings, Files

LEMMA IdleType ==
  /\ Idle \in Scans /\ Idle.pc = "idle" /\ Idle.list = Empty
  /\ Empty \in Listings /\ Empty.ver = 0 /\ Empty.icon = "none"
BY Bounds DEF Idle, Scans, Empty, Listings

----------------------------------------------------------------------------
(* What a step leaves of its scan.                                         *)

\* A step of one scan may rename the file that others have open.
Others(w) ==
  \A v \in Scanners : v # w =>
    scan'[v].pc = scan[v].pc /\ scan'[v].list = scan[v].list /\ scan'[v].img = scan[v].img
Becomes(w, pc, list) ==
  /\ scan' \in [Scanners -> Scans] /\ Others(w)
  /\ scan'[w].pc = pc /\ scan'[w].list = list

\* The files that the other scans have open keep their names.
Opened(w) == \A v \in Scanners : v # w => scan'[v].fd = scan[v].fd

LEMMA ScanFields ==
  ASSUME scan \in [Scanners -> Scans], NEW w \in Scanners
  PROVE  /\ scan[w].pc \in Pcs /\ scan[w].list \in Listings /\ scan[w].img \in Versions
         /\ scan[w].list.ver \in Versions /\ scan[w].list.ver \in Nat
         /\ scan[w].list.icon \in Icons
         /\ scan[w].list = [ver |-> scan[w].list.ver, icon |-> scan[w].list.icon]
<1>1. scan[w] \in Scans
  OBVIOUS
<1>2. scan[w].pc \in Pcs /\ scan[w].list \in Listings /\ scan[w].img \in Versions
  BY <1>1 DEF Scans, Pcs
<1> QED
  BY <1>2, Bounds DEF Listings, Icons

\* A step that replaces the scan's record.
LEMMA RecordStep ==
  ASSUME scan \in [Scanners -> Scans], NEW w \in Scanners, NEW c \in Scans,
         scan' = [scan EXCEPT ![w] = c]
  PROVE  Becomes(w, c.pc, c.list) /\ Opened(w) /\ scan'[w] = c
BY DEF Becomes, Others, Opened

LEMMA GotoStep ==
  ASSUME scan \in [Scanners -> Scans], NEW w \in Scanners, NEW pc \in Pcs, Goto(w, pc)
  PROVE  Becomes(w, pc, scan[w].list) /\ Opened(w)
<1> DEFINE c == [scan[w] EXCEPT !.pc = pc]
<1>1. c \in Scans /\ c.pc = pc /\ c.list = scan[w].list
  BY DEF Scans, Pcs
<1>2. scan' = [scan EXCEPT ![w] = c]
  BY DEF Goto
<1> HIDE DEF c
<1> QED
  BY <1>1, <1>2, RecordStep

LEMMA ListStep ==
  ASSUME scan \in [Scanners -> Scans], NEW w \in Scanners, NEW pc \in Pcs, NEW l \in Listings,
         scan' = [scan EXCEPT ![w].pc = pc, ![w].list = l]
  PROVE  Becomes(w, pc, l) /\ Opened(w)
<1> DEFINE c == [scan[w] EXCEPT !.pc = pc, !.list = l]
<1>1. c \in Scans /\ c.pc = pc /\ c.list = l
  BY DEF Scans, Pcs
<1>2. scan' = [scan EXCEPT ![w] = c]
  BY DEF Scans
<1> HIDE DEF c
<1> QED
  BY <1>1, <1>2, RecordStep

LEMMA IconListed ==
  ASSUME NEW l \in Listings, NEW icon \in Icons
  PROVE  /\ [l EXCEPT !.icon = icon] = [ver |-> l.ver, icon |-> icon]
         /\ [ver |-> l.ver, icon |-> icon] \in Listings
BY DEF Listings, Icons

LEMMA IconStep ==
  ASSUME scan \in [Scanners -> Scans], NEW w \in Scanners, NEW icon \in Icons, PutIcon(w, icon)
  PROVE  Becomes(w, "store", [ver |-> scan[w].list.ver, icon |-> icon]) /\ Opened(w)
<1> DEFINE l == [ver |-> scan[w].list.ver, icon |-> icon]
           c == [scan[w] EXCEPT !.pc = "store", !.list = l, !.img = 0, !.fd = "none"]
<1>1. [scan[w].list EXCEPT !.icon = icon] = l /\ l \in Listings
  BY ScanFields, IconListed
<1>2. scan' = [scan EXCEPT ![w] = [scan[w] EXCEPT !.pc = "store", !.img = 0, !.fd = "none",
                             !.list = [scan[w].list EXCEPT !.icon = icon]]]
  BY DEF PutIcon, Scans
<1> HIDE DEF l
<1>3. c \in Scans /\ c.pc = "store" /\ c.list = l
  BY <1>1, Bounds DEF Scans
<1>4. scan' = [scan EXCEPT ![w] = c]
  BY <1>1, <1>2
<1> HIDE DEF c
<1>5. Becomes(w, "store", l) /\ Opened(w)
  BY <1>3, <1>4, RecordStep
<1> QED
  BY <1>5 DEF l

LEMMA WriteStep ==
  ASSUME scan \in [Scanners -> Scans], NEW w \in Scanners, NEW pc \in Pcs,
         NEW img \in Versions, NEW fd \in {"none", "tmp", "dst", "gone"},
         scan' = [scan EXCEPT ![w].pc = pc, ![w].img = img, ![w].fd = fd]
  PROVE  /\ Becomes(w, pc, scan[w].list) /\ Opened(w)
         /\ scan'[w].img = img /\ scan'[w].fd = fd
<1> DEFINE c == [scan[w] EXCEPT !.pc = pc, !.img = img, !.fd = fd]
<1>1. c \in Scans /\ c.pc = pc /\ c.list = scan[w].list /\ c.img = img /\ c.fd = fd
  BY DEF Scans, Pcs
<1>2. scan' = [scan EXCEPT ![w] = c]
  BY DEF Scans
<1> HIDE DEF c
<1> QED
  BY <1>1, <1>2, RecordStep

\* The steps of a scan, by what they change.
ReadMoves(w) ==
  /\ At(w, "read")
  /\ Becomes(w, "check", [ver |-> disk, icon |-> "none"]) \/ Becomes(w, "store", Empty)
  /\ UNCHANGED <<disk, apps, provider, image, restarts, overlapped, unsaved, shared, late>>
IconMoves(w) ==
  /\ \E icon \in Icons :
       /\ Becomes(w, "store", [ver |-> scan[w].list.ver, icon |-> icon])
       /\ icon = "cache" => At(w, "check") /\ Fresh
  /\ scan[w].pc \in {"check", "convert", "write", "rename"}
  /\ UNCHANGED <<disk, apps, provider, image, restarts, overlapped, unsaved, shared, late>>
CheckMoves(w) ==
  /\ At(w, "check") /\ Becomes(w, "convert", scan[w].list)
  /\ UNCHANGED <<disk, apps, provider, image, history>>
ConvertMoves(w) ==
  /\ At(w, "convert") /\ Becomes(w, "write", scan[w].list)
  /\ scan'[w].img = disk /\ scan'[w].fd = "tmp"
  /\ tmp' = [img |-> 0, time |-> disk]
  /\ shared' = (shared \/ \E v \in Scanners \ {w} : scan[v].pc \in {"write", "rename"})
  /\ UNCHANGED <<disk, apps, provider, dst, restarts, overlapped, unsaved, late>>
WriteMoves(w) ==
  /\ At(w, "write") /\ Becomes(w, "rename", scan[w].list)
  /\ tmp' \in IF scan[w].fd = "tmp" THEN Written(tmp, scan[w].img) ELSE {tmp}
  /\ dst' \in IF scan[w].fd = "dst" THEN Written(dst, scan[w].img) ELSE {dst}
  /\ UNCHANGED <<disk, apps, provider, history>>
RenameMoves(w) ==
  /\ At(w, "rename")
  /\ Becomes(w, "store", [ver |-> scan[w].list.ver, icon |-> "cache"])
  /\ dst' = tmp /\ tmp' = Absent
  /\ UNCHANGED <<disk, apps, provider, history>>
StoreMoves(w) ==
  /\ At(w, "store") /\ Becomes(w, "list", scan[w].list)
  /\ apps' = scan[w].list
  /\ UNCHANGED <<disk, provider, image, history>>
TakeMoves(w) ==
  /\ At(w, "list") /\ Becomes(w, "swap", apps)
  /\ UNCHANGED <<disk, apps, provider, image, history>>
SwapMoves(w) ==
  /\ At(w, "swap") /\ Becomes(w, "save", scan[w].list)
  /\ snapshot' = scan[w].list /\ stale' = FALSE
  /\ UNCHANGED <<disk, apps, file, scanning, saw, image, history>>
SaveMoves(w) ==
  /\ At(w, "save") /\ Becomes(w, "idle", Empty)
  /\ file' = scan[w].list \/ (file' = file /\ unsaved')
  /\ unsaved' \in BOOLEAN
  /\ scanning' = (scanning /\ w = Warm)
  /\ UNCHANGED <<disk, apps, snapshot, stale, saw, image, restarts, overlapped, shared, late>>

\* All of them but Renames leave the files of the others alone.
Moves(w) ==
  \/ /\ Opened(w)
     /\ \/ ReadMoves(w) \/ IconMoves(w) \/ CheckMoves(w) \/ ConvertMoves(w)
        \/ WriteMoves(w) \/ StoreMoves(w) \/ TakeMoves(w) \/ SwapMoves(w) \/ SaveMoves(w)
  \/ RenameMoves(w)

LEMMA RenameStep ==
  ASSUME scan \in [Scanners -> Scans], NEW w \in Scanners, At(w, "rename"), tmp # Absent,
         Renames(w)
  PROVE  RenameMoves(w)
<1> DEFINE l == [scan[w].list EXCEPT !.icon = "cache"]
           c == [scan[w] EXCEPT !.pc = "store", !.list.icon = "cache", !.img = 0]
           d(v) == [scan[v] EXCEPT !.fd = IF @ = "tmp" THEN "dst"
                                          ELSE IF @ = "dst" THEN "gone" ELSE @]
<1>1. l \in Listings /\ l = [ver |-> scan[w].list.ver, icon |-> "cache"]
  BY ScanFields, IconListed DEF Icons
<1>2. c \in Scans /\ c.pc = "store" /\ c.list = l
  <2> HIDE DEF l
  <2>1. scan[w] \in Scans /\ c = [scan[w] EXCEPT !.pc = "store", !.list = l, !.img = 0]
    BY DEF Scans, l
  <2> QED
    BY <1>1, <2>1, Bounds DEF Scans
<1>3. ASSUME NEW v \in Scanners
      PROVE  /\ d(v) \in Scans /\ d(v).pc = scan[v].pc
             /\ d(v).list = scan[v].list /\ d(v).img = scan[v].img
  <2>1. scan[v] \in Scans
    OBVIOUS
  <2> QED
    BY <2>1 DEF Scans
<1>4. scan' = [v \in Scanners |-> IF v = w THEN c ELSE d(v)]
      /\ dst' = tmp /\ tmp' = Absent
  BY DEF Renames
<1> HIDE DEF c, d
<1>5. scan' \in [Scanners -> Scans] /\ Others(w) /\ scan'[w] = c
  BY <1>2, <1>3, <1>4 DEF Others
<1>6. Becomes(w, "store", l)
  BY <1>2, <1>5 DEF Becomes
<1> HIDE DEF l
<1> QED
  BY <1>1, <1>4, <1>6 DEF Renames, RenameMoves

LEMMA ScanSteps ==
  ASSUME scan \in [Scanners -> Scans], apps \in Listings, disk \in Versions,
         {overlapped, unsaved, shared, late} \subseteq BOOLEAN,
         NEW w \in Scanners, ScanStep(w)
  PROVE  Moves(w)
<1>p. {"check", "store", "convert", "write", "rename", "list", "swap", "save"} \subseteq Pcs
  BY DEF Pcs
<1>d. ASSUME Degrade(w), scan[w].pc \in {"convert", "write", "rename"},
             UNCHANGED <<disk, apps, provider, image, restarts, overlapped, unsaved, shared, late>>
      PROVE  Opened(w) /\ IconMoves(w)
  <2>1. PICK icon \in {"none", "bundle"} : PutIcon(w, icon)
    BY <1>d DEF Degrade
  <2>2. icon \in Icons /\ icon # "cache"
    BY DEF Icons
  <2>3. Becomes(w, "store", [ver |-> scan[w].list.ver, icon |-> icon]) /\ Opened(w)
    BY <2>1, <2>2, IconStep
  <2> QED
    BY <1>d, <2>2, <2>3 DEF IconMoves
<1>1. CASE Reads(w)
  <2>1. [ver |-> disk, icon |-> "none"] \in Listings /\ Empty \in Listings
    BY IdleType DEF Listings
  <2>2. \/ scan' = [scan EXCEPT ![w].pc = "check", ![w].list = [ver |-> disk, icon |-> "none"]]
        \/ scan' = [scan EXCEPT ![w].pc = "store", ![w].list = Empty]
    BY <1>1 DEF Reads
  <2>3. /\ \/ Becomes(w, "check", [ver |-> disk, icon |-> "none"])
           \/ Becomes(w, "store", Empty)
        /\ Opened(w)
    BY <1>p, <2>1, <2>2, ListStep
  <2> QED
    BY <1>1, <2>3 DEF Reads, ReadMoves, Moves
<1>2. CASE Checks(w)
  <2>1. CASE Goto(w, "convert")
    <3>1. Becomes(w, "convert", scan[w].list) /\ Opened(w)
      BY <1>p, <2>1, GotoStep
    <3> QED
      BY <1>2, <3>1 DEF Checks, CheckMoves, Moves
  <2>2. CASE PutIcon(w, "cache") /\ Fresh
    <3>1. "cache" \in Icons
      BY DEF Icons
    <3>2. Becomes(w, "store", [ver |-> scan[w].list.ver, icon |-> "cache"]) /\ Opened(w)
      BY <2>2, <3>1, IconStep
    <3> QED
      BY <1>2, <2>2, <3>1, <3>2 DEF Checks, IconMoves, Moves, At, history
  <2>3. CASE PutIcon(w, "bundle")
    <3>1. "bundle" \in Icons
      BY DEF Icons
    <3>2. Becomes(w, "store", [ver |-> scan[w].list.ver, icon |-> "bundle"]) /\ Opened(w)
      BY <2>3, <3>1, IconStep
    <3> QED
      BY <1>2, <3>1, <3>2 DEF Checks, IconMoves, Moves, At, history
  <2> QED
    BY <1>2, <2>1, <2>2, <2>3 DEF Checks
<1>3. CASE Converts(w)
  <2>1. CASE Degrade(w) /\ UNCHANGED <<tmp, shared>>
    BY <1>d, <1>3, <2>1 DEF Converts, Moves, At, image
  <2>2. CASE ~(Degrade(w) /\ UNCHANGED <<tmp, shared>>)
    <3>1. /\ scan' = [scan EXCEPT ![w].pc = "write", ![w].img = disk, ![w].fd = "tmp"]
          /\ tmp' = [img |-> 0, time |-> disk]
          /\ shared' = (shared \/ \E v \in Scanners \ {w} : scan[v].pc \in {"write", "rename"})
      BY <1>3, <2>2 DEF Converts
    <3>2. /\ Becomes(w, "write", scan[w].list) /\ Opened(w)
          /\ scan'[w].img = disk /\ scan'[w].fd = "tmp"
      BY <1>p, <3>1, WriteStep
    <3> QED
      BY <1>3, <3>1, <3>2 DEF Converts, ConvertMoves, Moves
  <2> QED
    BY <2>1, <2>2
<1>4. CASE Writes(w)
  <2> DEFINE c == [scan[w] EXCEPT !.pc = "rename", !.fd = "none"]
  <2>1. c \in Scans /\ c.pc = "rename" /\ c.list = scan[w].list
    BY DEF Scans
  <2>2. scan' = [scan EXCEPT ![w] = c]
    BY <1>4 DEF Writes, Scans
  <2> HIDE DEF c
  <2>3. Becomes(w, "rename", scan[w].list) /\ Opened(w)
    BY <2>1, <2>2, RecordStep
  <2> QED
    BY <1>4, <2>3 DEF Writes, WriteMoves, Moves
<1>5. CASE WriteFails(w)
  BY <1>d, <1>5 DEF WriteFails, Moves, At
<1>6. CASE Renames(w)
  <2>1. CASE tmp = Absent
    BY <1>d, <1>6, <2>1 DEF Renames, Moves, At, history
  <2>2. CASE tmp # Absent
    BY <1>6, <2>2, RenameStep DEF Renames, Moves
  <2> QED
    BY <2>1, <2>2
<1>7. CASE Stores(w)
  <2>1. Becomes(w, "list", scan[w].list) /\ Opened(w)
    BY <1>p, <1>7, GotoStep DEF Stores
  <2> QED
    BY <1>7, <2>1 DEF Stores, StoreMoves, Moves
<1>8. CASE TakesList(w)
  <2>1. Becomes(w, "swap", apps) /\ Opened(w)
    BY <1>p, <1>8, ListStep DEF TakesList
  <2> QED
    BY <1>8, <2>1 DEF TakesList, TakeMoves, Moves
<1>9. CASE Swaps(w)
  <2>1. Becomes(w, "save", scan[w].list) /\ Opened(w)
    BY <1>p, <1>9, GotoStep DEF Swaps
  <2> QED
    BY <1>9, <2>1 DEF Swaps, SwapMoves, Moves
<1>10. CASE Saves(w)
  <2>1. Becomes(w, Idle.pc, Idle.list) /\ Opened(w)
    BY <1>10, IdleType, RecordStep DEF Saves
  <2>2. Becomes(w, "idle", Empty)
    BY <2>1, IdleType
  <2> QED
    BY <1>10, <2>1, <2>2 DEF Saves, SaveMoves, Moves
<1> QED
  BY <1>1, <1>2, <1>3, <1>4, <1>5, <1>6, <1>7, <1>8, <1>9, <1>10 DEF ScanStep

----------------------------------------------------------------------------
(* Types.                                                                  *)

\* At most one scan is maybeRescan's.
OneRescan == \A r, q \in Rescanners : Scanning(r) /\ Scanning(q) => r = q

TypeInv == TypeOK /\ OneRescan /\ (tmp.time = 0 => tmp.img = 0)

\* The parts of TypeInv that a step can disturb.
DataOK ==
  /\ disk \in 1..MaxVersion
  /\ apps \in Listings /\ snapshot \in Listings /\ file \in Listings
  /\ saw \subseteq Searchers
  /\ tmp \in Files /\ dst \in Files
  /\ (dst.time = 0 => dst.img = 0) /\ (tmp.time = 0 => tmp.img = 0)
  /\ faults \in 0..MaxFaults /\ restarts \in 0..MaxRestarts
FlagsOK ==
  /\ stale \in BOOLEAN /\ overlapped \in BOOLEAN /\ unsaved \in BOOLEAN
  /\ shared \in BOOLEAN /\ late \in BOOLEAN
FlagTells == scanning = (\E r \in Rescanners : scan[r].pc # "idle")

LEMMA TypeParts ==
  TypeInv <=> /\ DataOK /\ FlagsOK /\ FlagTells /\ OneRescan
              /\ scan \in [Scanners -> Scans]
<1>1. {apps, snapshot, file} \subseteq Listings <=>
        apps \in Listings /\ snapshot \in Listings /\ file \in Listings
  OBVIOUS
<1>2. {tmp, dst} \subseteq Files <=> tmp \in Files /\ dst \in Files
  OBVIOUS
<1>3. FlagTells => scanning \in BOOLEAN
  BY DEF FlagTells
<1>4. FlagTells => ({stale, scanning} \subseteq BOOLEAN <=> stale \in BOOLEAN)
  BY <1>3
<1>5. {overlapped, unsaved, shared, late} \subseteq BOOLEAN <=>
        /\ overlapped \in BOOLEAN /\ unsaved \in BOOLEAN
        /\ shared \in BOOLEAN /\ late \in BOOLEAN
  OBVIOUS
<1> QED
  BY <1>1, <1>2, <1>4, <1>5, Zenon DEF TypeInv, TypeOK, DataOK, FlagsOK, FlagTells

\* What the program starts with.
LEMMA StartType ==
  /\ AtStart \in [Scanners -> Scans]
  /\ \A w \in Scanners : /\ AtStart[w].pc = IF w = Warm THEN "read" ELSE "idle"
                         /\ AtStart[w].list = Empty
<1> DEFINE c == [Idle EXCEPT !.pc = "read"]
<1>1. c \in Scans /\ c.pc = "read" /\ c.list = Empty
  BY IdleType DEF Idle, Scans
<1>2. AtStart = [w \in Scanners |-> IF w = Warm THEN c ELSE Idle]
  BY DEF AtStart
<1> HIDE DEF c
<1> QED
  BY <1>1, <1>2, IdleType

\* A search that starts a scan, and the steps that start none.
BeginMoves(r) ==
  /\ At(r, "idle") /\ ~scanning
  /\ Becomes(r, "read", scan[r].list) /\ Opened(r)
  /\ overlapped' = (IF \E v \in Scanners : Scanning(v) THEN overlapped \/ Scanning(Warm) ELSE FALSE)
  /\ scanning' = TRUE
  /\ UNCHANGED <<disk, apps, snapshot, file, stale, image, faults, restarts, unsaved, shared, late>>
Quiet == UNCHANGED <<disk, apps, snapshot, file, scanning, scan, image, history>>

LEMMA SearchSteps ==
  ASSUME TypeInv, NEW s \in Searchers, SearchSees(s) \/ SearchScans(s)
  PROVE  /\ saw' \subseteq Searchers /\ stale' \in BOOLEAN
         /\ Quiet \/ \E r \in Rescanners : BeginMoves(r)
<1>t. DataOK /\ FlagsOK /\ FlagTells /\ scan \in [Scanners -> Scans]
  BY TypeParts
<1>1. CASE SearchSees(s)
  BY <1>t, <1>1 DEF SearchSees, Quiet, DataOK, FlagsOK
<1>2. CASE SearchScans(s)
  <2>1. CASE scanning
    BY <1>t, <1>2, <2>1 DEF SearchScans, Quiet, DataOK, FlagsOK, history
  <2>2. CASE ~scanning
    <3>1. PICK r \in Rescanners : r = Spare /\ At(r, "idle")
      <4>1. \E r \in Rescanners : At(r, "idle")
        BY <1>t, <2>2, AppIndexAssumption DEF FlagTells, At
      <4> QED
        BY <4>1 DEF Spare
    <3>2. Begins(r) /\ scanning' = TRUE
      BY <1>2, <2>2, <3>1 DEF SearchScans
    <3>3. "read" \in Pcs /\ r \in Scanners
      BY Bounds DEF Pcs
    <3>4. Becomes(r, "read", scan[r].list) /\ Opened(r)
      BY <1>t, <3>2, <3>3, GotoStep DEF Begins
    <3>5. BeginMoves(r)
      BY <1>2, <2>2, <3>1, <3>2, <3>4 DEF SearchScans, BeginMoves, Begins
    <3> QED
      BY <1>t, <1>2, <3>5 DEF SearchScans, DataOK, FlagsOK
  <2> QED
    BY <2>1, <2>2
<1> QED
  BY <1>1, <1>2

\* What all steps of a scan have in common.
LEMMA MoveKeeps ==
  ASSUME NEW w \in Scanners, Moves(w)
  PROVE  /\ scan' \in [Scanners -> Scans] /\ Others(w)
         /\ Scanning(w) /\ (Scanning(w)' <=> ~SaveMoves(w))
         /\ disk' = disk /\ overlapped' = overlapped /\ late' = late
         /\ restarts' = restarts /\ saw' = saw
         /\ (~SaveMoves(w) => scanning' = scanning /\ unsaved' = unsaved /\ file' = file)
<1>0. /\ ReadMoves(w) \/ CheckMoves(w) \/ WriteMoves(w) \/ StoreMoves(w) \/ TakeMoves(w)
           \/ SwapMoves(w) \/ SaveMoves(w) \/ RenameMoves(w) \/ IconMoves(w) \/ ConvertMoves(w)
  BY DEF Moves
<1>1. CASE ReadMoves(w)
  BY <1>1, Zenon DEF ReadMoves, SaveMoves, Becomes, Scanning, At, provider
<1>2. CASE CheckMoves(w)
  BY <1>2, Zenon DEF CheckMoves, SaveMoves, Becomes, Scanning, At, provider, history
<1>3. CASE WriteMoves(w)
  BY <1>3, Zenon DEF WriteMoves, SaveMoves, Becomes, Scanning, At, provider, history
<1>4. CASE StoreMoves(w)
  BY <1>4, Zenon DEF StoreMoves, SaveMoves, Becomes, Scanning, At, provider, history
<1>5. CASE TakeMoves(w)
  BY <1>5, Zenon DEF TakeMoves, SaveMoves, Becomes, Scanning, At, provider, history
<1>6. CASE SwapMoves(w)
  BY <1>6, Zenon DEF SwapMoves, SaveMoves, Becomes, Scanning, At, provider, history
<1>7. CASE SaveMoves(w)
  BY <1>7, Zenon DEF SaveMoves, Becomes, Scanning, At, provider, history
<1>8. CASE RenameMoves(w)
  BY <1>8, Zenon DEF RenameMoves, SaveMoves, Becomes, Scanning, At, provider, history
<1>9. CASE IconMoves(w)
  <2>1. scan[w].pc \notin {"idle", "save"}
    BY <1>9 DEF IconMoves
  <2> QED
    BY <1>9, <2>1, Zenon DEF IconMoves, SaveMoves, Becomes, Scanning, At, provider, history
<1>10. CASE ConvertMoves(w)
  BY <1>10, Zenon DEF ConvertMoves, SaveMoves, Becomes, Scanning, At, provider, history
<1> QED
  BY <1>0, <1>1, <1>2, <1>3, <1>4, <1>5, <1>6, <1>7, <1>8, <1>9, <1>10

LEMMA FaultsStep ==
  ASSUME NEW w \in Scanners, ScanStep(w), faults \in 0..MaxFaults
  PROVE  faults' \in 0..MaxFaults
<1>1. faults' = faults \/ (faults < MaxFaults /\ faults' = faults + 1)
  BY Zenon DEF ScanStep, Reads, Checks, Converts, Writes, WriteFails, Renames, Stores, TakesList,
     Swaps, Saves, Works, Fails, history
<1> QED
  BY <1>1, Bounds

\* A step of a scan leaves the files well formed.
LEMMA FilesStep ==
  ASSUME DataOK, scan \in [Scanners -> Scans], NEW w \in Scanners, Moves(w)
  PROVE  /\ tmp' \in Files /\ dst' \in Files
         /\ (dst'.time = 0 => dst'.img = 0) /\ (tmp'.time = 0 => tmp'.img = 0)
<1>0. disk \in Versions /\ disk # 0 /\ scan[w].img \in Versions
  <2>1. disk \in Versions /\ disk # 0
    BY Bounds DEF DataOK, Versions
  <2> QED
    BY <2>1, ScanFields
<1>1. CASE WriteMoves(w)
  <2>1. ASSUME NEW f \in Files, NEW g \in Written(f, scan[w].img)
        PROVE  g \in Files /\ g.time # 0
    <3>1. \E i \in {0, scan[w].img} : g = [img |-> i, time |-> disk]
      BY <2>1 DEF Written
    <3> QED
      BY <3>1, <1>0, Bounds DEF Files
  <2>2. tmp' = tmp \/ tmp' \in Written(tmp, scan[w].img)
    BY <1>1 DEF WriteMoves
  <2>3. dst' = dst \/ dst' \in Written(dst, scan[w].img)
    BY <1>1 DEF WriteMoves
  <2> QED
    BY <2>1, <2>2, <2>3 DEF DataOK
<1>2. CASE RenameMoves(w)
  <2>1. Absent \in Files /\ Absent.img = 0
    BY Bounds DEF Absent, Files
  <2> QED
    BY <1>2, <2>1 DEF RenameMoves, DataOK
<1>3. CASE ConvertMoves(w)
  <2>1. tmp' \in Files /\ tmp'.time # 0 /\ dst' = dst
    BY <1>0, <1>3, Bounds DEF ConvertMoves, Files
  <2> QED
    BY <2>1 DEF DataOK
<1>4. CASE tmp' = tmp /\ dst' = dst
  BY <1>4 DEF DataOK
<1> QED
  BY <1>1, <1>2, <1>3, <1>4 DEF Moves, ReadMoves, IconMoves, CheckMoves, StoreMoves, TakeMoves,
     SwapMoves, SaveMoves, image

LEMMA TypeInvStep ==
  ASSUME TypeInv, [Next]_vars
  PROVE  TypeInv'
<1>t. DataOK /\ FlagsOK /\ FlagTells /\ OneRescan /\ scan \in [Scanners -> Scans]
  BY TypeParts
<1> SUFFICES DataOK' /\ FlagsOK' /\ FlagTells' /\ OneRescan' /\ scan' \in [Scanners -> Scans]
  <2>1. {apps', snapshot', file'} \subseteq Listings <=>
          apps' \in Listings /\ snapshot' \in Listings /\ file' \in Listings
    OBVIOUS
  <2>2. {tmp', dst'} \subseteq Files <=> tmp' \in Files /\ dst' \in Files
    OBVIOUS
  <2>3. FlagTells' => scanning' \in BOOLEAN
    BY DEF FlagTells
  <2>4. FlagTells' => ({stale', scanning'} \subseteq BOOLEAN <=> stale' \in BOOLEAN)
    BY <2>3
  <2>5. {overlapped', unsaved', shared', late'} \subseteq BOOLEAN <=>
          /\ overlapped' \in BOOLEAN /\ unsaved' \in BOOLEAN
          /\ shared' \in BOOLEAN /\ late' \in BOOLEAN
    OBVIOUS
  <2> QED
    BY <2>1, <2>2, <2>4, <2>5, Zenon DEF TypeInv, TypeOK, DataOK, FlagsOK, FlagTells
<1> DEFINE Typed == DataOK' /\ FlagsOK' /\ FlagTells' /\ OneRescan' /\ scan' \in [Scanners -> Scans]
<1>0. disk \in Versions
  BY <1>t, Bounds DEF DataOK, Versions
<1>1. ASSUME NEW w \in Scanners, ScanStep(w) PROVE Typed
  <2>0. Moves(w) /\ scan[w].list \in Listings
    BY <1>t, <1>0, <1>1, ScanSteps, ScanFields DEF DataOK, FlagsOK
  <2>1. /\ scan' \in [Scanners -> Scans] /\ Others(w)
        /\ Scanning(w) /\ (Scanning(w)' <=> ~SaveMoves(w))
        /\ disk' = disk /\ overlapped' = overlapped /\ late' = late
        /\ restarts' = restarts /\ saw' = saw
        /\ (~SaveMoves(w) => scanning' = scanning /\ unsaved' = unsaved /\ file' = file)
    BY <2>0, MoveKeeps
  <2>2. apps' = apps \/ apps' = scan[w].list
    BY <2>0 DEF Moves, ReadMoves, IconMoves, CheckMoves, ConvertMoves, WriteMoves, RenameMoves,
       StoreMoves, TakeMoves, SwapMoves, SaveMoves
  <2>3. snapshot' = snapshot \/ snapshot' = scan[w].list
    BY <2>0 DEF Moves, ReadMoves, IconMoves, CheckMoves, ConvertMoves, WriteMoves, RenameMoves,
       StoreMoves, TakeMoves, SwapMoves, SaveMoves, provider
  <2>4. (file' = file \/ file' = scan[w].list)
    BY <2>1 DEF SaveMoves
  <2>5. stale' = stale \/ stale' = FALSE
    BY <2>0 DEF Moves, ReadMoves, IconMoves, CheckMoves, ConvertMoves, WriteMoves, RenameMoves,
       StoreMoves, TakeMoves, SwapMoves, SaveMoves, provider
  <2>6. shared' \in BOOLEAN
    <3>1. shared' = shared \/ ConvertMoves(w)
      BY <2>0 DEF Moves, ReadMoves, IconMoves, CheckMoves, WriteMoves, RenameMoves,
         StoreMoves, TakeMoves, SwapMoves, SaveMoves, history
    <3>2. ConvertMoves(w) => shared' \in BOOLEAN
      BY Zenon DEF ConvertMoves
    <3> QED
      BY <1>t, <3>1, <3>2 DEF FlagsOK
  <2>7. unsaved' \in BOOLEAN
    BY <1>t, <2>1 DEF SaveMoves, FlagsOK
  <2>8. DataOK'
    BY <1>t, <1>1, <2>0, <2>1, <2>2, <2>3, <2>4, FilesStep, FaultsStep DEF DataOK
  <2>9. FlagsOK'
    BY <1>t, <2>1, <2>5, <2>6, <2>7 DEF FlagsOK
  <2>10. OneRescan'
    <3>1. \A r \in Rescanners : Scanning(r)' => Scanning(r)
      BY <2>1, Bounds DEF Others, Scanning, At
    <3> QED
      BY <1>t, <3>1 DEF OneRescan
  <2>11. FlagTells'
    <3>1. CASE ~SaveMoves(w) \/ w = Warm
      <4>1. \A r \in Rescanners : (scan'[r].pc # "idle") <=> (scan[r].pc # "idle")
        BY <2>1, <3>1, Bounds DEF Others, Scanning, At
      <4>2. scanning' <=> scanning
        <5>1. CASE SaveMoves(w)
          BY <3>1, <5>1, Zenon DEF SaveMoves
        <5>2. CASE ~SaveMoves(w)
          BY <2>1, <5>2
        <5> QED
          BY <5>1, <5>2
      <4>3. scanning' \in BOOLEAN
        BY <1>t, <2>1 DEF SaveMoves, FlagTells
      <4> QED
        BY <1>t, <4>1, <4>2, <4>3, Zenon DEF FlagTells
    <3>2. CASE SaveMoves(w) /\ w # Warm
      <4>1. w \in Rescanners
        BY <3>2 DEF Scanners
      <4>2. \A r \in Rescanners : scan'[r].pc = "idle"
        BY <1>t, <2>1, <3>2, <4>1, Bounds DEF OneRescan, Others, Scanning, At
      <4>3. scanning' = FALSE
        BY <3>2 DEF SaveMoves
      <4> QED
        BY <4>2, <4>3 DEF FlagTells
    <3> QED
      BY <3>1, <3>2
  <2> QED
    BY <2>1, <2>8, <2>9, <2>10, <2>11
<1>q. ASSUME Quiet, saw' \subseteq Searchers, stale' \in BOOLEAN PROVE Typed
  <2>1. DataOK' /\ OneRescan' /\ scan' \in [Scanners -> Scans]
    BY <1>t, <1>q DEF Quiet, DataOK, OneRescan, Scanning, At, image, history
  <2>2. FlagsOK'
    BY <1>t, <1>q DEF Quiet, FlagsOK, history
  <2>3. FlagTells'
    BY <1>t, <1>q, Zenon DEF Quiet, FlagTells
  <2> QED
    BY <2>1, <2>2, <2>3
<1>2. ASSUME NEW s \in Searchers, SearchSees(s) \/ SearchScans(s) PROVE Typed
  <2>0. /\ saw' \subseteq Searchers /\ stale' \in BOOLEAN
        /\ Quiet \/ \E r \in Rescanners : BeginMoves(r)
    BY <1>2, SearchSteps
  <2>1. ASSUME NEW r \in Rescanners, BeginMoves(r) PROVE Typed
    <3>1. /\ scan' \in [Scanners -> Scans] /\ Others(r) /\ scan'[r].pc = "read"
          /\ scanning' = TRUE /\ r \in Scanners
      BY <2>1, Bounds DEF BeginMoves, Becomes
    <3>2. \A q \in Rescanners : q # r => scan'[q].pc = "idle"
      BY <1>t, <2>1, <3>1, Bounds DEF BeginMoves, FlagTells, Others
    <3>3. OneRescan' /\ FlagTells'
      BY <3>1, <3>2 DEF OneRescan, FlagTells, Scanning, At
    <3>4. overlapped' \in BOOLEAN
      BY <2>1, Zenon DEF BeginMoves
    <3>5. DataOK' /\ FlagsOK'
      BY <1>t, <2>0, <2>1, <3>4 DEF BeginMoves, DataOK, FlagsOK, image
    <3> QED
      BY <3>1, <3>3, <3>5
  <2> QED
    BY <1>q, <2>0, <2>1
<1>3. CASE TimePasses
  BY <1>t, <1>3, <1>q DEF TimePasses, Quiet, DataOK
<1>4. CASE Update
  <2>1. disk' \in 1..MaxVersion
    BY <1>t, <1>4, Bounds DEF Update, DataOK
  <2>2. late' \in BOOLEAN
    BY <1>4, Zenon DEF Update
  <2>3. DataOK' /\ FlagsOK'
    BY <1>t, <1>4, <2>1, <2>2 DEF Update, DataOK, FlagsOK, provider, image
  <2>4. OneRescan' /\ scan' \in [Scanners -> Scans]
    BY <1>t, <1>4 DEF Update, OneRescan, Scanning, At
  <2>5. FlagTells'
    BY <1>t, <1>4, Zenon DEF Update, FlagTells, provider
  <2> QED
    BY <2>3, <2>4, <2>5
<1>5. CASE Restart
  <2>1. scan' \in [Scanners -> Scans] /\ \A r \in Rescanners : scan'[r].pc = "idle"
    BY <1>5, StartType, Bounds DEF Restart
  <2>2. OneRescan' /\ FlagTells'
    BY <1>5, <2>1 DEF Restart, OneRescan, FlagTells, Scanning, At
  <2>3. DataOK'
    BY <1>t, <1>5, IdleType, Bounds DEF Restart, DataOK, image
  <2>4. FlagsOK'
    BY <1>t, <1>5, Zenon DEF Restart, FlagsOK
  <2> QED
    BY <2>1, <2>2, <2>3, <2>4
<1>6. CASE UNCHANGED vars
  <2>1. Quiet
    BY <1>6 DEF vars, Quiet, provider
  <2> QED
    BY <1>t, <1>6, <1>q, <2>1 DEF vars, provider, DataOK, FlagsOK
<1> QED
  BY <1>1, <1>2, <1>3, <1>4, <1>5, <1>6 DEF Next

LEMMA TypeInvInit == Init => TypeInv
<1> SUFFICES ASSUME Init PROVE DataOK /\ FlagsOK /\ FlagTells /\ OneRescan
                               /\ scan \in [Scanners -> Scans]
  BY TypeParts
<1>1. scan \in [Scanners -> Scans] /\ \A r \in Rescanners : scan[r].pc = "idle"
  BY StartType, Bounds DEF Init
<1>2. OneRescan /\ FlagTells
  BY <1>1 DEF Init, OneRescan, FlagTells, Scanning, At
<1>3. Absent \in Files /\ Absent.time = 0 /\ Absent.img = 0
  BY Bounds DEF Absent, Files
<1>4. DataOK
  BY <1>3, IdleType, Bounds DEF Init, DataOK
<1>5. FlagsOK
  BY Zenon DEF Init, FlagsOK
<1> QED
  BY <1>1, <1>2, <1>4, <1>5

\* Every reachable state of the application index is well typed: the flag is set
\* exactly while a goroutine of maybeRescan scans, so that there is at most one.
THEOREM TypeCorrect == Spec => []TypeOK
<1>1. TypeInv => TypeOK
  BY DEF TypeInv
<1>2. ASSUME TypeInv, [Next]_vars PROVE TypeInv'
  BY <1>2, TypeInvStep
<1> HIDE DEF TypeInv
<1> QED
  BY <1>1, <1>2, TypeInvInit, PTL DEF Spec

----------------------------------------------------------------------------
(* NeverGoesBack and SavedIsSearched. Unless Warmup's scan overlaps the    *)
(* first search's, a scan runs alone, and what it lists was read from the  *)
(* disk after the index was last swapped.                                  *)

\* Nothing is of a later version than the one installed.
Behind ==
  /\ apps.ver <= disk /\ snapshot.ver <= disk /\ file.ver <= disk
  /\ \A w \in Scanners : scan[w].list.ver <= disk

Alone == ~overlapped => \A v, w \in Scanners : Scanning(v) /\ Scanning(w) => v = w

\* What the scan has read, or will find in AppSource, may be swapped in; what it is
\* about to save is what is searched.
Newer(l) == l = Empty \/ l.ver >= snapshot.ver
Follows(w) ==
  /\ scan[w].pc \in {"check", "convert", "write", "rename"} =>
       scan[w].list.ver >= snapshot.ver
  /\ scan[w].pc \in {"store", "swap"} => Newer(scan[w].list)
  /\ At(w, "list") => Newer(apps)
  /\ At(w, "save") => scan[w].list = snapshot
AllFollow == ~overlapped => \A w \in Scanners : Follows(w)

OrderInv == Behind /\ Alone /\ AllFollow /\ SavedIsSearched

\* The kinds of steps.
LEMMA StepKinds ==
  ASSUME TypeInv, [Next]_vars
  PROVE  \/ \E w \in Scanners : Moves(w)
         \/ \E r \in Rescanners : BeginMoves(r)
         \/ Quiet \/ Update \/ Restart
<1>t. DataOK /\ FlagsOK /\ scan \in [Scanners -> Scans] /\ disk \in Versions
  BY TypeParts, Bounds DEF DataOK, Versions
<1>1. ASSUME NEW w \in Scanners, ScanStep(w) PROVE Moves(w)
  BY <1>t, <1>1, ScanSteps DEF DataOK, FlagsOK
<1>2. ASSUME NEW s \in Searchers, SearchSees(s) \/ SearchScans(s)
      PROVE  Quiet \/ \E r \in Rescanners : BeginMoves(r)
  BY <1>2, SearchSteps
<1>3. CASE TimePasses
  BY <1>3 DEF TimePasses, Quiet
<1>4. CASE UNCHANGED vars
  BY <1>4 DEF vars, Quiet, provider
<1> QED
  BY <1>1, <1>2, <1>3, <1>4 DEF Next

LEMMA BehindStep ==
  ASSUME TypeInv, Behind, [Next]_vars
  PROVE  Behind'
<1>t. DataOK /\ scan \in [Scanners -> Scans] /\ disk \in Nat
  BY TypeParts, Bounds DEF DataOK
<1>1. ASSUME NEW w \in Scanners, Moves(w) PROVE Behind'
  <2>1. Others(w) /\ disk' = disk
    BY <1>1, MoveKeeps
  <2>2. scan'[w].list.ver <= disk
    <3>1. scan[w].list.ver <= disk /\ apps.ver <= disk
      BY DEF Behind
    <3>2. CASE ReadMoves(w)
      BY <1>t, <3>2, IdleType DEF ReadMoves, Becomes
    <3>3. CASE IconMoves(w)
      BY <3>1, <3>3 DEF IconMoves, Becomes
    <3>4. CASE RenameMoves(w)
      BY <3>1, <3>4 DEF RenameMoves, Becomes
    <3>5. CASE SaveMoves(w)
      BY <1>t, <3>5, IdleType DEF SaveMoves, Becomes
    <3> QED
      BY <1>1, <3>1, <3>2, <3>3, <3>4, <3>5
         DEF Moves, CheckMoves, ConvertMoves, WriteMoves, StoreMoves, TakeMoves, SwapMoves,
             Becomes
  <2>3. apps'.ver <= disk
    BY <1>1 DEF Behind, Moves, ReadMoves, IconMoves, CheckMoves, ConvertMoves, WriteMoves,
       RenameMoves, StoreMoves, TakeMoves, SwapMoves, SaveMoves
  <2>4. snapshot'.ver <= disk /\ file'.ver <= disk
    BY <1>1 DEF Behind, Moves, ReadMoves, IconMoves, CheckMoves, ConvertMoves, WriteMoves,
       RenameMoves, StoreMoves, TakeMoves, SwapMoves, SaveMoves, provider
  <2> QED
    BY <2>1, <2>2, <2>3, <2>4 DEF Behind, Others
<1>2. ASSUME NEW r \in Rescanners, BeginMoves(r) PROVE Behind'
  BY <1>2 DEF BeginMoves, Becomes, Others, Behind
<1>3. CASE Quiet
  BY <1>3 DEF Quiet, Behind
<1>4. CASE Update
  <2>1. \A l \in Listings : l.ver \in Nat
    BY Bounds DEF Listings
  <2>2. \A w \in Scanners : scan[w].list.ver \in Nat
    BY <1>t, ScanFields
  <2> QED
    BY <1>t, <1>4, <2>1, <2>2 DEF Update, Behind, DataOK, provider
<1>5. CASE Restart
  <2>1. \A w \in Scanners : scan'[w].list.ver = 0
    BY <1>5, StartType, IdleType DEF Restart
  <2> QED
    BY <1>t, <1>5, <2>1, IdleType DEF Restart, Behind
<1> QED
  BY <1>1, <1>2, <1>3, <1>4, <1>5, StepKinds

LEMMA OrderInvStep ==
  ASSUME TypeInv, OrderInv, [Next]_vars
  PROVE  OrderInv'
<1>t. DataOK /\ FlagTells /\ scan \in [Scanners -> Scans] /\ disk \in Nat
  BY TypeParts, Bounds DEF DataOK
<1>b. Behind'
  BY BehindStep DEF OrderInv
<1>1. ASSUME NEW w \in Scanners, Moves(w) PROVE OrderInv'
  <2>1. /\ Others(w) /\ Scanning(w) /\ (Scanning(w)' <=> ~SaveMoves(w))
        /\ disk' = disk /\ overlapped' = overlapped
    BY <1>1, MoveKeeps
  <2>2. Alone'
    <3>1. \A v \in Scanners : Scanning(v)' => Scanning(v)
      BY <2>1 DEF Others, Scanning, At
    <3> QED
      BY <2>1, <3>1 DEF OrderInv, Alone
  <2> SUFFICES ASSUME ~overlapped PROVE OrderInv'
    BY <1>b, <2>1, <2>2 DEF OrderInv, AllFollow, SavedIsSearched
  <2>3. \A v \in Scanners : v # w => scan'[v].pc = "idle"
    BY <2>1 DEF OrderInv, Alone, Others, Scanning, At
  <2>4. Follows(w)'
    <3>0. Follows(w) /\ Behind
      BY DEF OrderInv, AllFollow
    <3>1. CASE ReadMoves(w)
      BY <3>0, <3>1 DEF ReadMoves, Becomes, Follows, Behind, Newer, At, provider
    <3>2. CASE IconMoves(w)
      <4>1. /\ scan[w].list.ver >= snapshot.ver /\ snapshot' = snapshot
            /\ scan'[w].pc = "store" /\ scan'[w].list.ver = scan[w].list.ver
        BY <3>0, <3>2 DEF IconMoves, Becomes, Follows, provider
      <4> QED
        BY <4>1 DEF Follows, Newer, At
    <3>3. CASE CheckMoves(w) \/ ConvertMoves(w) \/ WriteMoves(w)
      BY <3>0, <3>3 DEF CheckMoves, ConvertMoves, WriteMoves, Becomes, Follows, Newer, At, provider
    <3>4. CASE RenameMoves(w)
      BY <3>0, <3>4, IdleType DEF RenameMoves, Becomes, Follows, Newer, At, provider
    <3>5. CASE StoreMoves(w)
      BY <3>0, <3>5 DEF StoreMoves, Becomes, Follows, Newer, At, provider
    <3>6. CASE TakeMoves(w)
      BY <3>0, <3>6 DEF TakeMoves, Becomes, Follows, Newer, At, provider
    <3>7. CASE SwapMoves(w)
      BY <3>7 DEF SwapMoves, Becomes, Follows, At
    <3>8. CASE SaveMoves(w)
      BY <3>8 DEF SaveMoves, Becomes, Follows, At
    <3> QED
      BY <1>1, <3>1, <3>2, <3>3, <3>4, <3>5, <3>6, <3>7, <3>8 DEF Moves
  <2>5. AllFollow'
    BY <2>3, <2>4 DEF AllFollow, Follows, At
  <2>6. SavedIsSearched'
    <3>1. CASE SaveMoves(w)
      BY <2>1, <3>1 DEF SaveMoves, OrderInv, AllFollow, Follows, SavedIsSearched, At
    <3>2. CASE ~SaveMoves(w)
      BY <2>1, <3>2 DEF SavedIsSearched, Scanning
    <3> QED
      BY <3>1, <3>2
  <2> QED
    BY <1>b, <2>2, <2>5, <2>6 DEF OrderInv
<1>2. ASSUME NEW r \in Rescanners, BeginMoves(r) PROVE OrderInv'
  <2>1. /\ r \in Scanners /\ Others(r) /\ scan'[r].pc = "read"
        /\ \A q \in Rescanners : ~Scanning(q)
    BY <1>t, <1>2, Bounds DEF BeginMoves, Becomes, FlagTells, Scanning, At
  <2>2. ~overlapped' => \A v \in Scanners : ~Scanning(v)
    <3>1. (\E v \in Scanners : Scanning(v)) => Scanning(Warm)
      BY <2>1 DEF Scanners
    <3>2. overlapped' = (IF \E v \in Scanners : Scanning(v) THEN overlapped \/ Scanning(Warm)
                                                          ELSE FALSE)
      BY <1>2 DEF BeginMoves
    <3> QED
      BY <3>1, <3>2
  <2>3. ~overlapped' => \A v \in Scanners : v # r => scan'[v].pc = "idle"
    BY <2>1, <2>2 DEF Others, Scanning, At
  <2>4. Alone' /\ AllFollow'
    BY <2>1, <2>3 DEF Alone, AllFollow, Follows, Scanning, At
  <2>5. SavedIsSearched'
    BY <2>1 DEF SavedIsSearched, At
  <2> QED
    BY <1>b, <2>4, <2>5 DEF OrderInv
<1>3. CASE Quiet
  BY <1>b, <1>3
     DEF Quiet, OrderInv, Alone, AllFollow, Follows, Newer, SavedIsSearched, Scanning, At, history
<1>4. CASE Update
  BY <1>b, <1>4
     DEF Update, OrderInv, Alone, AllFollow, Follows, Newer, SavedIsSearched, Scanning, At, provider
<1>5. CASE Restart
  <2>1. \A w \in Scanners : scan'[w].pc = IF w = Warm THEN "read" ELSE "idle"
    BY <1>5, StartType DEF Restart
  <2>2. Alone' /\ AllFollow' /\ SavedIsSearched'
    BY <2>1, Bounds DEF Alone, AllFollow, Follows, SavedIsSearched, Scanning, At
  <2> QED
    BY <1>b, <2>2 DEF OrderInv
<1> QED
  BY <1>1, <1>2, <1>3, <1>4, <1>5, StepKinds

LEMMA OrderInvInit == Init => OrderInv
<1> SUFFICES ASSUME Init PROVE OrderInv
  OBVIOUS
<1>1. \A w \in Scanners : scan[w].pc = (IF w = Warm THEN "read" ELSE "idle") /\ scan[w].list = Empty
  BY StartType DEF Init
<1>2. Behind
  BY <1>1, IdleType DEF Init, Behind
<1>3. Alone /\ AllFollow /\ SavedIsSearched
  BY <1>1, Bounds DEF Alone, AllFollow, Follows, SavedIsSearched, Scanning, At
<1> QED
  BY <1>2, <1>3 DEF OrderInv

LEMMA OrderHolds == Spec => [](TypeInv /\ OrderInv)
<1> DEFINE Inv == TypeInv /\ OrderInv
<1>1. Init => Inv
  BY TypeInvInit, OrderInvInit
<1>2. ASSUME Inv, [Next]_vars PROVE Inv'
  BY <1>2, TypeInvStep, OrderInvStep
<1>3. Spec => []Inv
  <2> HIDE DEF Inv
  <2> QED
    BY <1>1, <1>2, PTL DEF Spec
<1> QED
  BY <1>3

\* For any number of scans, failures and restarts: between scans the saved index is the
\* one searched, unless the save failed or Warmup overlapped the first search's scan
\* (apps.go, rescan and its hook).
THEOREM SavedStaysSearched == Spec => []SavedIsSearched
<1>1. TypeInv /\ OrderInv => SavedIsSearched
  BY DEF OrderInv
<1> QED
  BY <1>1, OrderHolds, PTL

\* However often applications are updated: a scan never replaces the index by an older
\* one, except in the overlap of Warmup with the first search's scan; an unreadable disk
\* empties it.
THEOREM IndexNeverGoesBack == Spec => NeverGoesBack
<1> DEFINE Forward == \/ snapshot'.ver >= snapshot.ver \/ snapshot' = Empty
                      \/ overlapped \/ restarts' # restarts
<1>1. ASSUME TypeInv /\ OrderInv, [Next]_vars PROVE Forward \/ UNCHANGED vars
  <2>t. snapshot.ver \in Nat /\ restarts \in Nat
    <3>1. snapshot \in Listings /\ restarts \in 0..MaxRestarts
      BY <1>1, TypeParts DEF DataOK
    <3>2. restarts \in Nat
      BY <3>1, Bounds
    <3> QED
      BY <3>1, <3>2, NumbersType
  <2>1. CASE snapshot' = snapshot
    BY <2>t, <2>1
  <2>2. ASSUME NEW w \in Scanners, SwapMoves(w) PROVE Forward
    BY <1>1, <2>2 DEF SwapMoves, OrderInv, AllFollow, Follows, Newer, At
  <2>3. ASSUME NEW w \in Scanners, Moves(w) PROVE snapshot' = snapshot \/ SwapMoves(w)
    BY <2>3 DEF Moves, ReadMoves, IconMoves, CheckMoves, ConvertMoves, WriteMoves,
       RenameMoves, StoreMoves, TakeMoves, SaveMoves, provider
  <2>4. CASE Restart
    BY <2>t, <2>4 DEF Restart
  <2> QED
    BY <1>1, <2>1, <2>2, <2>3, <2>4, StepKinds DEF BeginMoves, Quiet, Update, provider
<1>2. (TypeInv /\ OrderInv) /\ [Next]_vars => [Forward]_vars
  BY <1>1
<1>3. Spec => [][Forward]_vars
  <2> HIDE DEF Forward
  <2> QED
    BY <1>2, OrderHolds, PTL DEF Spec
<1> QED
  BY <1>3 DEF NeverGoesBack

----------------------------------------------------------------------------
(* CachedIconServes. As long as two scans have not written the icon at     *)
(* once, and no application has changed during its conversion, the file    *)
(* that is renamed into place holds the icon of the version installed.     *)

ServedBy(img, l) == l.icon = "cache" => img >= l.ver
Writing(w) == scan[w].pc \in {"write", "rename"}

\* How far a scan is with the icon of what it has read.
Image(w) ==
  /\ scan[w].pc \in {"check", "convert", "write", "rename"} => scan[w].list.icon = "none"
  /\ At(w, "write") => /\ scan[w].fd = "tmp" /\ scan[w].img = disk
                       /\ tmp.img = 0 /\ tmp.time = disk
  /\ At(w, "rename") => tmp.img = disk /\ tmp.time = disk

Whole(f) == f.img = f.time /\ f.img <= disk
OneWriter == \A v, w \in Scanners : Writing(v) /\ Writing(w) => v = w
AllServed ==
  /\ ServedBy(dst.img, apps) /\ ServedBy(dst.img, snapshot) /\ ServedBy(dst.img, file)
  /\ \A w \in Scanners : ServedBy(dst.img, scan[w].list)

IconInv ==
  ~shared /\ ~late =>
    OneWriter /\ AllServed /\ Whole(dst) /\ \A w \in Scanners : Image(w)

\* The numbers that are compared.
LEMMA IconTypes ==
  ASSUME TypeInv
  PROVE  /\ disk \in Nat /\ dst.img \in Nat /\ dst.time \in Nat
         /\ apps.ver \in Nat /\ snapshot.ver \in Nat /\ file.ver \in Nat
         /\ scan \in [Scanners -> Scans] /\ \A w \in Scanners : scan[w].list.ver \in Nat
<1>1. DataOK /\ scan \in [Scanners -> Scans]
  BY TypeParts
<1>2. disk \in Nat
  BY <1>1, Bounds DEF DataOK
<1>3. dst.img \in Nat /\ dst.time \in Nat
  BY <1>1, NumbersType DEF DataOK
<1>4. apps.ver \in Nat /\ snapshot.ver \in Nat /\ file.ver \in Nat
  BY <1>1, NumbersType DEF DataOK
<1>5. \A w \in Scanners : scan[w].list.ver \in Nat
  BY <1>1, ScanFields
<1> QED
  BY <1>1, <1>2, <1>3, <1>4, <1>5

\* The steps of a scan that change the files of the icon.
LEMMA ImageMoves ==
  ASSUME NEW w \in Scanners, Moves(w)
  PROVE  /\ (tmp' = tmp /\ dst' = dst) \/ ConvertMoves(w) \/ WriteMoves(w) \/ RenameMoves(w)
         /\ ConvertMoves(w) \/ shared' = shared
         /\ RenameMoves(w) \/ Opened(w)
         /\ apps' = apps \/ apps' = scan[w].list
         /\ snapshot' = snapshot \/ snapshot' = scan[w].list
         /\ file' = file \/ file' = scan[w].list
<1>1. \/ RenameMoves(w)
      \/ /\ Opened(w)
         /\ \/ ReadMoves(w) \/ IconMoves(w) \/ CheckMoves(w) \/ ConvertMoves(w)
            \/ WriteMoves(w) \/ StoreMoves(w) \/ TakeMoves(w) \/ SwapMoves(w) \/ SaveMoves(w)
  BY DEF Moves
<1> QED
  BY <1>1 DEF ReadMoves, CheckMoves, WriteMoves, StoreMoves, TakeMoves, SwapMoves,
     SaveMoves, RenameMoves, IconMoves, ConvertMoves, provider, image, history

LEMMA IconMovesStep ==
  ASSUME TypeInv, Behind, IconInv, NEW w \in Scanners, Moves(w)
  PROVE  IconInv'
<1> SUFFICES ASSUME ~shared', ~late' PROVE IconInv'
  BY DEF IconInv
<1>t. /\ disk \in Nat /\ dst.img \in Nat /\ dst.time \in Nat
      /\ apps.ver \in Nat /\ snapshot.ver \in Nat /\ file.ver \in Nat
      /\ \A v \in Scanners : scan[v].list.ver \in Nat /\ scan[v].list.ver <= disk
  BY IconTypes DEF Behind
<1>0. Others(w) /\ disk' = disk /\ late' = late
  BY MoveKeeps
<1>1. ~shared /\ ~late
  BY <1>0, ImageMoves DEF ConvertMoves
<1>2. /\ OneWriter /\ AllServed /\ Whole(dst) /\ \A v \in Scanners : Image(v)
  BY <1>1 DEF IconInv
<1>3. WriteMoves(w) => dst' = dst /\ tmp' = [img |-> disk, time |-> disk]
  <2>1. ASSUME WriteMoves(w) PROVE dst' = dst /\ tmp' = [img |-> disk, time |-> disk]
    <3>1. scan[w].fd = "tmp" /\ scan[w].img = disk /\ tmp.img = 0
      BY <1>2, <2>1 DEF WriteMoves, Image
    <3>2. Written(tmp, scan[w].img) = {[img |-> i, time |-> disk] : i \in {disk}}
      BY <3>1 DEF Written
    <3> QED
      BY <2>1, <3>1, <3>2 DEF WriteMoves
  <2> QED
    BY <2>1
<1>4. dst'.img \in Nat /\ dst'.img >= dst.img /\ Whole(dst)'
  <2>1. CASE RenameMoves(w)
    <3>1. dst'.img = disk /\ dst'.time = disk
      BY <1>2, <2>1 DEF RenameMoves, Image
    <3> QED
      BY <1>t, <1>0, <1>2, <3>1 DEF Whole
  <2>2. CASE dst' = dst
    BY <1>t, <1>0, <1>2, <2>2 DEF Whole
  <2> QED
    BY <1>3, <2>1, <2>2, ImageMoves DEF ConvertMoves
<1>5. \A l : l.ver \in Nat /\ ServedBy(dst.img, l) => ServedBy(dst'.img, l)
  BY <1>t, <1>4 DEF ServedBy
<1>6. ServedBy(dst'.img, scan'[w].list)
  <2>1. CASE ReadMoves(w)
    BY <2>1, IdleType DEF ReadMoves, Becomes, ServedBy
  <2>2. CASE IconMoves(w)
    <3>1. PICK icon \in Icons :
            /\ scan'[w].list = [ver |-> scan[w].list.ver, icon |-> icon]
            /\ icon = "cache" => Fresh
      BY <2>2 DEF IconMoves, Becomes
    <3>2. Fresh => dst.img >= scan[w].list.ver
      BY <1>t, <1>2 DEF Fresh, Whole
    <3> QED
      BY <1>t, <1>4, <3>1, <3>2 DEF ServedBy
  <2>3. CASE RenameMoves(w)
    <3>1. dst'.img = disk /\ scan'[w].list.ver = scan[w].list.ver
      BY <1>2, <2>3 DEF RenameMoves, Image, Becomes
    <3> QED
      BY <1>t, <3>1 DEF ServedBy
  <2>4. CASE SaveMoves(w)
    BY <2>4, IdleType DEF SaveMoves, Becomes, ServedBy
  <2>5. CASE scan'[w].list = scan[w].list \/ scan'[w].list = apps
    BY <1>t, <1>2, <1>5, <2>5 DEF AllServed
  <2> QED
    BY <2>1, <2>2, <2>3, <2>4, <2>5
       DEF Moves, CheckMoves, ConvertMoves, WriteMoves, StoreMoves, TakeMoves, SwapMoves,
           Becomes
<1>7. AllServed'
  <2>1. \A v \in Scanners : ServedBy(dst'.img, scan'[v].list)
    BY <1>t, <1>0, <1>2, <1>5, <1>6 DEF AllServed, Others
  <2>2. ServedBy(dst'.img, apps') /\ ServedBy(dst'.img, snapshot') /\ ServedBy(dst'.img, file')
    BY <1>t, <1>2, <1>5, ImageMoves DEF AllServed
  <2> QED
    BY <2>1, <2>2 DEF AllServed
<1>8. ConvertMoves(w) => \A v \in Scanners : v # w => ~Writing(v)
  BY <1>1 DEF ConvertMoves, Writing
<1>9. Writing(w)' => ConvertMoves(w) \/ WriteMoves(w)
  BY DEF Moves, ReadMoves, IconMoves, CheckMoves, RenameMoves, StoreMoves, TakeMoves, SwapMoves,
     SaveMoves, Becomes, Writing
<1>10. \A v \in Scanners : v # w => (Writing(v)' <=> Writing(v))
  BY <1>0 DEF Others, Writing
<1>11. WriteMoves(w) \/ RenameMoves(w) => Writing(w)
  BY DEF WriteMoves, RenameMoves, Writing, At
<1>12. OneWriter'
  BY <1>2, <1>8, <1>9, <1>10, <1>11 DEF OneWriter
<1>13. ASSUME NEW v \in Scanners, v # w PROVE Image(v)'
  <2>1. CASE Writing(v)
    <3>1. tmp' = tmp /\ Opened(w)
      BY <1>2, <1>8, <1>11, <1>13, <2>1, ImageMoves DEF OneWriter
    <3> QED
      BY <1>0, <1>2, <1>13, <3>1 DEF Image, Others, Opened, At
  <2>2. CASE ~Writing(v)
    BY <1>0, <1>2, <1>13, <2>2 DEF Image, Others, Writing, At
  <2> QED
    BY <2>1, <2>2
<1>14. Image(w)'
  <2>1. CASE ReadMoves(w)
    BY <2>1 DEF ReadMoves, Becomes, Image, At
  <2>2. CASE CheckMoves(w)
    BY <1>2, <2>2 DEF CheckMoves, Becomes, Image, At
  <2>3. CASE ConvertMoves(w)
    BY <1>0, <1>2, <2>3 DEF ConvertMoves, Becomes, Image, At
  <2>4. CASE WriteMoves(w)
    BY <1>0, <1>2, <1>3, <2>4 DEF WriteMoves, Becomes, Image, At
  <2>5. CASE scan'[w].pc \in {"store", "list", "swap", "save", "idle"}
    BY <2>5 DEF Image, At
  <2> QED
    BY <2>1, <2>2, <2>3, <2>4, <2>5
       DEF Moves, IconMoves, RenameMoves, StoreMoves, TakeMoves, SwapMoves, SaveMoves, Becomes
<1> QED
  BY <1>4, <1>7, <1>12, <1>13, <1>14 DEF IconInv

LEMMA IconInvStep ==
  ASSUME TypeInv, Behind, IconInv, [Next]_vars
  PROVE  IconInv'
<1>t. disk \in Nat /\ dst.img \in Nat /\ scan \in [Scanners -> Scans]
  BY IconTypes
<1>1. ASSUME NEW w \in Scanners, Moves(w) PROVE IconInv'
  BY <1>1, IconMovesStep
<1>2. ASSUME NEW r \in Rescanners, BeginMoves(r) PROVE IconInv'
  <2> SUFFICES ASSUME ~shared, ~late PROVE IconInv'
    BY <1>2 DEF BeginMoves, IconInv
  <2>0. OneWriter /\ AllServed /\ Whole(dst) /\ \A v \in Scanners : Image(v)
    BY DEF IconInv
  <2>1. /\ r \in Scanners /\ Others(r) /\ Opened(r) /\ scan'[r].pc = "read"
        /\ scan'[r].list = scan[r].list
        /\ UNCHANGED <<disk, apps, snapshot, file, tmp, dst>>
    BY <1>2, Bounds DEF BeginMoves, Becomes, image
  <2>2. OneWriter'
    BY <2>0, <2>1 DEF OneWriter, Writing, Others
  <2>3. AllServed' /\ Whole(dst)'
    BY <2>0, <2>1 DEF AllServed, Whole, Others
  <2>4. \A v \in Scanners : Image(v)'
    BY <2>0, <2>1 DEF Image, Others, Opened, At
  <2> QED
    BY <2>2, <2>3, <2>4 DEF IconInv
<1>3. CASE Quiet
  BY <1>3 DEF Quiet, IconInv, OneWriter, AllServed, Whole, Image, Writing, At, image, history
<1>4. CASE Update
  <2> SUFFICES ASSUME ~shared', ~late' PROVE IconInv'
    BY DEF IconInv
  <2>1. ~shared /\ ~late /\ \A w \in Scanners : ~Converting(w)
    BY <1>4 DEF Update
  <2>2. /\ disk' = disk + 1
        /\ UNCHANGED <<apps, snapshot, file, scan, tmp, dst>>
    BY <1>4 DEF Update, provider, image
  <2>3. \A w \in Scanners : ~At(w, "write") /\ ~At(w, "rename")
    BY <2>1 DEF Converting, At
  <2> QED
    BY <1>t, <2>1, <2>2, <2>3 DEF IconInv, OneWriter, AllServed, Whole, Image, Writing, At
<1>5. CASE Restart
  <2>1. \A w \in Scanners : /\ scan'[w].pc = (IF w = Warm THEN "read" ELSE "idle")
                            /\ scan'[w].list = Empty
    BY <1>5, StartType DEF Restart
  <2>2. /\ UNCHANGED <<disk, file, tmp, dst, shared, late>>
        /\ apps' = Empty /\ snapshot' = file
    BY <1>5 DEF Restart, image
  <2> QED
    BY <2>1, <2>2, IdleType
       DEF IconInv, OneWriter, AllServed, ServedBy, Whole, Image, Writing, At
<1> QED
  BY <1>1, <1>2, <1>3, <1>4, <1>5, StepKinds

LEMMA IconInvInit == Init => IconInv
<1> SUFFICES ASSUME Init PROVE IconInv
  OBVIOUS
<1>1. \A w \in Scanners : scan[w].pc = (IF w = Warm THEN "read" ELSE "idle") /\ scan[w].list = Empty
  BY StartType DEF Init
<1>2. disk = 1 /\ dst.img = 0 /\ dst.time = 0
  BY DEF Init, Absent
<1>3. apps = Empty /\ snapshot = Empty /\ file = Empty
  BY DEF Init
<1> QED
  BY <1>1, <1>2, <1>3, IdleType
     DEF IconInv, OneWriter, AllServed, ServedBy, Whole, Image, Writing, At

\* After any crash and any failure: a row whose icon is the cached one finds a whole
\* image there, of its own version or a later one, unless two scans wrote the image at
\* once or the application changed during the conversion (cachedOrConvertedIcon and
\* writePNGAtomic in apps.go).
THEOREM CachedIconAlwaysServes == Spec => []CachedIconServes
<1> DEFINE Inv == TypeInv /\ OrderInv /\ IconInv
<1>1. Init => Inv
  BY TypeInvInit, OrderInvInit, IconInvInit
<1>2. ASSUME Inv, [Next]_vars PROVE Inv'
  BY <1>2, TypeInvStep, OrderInvStep, IconInvStep DEF OrderInv
<1>3. Inv => CachedIconServes
  BY DEF IconInv, AllServed, ServedBy, CachedIconServes
<1> HIDE DEF Inv
<1> QED
  BY <1>1, <1>2, <1>3, PTL DEF Spec

=============================================================================
