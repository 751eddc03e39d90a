----------------------- MODULE FolderController_proofs -----------------------
(***************************************************************************)
(* Proofs about FolderController, for any sources, folder trees, workers   *)
(* and number of restarts.                                                 *)
(***************************************************************************)
EXTENDS FolderController, TLAPS

Pcs == {"idle", "put", "get", "mark", "scan", "save", "cache", "uncache",
        "restore", "read", "swap", "unmark"}
Ops == {"none", "add", "remove", "enable", "disable", "refresh"}
Work == [pc : Pcs, op : Ops, src : Sources \cup {Nothing},
         found : Versions \cup {Nothing}, kept : Entries]

----------------------------------------------------------------------------
(* What a step leaves of its worker.                                       *)

Others(w) == \A v \in Workers : v # w => worker'[v] = worker[v]

\* The operation goes on, on its source, to its next step.
Moves(w, pc) ==
  /\ worker' \in [Workers -> Work] /\ Others(w)
  /\ worker'[w].pc = pc /\ worker'[w].op = worker[w].op /\ worker'[w].src = worker[w].src

Clears(w) == \A t \in Sources : worker'[w].kept[t] = Nothing

Stops(w) == worker' \in [Workers -> Work] /\ Others(w) /\ worker'[w] = Idle

\* An operation begins with nothing in its hands.
Opens(w, op, s, pc) ==
  /\ worker' \in [Workers -> Work] /\ Others(w)
  /\ worker'[w].pc = pc /\ worker'[w].op = op /\ worker'[w].src = s
  /\ worker'[w].found = Nothing /\ \A t \in Sources : worker'[w].kept[t] = Nothing

LEMMA IdleType ==
  /\ Idle \in Work /\ Idle.pc = "idle" /\ Idle.op = "none" /\ Idle.src = Nothing
  /\ Idle.found = Nothing /\ \A s \in Sources : Idle.kept[s] = Nothing
BY DEF Idle, Work, Pcs, Ops, Entries

LEMMA DoneStep ==
  ASSUME worker \in [Workers -> Work], NEW w \in Workers, Done(w)
  PROVE  Stops(w)
BY IdleType DEF Done, Stops, Others

LEMMA OperationStep ==
  ASSUME worker \in [Workers -> Work], NEW w \in Workers, NEW op \in Ops, NEW s \in Sources,
         NEW pc \in Pcs, worker' = [worker EXCEPT ![w] = Operation(op, s, pc)]
  PROVE  Opens(w, op, s, pc)
<1> DEFINE c == Operation(op, s, pc)
<1>1. /\ c \in Work /\ c.pc = pc /\ c.op = op /\ c.src = s
      /\ c.found = Nothing /\ \A t \in Sources : c.kept[t] = Nothing
  BY IdleType DEF Operation, Idle, Work
<1>2. worker' = [worker EXCEPT ![w] = c]
  OBVIOUS
<1> HIDE DEF c
<1> QED
  BY <1>1, <1>2 DEF Opens, Others

\* An operation that turns keeps its source, and nothing else it held.
LEMMA TurnStep ==
  ASSUME worker \in [Workers -> Work], NEW w \in Workers, NEW op \in Ops, NEW pc \in Pcs,
         Src(w) \in Sources, Turn(w, op, pc)
  PROVE  Opens(w, op, Src(w), pc)
BY OperationStep DEF Turn

LEMMA GotoStep ==
  ASSUME worker \in [Workers -> Work], NEW w \in Workers, NEW pc \in Pcs, Goto(w, pc)
  PROVE  /\ Moves(w, pc)
         /\ worker'[w].found = worker[w].found /\ worker'[w].kept = worker[w].kept
<1> DEFINE c == [worker[w] EXCEPT !.pc = pc]
<1>1. worker[w] \in Work
  OBVIOUS
<1>2. /\ c \in Work /\ c.pc = pc /\ c.op = worker[w].op /\ c.src = worker[w].src
      /\ c.found = worker[w].found /\ c.kept = worker[w].kept
  BY <1>1 DEF Work
<1>3. worker' = [worker EXCEPT ![w] = c]
  BY DEF Goto
<1> HIDE DEF c
<1> QED
  BY <1>2, <1>3 DEF Moves, Others

LEMMA FoundStep ==
  ASSUME worker \in [Workers -> Work], NEW w \in Workers, NEW pc \in Pcs,
         NEW v \in Versions \cup {Nothing},
         worker' = [worker EXCEPT ![w].pc = pc, ![w].found = v]
  PROVE  /\ Moves(w, pc)
         /\ worker'[w].found = v /\ worker'[w].kept = worker[w].kept
<1> DEFINE c == [worker[w] EXCEPT !.pc = pc, !.found = v]
<1>1. worker[w] \in Work
  OBVIOUS
<1>2. /\ c \in Work /\ c.pc = pc /\ c.op = worker[w].op /\ c.src = worker[w].src
      /\ c.found = v /\ c.kept = worker[w].kept
  BY <1>1 DEF Work
<1>3. worker' = [worker EXCEPT ![w] = c]
  BY <1>1 DEF Work
<1> HIDE DEF c
<1> QED
  BY <1>2, <1>3 DEF Moves, Others

LEMMA KeptStep ==
  ASSUME worker \in [Workers -> Work], NEW w \in Workers, NEW k \in Entries,
         worker' = [worker EXCEPT ![w].pc = "swap", ![w].kept = k]
  PROVE  /\ Moves(w, "swap")
         /\ worker'[w].found = worker[w].found /\ worker'[w].kept = k
<1> DEFINE c == [worker[w] EXCEPT !.pc = "swap", !.kept = k]
<1>1. worker[w] \in Work /\ "swap" \in Pcs
  BY DEF Pcs
<1>2. /\ c \in Work /\ c.pc = "swap" /\ c.op = worker[w].op /\ c.src = worker[w].src
      /\ c.found = worker[w].found /\ c.kept = k
  BY <1>1 DEF Work
<1>3. worker' = [worker EXCEPT ![w] = c]
  BY <1>1 DEF Work
<1> HIDE DEF c
<1> QED
  BY <1>2, <1>3 DEF Moves, Others

----------------------------------------------------------------------------
(* Types.                                                                  *)

Busy(w) == worker[w].pc # "idle"

\* An operation is on a source that has been drawn; a copy of the index has
\* entries of such sources only.
Shaped(w) ==
  /\ Busy(w) => Src(w) \in used
  /\ ~Busy(w) => worker[w] = Idle
  /\ \A s \in Sources \ used : worker[w].kept[s] = Nothing
  /\ worker[w].op = "refresh" => worker[w].pc \in {"get", "mark", "scan", "cache", "read", "swap"}
  /\ worker[w].pc = "scan" => worker[w].op \in {"add", "refresh"}
  /\ worker[w].pc = "save" => worker[w].op = "add"
  /\ worker[w].pc = "put" => worker[w].op \in {"enable", "disable"}
  /\ worker[w].pc \in {"get", "mark"} => worker[w].op = "refresh"

TypeInv == TypeOK /\ \A w \in Workers : Shaped(w)

\* The parts of TypeOK that a step can disturb.
LayersOK ==
  /\ used \subseteq Sources /\ scanning \subseteq used
  /\ record \in [Sources -> {"none", "on", "off"}]
  /\ mirror \in Entries /\ file \in Entries /\ index \in Entries
  /\ \A s \in Sources \ used : /\ record[s] = "none" /\ mirror[s] = Nothing
                               /\ file[s] = Nothing /\ index[s] = Nothing
  /\ crashes \in 0..MaxCrashes /\ clashes \subseteq {"source", "provider"}

LEMMA TypeParts == TypeOK <=> LayersOK /\ worker \in [Workers -> Work]
<1>1. \A s : {mirror[s], file[s], index[s]} = {Nothing} <=>
               mirror[s] = Nothing /\ file[s] = Nothing /\ index[s] = Nothing
  OBVIOUS
<1>2. {mirror, file, index} \subseteq Entries <=>
        mirror \in Entries /\ file \in Entries /\ index \in Entries
  OBVIOUS
<1> QED
  BY <1>1, <1>2 DEF TypeOK, LayersOK, Work, Pcs, Ops

\* A step disturbs the shape of its own worker only.
LEMMA ShapeKept ==
  ASSUME \A v \in Workers : Shaped(v), used \subseteq used',
         NEW w \in Workers, Others(w), Shaped(w)'
  PROVE  \A v \in Workers : Shaped(v)'
BY DEF Shaped, Busy, Src, Others

\* Installing entries changes the two caches for one source.
LEMMA InstallStep ==
  ASSUME LayersOK, NEW s \in used, NEW v \in Versions \cup {Nothing}, Install(s, v)
  PROVE  /\ mirror' \in Entries /\ file' \in Entries
         /\ mirror'[s] = v /\ \A t \in Sources : t # s => mirror'[t] = mirror[t]
         /\ \A t \in Sources : t # s /\ file[t] = Nothing /\ mirror[t] = Nothing =>
              file'[t] = Nothing
BY DEF LayersOK, Install, Entries

\* The four ways an operation begins.
BeginMoves(w, s) ==
  /\ ~Busy(w)
  /\ \/ /\ Opens(w, "add", s, "scan") /\ Mark(s) /\ s \notin used
        /\ used' = used \cup {s} /\ UNCHANGED record
     \/ /\ Opens(w, "remove", s, "uncache") /\ record[s] # "none"
        /\ record' = [record EXCEPT ![s] = "none"] /\ UNCHANGED <<used, scanning>>
     \/ /\ Opens(w, "refresh", s, "mark") /\ record[s] = "on"
        /\ UNCHANGED <<used, record, scanning>>
     \/ \E op \in {"enable", "disable"} :
          /\ Opens(w, op, s, "put") /\ record[s] # "none"
          /\ UNCHANGED <<used, record, scanning>>
  /\ UNCHANGED <<mirror, file, index, crashes>>
  /\ clashes' = IF \E v \in Workers : Src(v) = s THEN clashes \cup {"source"} ELSE clashes

LEMMA BeginSteps ==
  ASSUME TypeInv, NEW w \in Workers, Begins(w)
  PROVE  \E s \in Sources : BeginMoves(w, s)
<1>t. worker \in [Workers -> Work]
  BY TypeParts DEF TypeInv
<1>p. /\ {"scan", "uncache", "mark", "put"} \subseteq Pcs
      /\ {"add", "remove", "refresh", "enable", "disable"} \subseteq Ops
  BY DEF Pcs, Ops
<1>1. PICK s \in Owned[w] : \/ AddChecks(w, s) \/ RemoveDeletes(w, s) \/ RefreshBegins(w, s)
                            \/ \E op \in {"enable", "disable"} : ToggleGets(w, s, op)
  BY DEF Begins
<1>2. s \in Sources
  BY FolderAssumption
<1>3. ASSUME NEW op \in Ops, NEW pc \in Pcs, Start(w, op, s, pc)
      PROVE  /\ Opens(w, op, s, pc) /\ crashes' = crashes
             /\ clashes' = IF \E v \in Workers : Src(v) = s THEN clashes \cup {"source"}
                                                             ELSE clashes
  BY <1>t, <1>2, <1>3, OperationStep DEF Start
<1>4. CASE AddChecks(w, s)
  <2>1. Start(w, "add", s, "scan")
    BY <1>4 DEF AddChecks
  <2> QED
    BY <1>p, <1>2, <1>3, <1>4, <2>1 DEF BeginMoves, AddChecks, At, Busy
<1>5. CASE RemoveDeletes(w, s)
  <2>1. Start(w, "remove", s, "uncache")
    BY <1>5 DEF RemoveDeletes
  <2> QED
    BY <1>p, <1>2, <1>3, <1>5, <2>1 DEF BeginMoves, RemoveDeletes, At, Busy
<1>6. CASE RefreshBegins(w, s)
  <2>1. Start(w, "refresh", s, "mark")
    BY <1>6 DEF RefreshBegins
  <2> QED
    BY <1>p, <1>2, <1>3, <1>6, <2>1 DEF BeginMoves, RefreshBegins, At, Busy, layers
<1>7. ASSUME NEW op \in {"enable", "disable"}, ToggleGets(w, s, op)
      PROVE  /\ ~Busy(w) /\ Opens(w, op, s, "put") /\ record[s] # "none"
             /\ UNCHANGED <<used, record, scanning, mirror, file, index, crashes>>
             /\ clashes' = IF \E v \in Workers : Src(v) = s THEN clashes \cup {"source"}
                                                             ELSE clashes
  <2>1. Start(w, op, s, "put")
    BY <1>7 DEF ToggleGets
  <2>2. op \in Ops
    BY <1>p
  <2> QED
    BY <1>p, <1>3, <1>7, <2>1, <2>2 DEF ToggleGets, At, Busy, layers
<1> QED
  BY <1>1, <1>2, <1>4, <1>5, <1>6, <1>7 DEF BeginMoves

\* The steps of an operation in progress, by the layer they change.
ScanMoves(w) ==
  /\ worker[w].pc = "scan"
  /\ \/ /\ worker[w].op = "add" /\ Moves(w, "save") /\ UNCHANGED scanning
        /\ worker'[w].found \in Trees[Src(w)] \cup {Nothing}
     \/ /\ worker[w].op = "refresh" /\ Unmark(Src(w))
        /\ Stops(w) \/ (Moves(w, "cache") /\ worker'[w].found \in Trees[Src(w)])
  /\ worker'[w].kept = worker[w].kept \/ Stops(w)
  /\ UNCHANGED <<used, record, mirror, file, index, history>>
RecordMoves(w) ==
  /\ \/ /\ worker[w].pc = "save"
        /\ record' \in {record, [record EXCEPT ![Src(w)] = "on"]}
        /\ \/ Moves(w, "unmark") /\ Clears(w)
           \/ Moves(w, "cache") /\ record'[Src(w)] = "on" /\ worker[w].found # Nothing
     \/ /\ worker[w].pc = "put"
        /\ \/ /\ worker[w].op = "enable" /\ Moves(w, "restore")
              /\ record' = [record EXCEPT ![Src(w)] = "on"]
           \/ /\ worker[w].op # "enable" /\ Moves(w, "read")
              /\ record' = [record EXCEPT ![Src(w)] = "off"]
           \/ Stops(w) /\ UNCHANGED record
  /\ \/ Stops(w) \/ Moves(w, "unmark")
     \/ worker'[w].found = worker[w].found /\ worker'[w].kept = worker[w].kept
  /\ UNCHANGED <<used, scanning, mirror, file, index, history>>
CacheMoves(w) ==
  /\ \/ worker[w].pc = "cache" /\ Install(Src(w), worker[w].found)
     \/ worker[w].pc = "uncache" /\ Install(Src(w), Nothing)
  /\ Moves(w, "read")
  /\ worker'[w].found = worker[w].found /\ worker'[w].kept = worker[w].kept
  /\ UNCHANGED <<used, record, index, scanning, history>>
MarkMoves(w) ==
  /\ \/ worker[w].pc = "mark" /\ worker[w].op = "refresh" /\ Mark(Src(w)) /\ Moves(w, "scan")
     \/ worker[w].pc = "unmark" /\ Unmark(Src(w)) /\ Stops(w)
  /\ Stops(w) \/ worker'[w].kept = worker[w].kept
  /\ UNCHANGED <<used, record, mirror, file, index, history>>
LookMoves(w) ==
  /\ \/ /\ worker[w].pc = "restore" /\ Moves(w, "read")
        /\ worker'[w].found = mirror[Src(w)]
     \/ /\ worker[w].pc = "get"
        /\ Stops(w) \/ (Moves(w, "mark") /\ record[Src(w)] = "on")
  /\ Stops(w) \/ worker'[w].kept = worker[w].kept
  /\ UNCHANGED <<used, layers, history>>
ReadMoves(w) ==
  /\ worker[w].pc = "read" /\ Moves(w, "swap")
  /\ worker'[w].found = worker[w].found /\ worker'[w].kept = index
  /\ clashes' = IF \E v \in Workers : At(v, "swap") THEN clashes \cup {"provider"} ELSE clashes
  /\ UNCHANGED <<used, layers, crashes>>
SwapMoves(w) ==
  /\ worker[w].pc = "swap"
  /\ index' = [worker[w].kept EXCEPT ![Src(w)] = worker[w].found]
  /\ \/ worker[w].op \in {"add", "remove"} /\ Moves(w, "unmark") /\ Clears(w)
     \/ worker[w].op \in {"disable", "refresh"} /\ Stops(w)
     \/ worker[w].op = "enable" /\ Opens(w, "refresh", Src(w), "get")
  /\ UNCHANGED <<used, record, mirror, file, scanning, history>>

LEMMA ContinueSteps ==
  ASSUME TypeInv, NEW w \in Workers, Continues(w)
  PROVE  /\ Src(w) \in used /\ Src(w) \in Sources
         /\ \/ ScanMoves(w) \/ RecordMoves(w) \/ CacheMoves(w) \/ MarkMoves(w)
            \/ LookMoves(w) \/ ReadMoves(w) \/ SwapMoves(w)
<1>t. worker \in [Workers -> Work] /\ LayersOK /\ Shaped(w)
  BY TypeParts DEF TypeInv
<1>p. {"save", "cache", "unmark", "read", "restore", "mark", "scan", "get"} \subseteq Pcs
  BY DEF Pcs
<1>0. Src(w) \in used /\ Src(w) \in Sources
  <2>1. Busy(w)
    BY DEF Continues, Scans, AddSaves, CacheReplaces, CacheDeletes, TogglePuts, EnableRestores,
       RefreshGets, RefreshMarks, ProviderReads, ProviderSwaps, Unmarks, At, Busy
  <2> QED
    BY <1>t, <2>1 DEF Shaped, LayersOK
<1>1. CASE Scans(w)
  <2>1. CASE worker[w].op = "add"
    <3>1. PICK v \in Trees[Src(w)] \cup {Nothing} : Found(w, v, "save")
      BY <1>1, <2>1 DEF Scans
    <3>2. v \in Versions \cup {Nothing}
      BY <1>0 DEF Versions
    <3>3. Moves(w, "save") /\ worker'[w].kept = worker[w].kept /\ worker'[w].found = v
      BY <1>t, <1>p, <3>1, <3>2, FoundStep DEF Found
    <3> QED
      BY <1>0, <1>1, <2>1, <3>1, <3>3 DEF Scans, ScanMoves, At
  <2>2. CASE worker[w].op # "add"
    <3>1. worker[w].op = "refresh" /\ Unmark(Src(w))
          /\ (Done(w) \/ \E v \in Trees[Src(w)] : Found(w, v, "cache"))
      BY <1>1, <2>2 DEF Scans
    <3>2. ASSUME NEW v \in Trees[Src(w)], Found(w, v, "cache")
          PROVE  /\ Moves(w, "cache") /\ worker'[w].kept = worker[w].kept
                 /\ worker'[w].found \in Trees[Src(w)]
      <4>1. v \in Versions \cup {Nothing}
        BY <1>0 DEF Versions
      <4>2. /\ Moves(w, "cache") /\ worker'[w].kept = worker[w].kept
            /\ worker'[w].found = v
        BY <1>t, <1>p, <3>2, <4>1, FoundStep DEF Found
      <4> QED
        BY <4>2
    <3> QED
      BY <1>t, <1>0, <1>1, <3>1, <3>2, DoneStep DEF Scans, ScanMoves, At
  <2> QED
    BY <2>1, <2>2
<1>2. CASE AddSaves(w)
  <2>1. record' \in {record, [record EXCEPT ![Src(w)] = "on"]}
    BY <1>2 DEF AddSaves
  <2>2. \/ Turn(w, "add", "unmark")
        \/ /\ Goto(w, "cache") /\ record'[Src(w)] # record[Src(w)]
           /\ worker[w].found # Nothing
    BY <1>2 DEF AddSaves
  <2>3. record'[Src(w)] # record[Src(w)] => record'[Src(w)] = "on"
    BY <1>t, <1>0, <2>1 DEF LayersOK
  <2>4. CASE Turn(w, "add", "unmark")
    <3>1. Opens(w, "add", Src(w), "unmark") /\ worker[w].op = "add"
      BY <1>t, <1>p, <1>0, <1>2, <2>4, TurnStep DEF AddSaves, Shaped, At, Ops
    <3>2. Moves(w, "unmark") /\ Clears(w)
      BY <3>1 DEF Opens, Moves, Clears, Src
    <3> QED
      BY <1>0, <1>2, <2>1, <3>2 DEF AddSaves, RecordMoves, At
  <2>5. CASE ~Turn(w, "add", "unmark")
    <3>1. /\ Moves(w, "cache") /\ record'[Src(w)] = "on" /\ worker[w].found # Nothing
          /\ worker'[w].found = worker[w].found /\ worker'[w].kept = worker[w].kept
      BY <1>t, <1>p, <2>2, <2>3, <2>5, GotoStep
    <3> QED
      BY <1>0, <1>2, <2>1, <3>1 DEF AddSaves, RecordMoves, At
  <2> QED
    BY <2>4, <2>5
<1>3. CASE TogglePuts(w)
  <2>1. CASE Done(w) /\ UNCHANGED record
    BY <1>t, <1>0, <1>3, <2>1, DoneStep DEF TogglePuts, RecordMoves, At
  <2>2. CASE worker[w].op = "enable" /\ ~(Done(w) /\ UNCHANGED record)
    <3>1. Goto(w, "restore") /\ record' = [record EXCEPT ![Src(w)] = "on"]
      BY <1>3, <2>2 DEF TogglePuts
    <3>2. /\ Moves(w, "restore") /\ worker'[w].found = worker[w].found
          /\ worker'[w].kept = worker[w].kept
      BY <1>t, <1>p, <3>1, GotoStep
    <3> QED
      BY <1>0, <1>3, <2>2, <3>1, <3>2 DEF TogglePuts, RecordMoves, At
  <2>3. CASE worker[w].op # "enable" /\ ~(Done(w) /\ UNCHANGED record)
    <3>1. Goto(w, "read") /\ record' = [record EXCEPT ![Src(w)] = "off"]
      BY <1>3, <2>3 DEF TogglePuts
    <3>2. /\ Moves(w, "read") /\ worker'[w].found = worker[w].found
          /\ worker'[w].kept = worker[w].kept
      BY <1>t, <1>p, <3>1, GotoStep
    <3> QED
      BY <1>0, <1>3, <2>3, <3>1, <3>2 DEF TogglePuts, RecordMoves, At
  <2> QED
    BY <2>1, <2>2, <2>3
<1>4. CASE CacheReplaces(w) \/ CacheDeletes(w)
  <2>1. Goto(w, "read")
    BY <1>4 DEF CacheReplaces, CacheDeletes
  <2>2. Moves(w, "read") /\ worker'[w].found = worker[w].found /\ worker'[w].kept = worker[w].kept
    BY <1>t, <1>p, <2>1, GotoStep
  <2> QED
    BY <1>0, <1>4, <2>2 DEF CacheReplaces, CacheDeletes, CacheMoves, At
<1>5. CASE RefreshMarks(w)
  <2>1. Moves(w, "scan") /\ worker'[w].kept = worker[w].kept
    BY <1>t, <1>p, <1>5, GotoStep DEF RefreshMarks
  <2>2. worker[w].op = "refresh"
    BY <1>t, <1>5 DEF RefreshMarks, Shaped, At
  <2> QED
    BY <1>0, <1>5, <2>1, <2>2 DEF RefreshMarks, MarkMoves, At
<1>6. CASE Unmarks(w)
  <2>1. Stops(w)
    BY <1>t, <1>6, DoneStep DEF Unmarks
  <2> QED
    BY <1>0, <1>6, <2>1 DEF Unmarks, MarkMoves, At
<1>7. CASE EnableRestores(w)
  <2>1. mirror[Src(w)] \in Versions \cup {Nothing}
    BY <1>t, <1>0 DEF LayersOK, Entries
  <2>2. worker' = [worker EXCEPT ![w].pc = "read", ![w].found = mirror[Src(w)]]
    BY <1>7 DEF EnableRestores
  <2>3. /\ Moves(w, "read") /\ worker'[w].found = mirror[Src(w)]
        /\ worker'[w].kept = worker[w].kept
    BY <1>t, <1>p, <2>1, <2>2, FoundStep
  <2> QED
    BY <1>0, <1>7, <2>3 DEF EnableRestores, LookMoves, At
<1>8. CASE RefreshGets(w)
  <2>1. Stops(w) \/ (Moves(w, "mark") /\ record[Src(w)] = "on"
                      /\ worker'[w].kept = worker[w].kept)
    BY <1>t, <1>p, <1>8, GotoStep, DoneStep DEF RefreshGets
  <2> QED
    BY <1>0, <1>8, <2>1 DEF RefreshGets, LookMoves, At
<1>9. CASE ProviderReads(w)
  <2>1. worker' = [worker EXCEPT ![w].pc = "swap", ![w].kept = index] /\ index \in Entries
    BY <1>t, <1>9 DEF ProviderReads, LayersOK
  <2>2. Moves(w, "swap") /\ worker'[w].found = worker[w].found /\ worker'[w].kept = index
    BY <1>t, <2>1, KeptStep
  <2> QED
    BY <1>0, <1>9, <2>2 DEF ProviderReads, ReadMoves, At
<1>10. CASE ProviderSwaps(w)
  <2>1. CASE worker[w].op \in {"add", "remove"} /\ Turn(w, worker[w].op, "unmark")
    <3>1. Opens(w, worker[w].op, Src(w), "unmark")
      BY <1>t, <1>p, <1>0, <2>1, TurnStep DEF Ops
    <3>2. Moves(w, "unmark") /\ Clears(w)
      BY <3>1 DEF Opens, Moves, Clears, Src
    <3> QED
      BY <1>0, <1>10, <2>1, <3>2 DEF ProviderSwaps, SwapMoves, At
  <2>2. CASE worker[w].op \in {"disable", "refresh"} /\ Done(w)
    <3>1. Stops(w)
      BY <1>t, <2>2, DoneStep
    <3> QED
      BY <1>0, <1>10, <2>2, <3>1 DEF ProviderSwaps, SwapMoves, At
  <2>3. CASE worker[w].op = "enable"
             /\ Turn(w, "refresh", "get")
    <3>1. "refresh" \in Ops
      BY DEF Ops
    <3>2. Opens(w, "refresh", Src(w), "get")
      BY <1>t, <1>p, <1>0, <2>3, <3>1, TurnStep
    <3> QED
      BY <1>0, <1>10, <2>3, <3>2 DEF ProviderSwaps, SwapMoves, At
  <2> QED
    BY <1>10, <2>1, <2>2, <2>3 DEF ProviderSwaps
<1> QED
  BY <1>1, <1>2, <1>3, <1>4, <1>5, <1>6, <1>7, <1>8, <1>9, <1>10 DEF Continues

\* Whoever stopped has the shape of the idle.
LEMMA StopShape ==
  ASSUME NEW w \in Workers, Stops(w)
  PROVE  Shaped(w)'
BY IdleType DEF Stops, Shaped, Busy, Src

LEMMA TypeInvStep ==
  ASSUME TypeInv, [Next]_vars
  PROVE  TypeInv'
<1>t. worker \in [Workers -> Work] /\ LayersOK /\ \A v \in Workers : Shaped(v)
  BY TypeParts DEF TypeInv
<1> SUFFICES LayersOK' /\ worker' \in [Workers -> Work] /\ \A v \in Workers : Shaped(v)'
  <2>1. LayersOK' /\ worker' \in [Workers -> Work] => TypeOK'
    <3>1. \A s : {mirror'[s], file'[s], index'[s]} = {Nothing} <=>
                   mirror'[s] = Nothing /\ file'[s] = Nothing /\ index'[s] = Nothing
      OBVIOUS
    <3> QED
      BY <3>1 DEF TypeOK, LayersOK, Work, Pcs, Ops
  <2> QED
    BY <2>1 DEF TypeInv
<1> DEFINE Typed == LayersOK' /\ worker' \in [Workers -> Work] /\ \A v \in Workers : Shaped(v)'
<1>1. ASSUME NEW w \in Workers, Begins(w) PROVE Typed
  <2>1. PICK s \in Sources : BeginMoves(w, s)
    BY <1>1, BeginSteps
  <2>2. s \in used' /\ used \subseteq used'
    BY <1>t, <2>1 DEF BeginMoves, LayersOK
  <2>3. LayersOK'
    BY <1>t, <2>1 DEF BeginMoves, LayersOK, Mark
  <2>4. Shaped(w)' /\ Others(w) /\ worker' \in [Workers -> Work]
    BY <2>1, <2>2 DEF BeginMoves, Opens, Shaped, Busy, Src
  <2> QED
    BY <1>t, <1>1, <2>2, <2>3, <2>4, ShapeKept
<1>2. ASSUME NEW w \in Workers, Continues(w) PROVE Typed
  <2>0. Src(w) \in used /\ Src(w) \in Sources /\ Shaped(w) /\ worker[w] \in Work
    BY <1>t, <1>2, ContinueSteps
  <2>s. ASSUME used' = used, Others(w), Shaped(w)', worker' \in [Workers -> Work], LayersOK'
        PROVE  Typed
    BY <1>t, <2>s, ShapeKept
  <2>m. ASSUME NEW pc \in {"save", "cache", "unmark", "restore", "read", "mark", "scan", "swap"},
               Moves(w, pc), used' = used,
               worker'[w].kept = worker[w].kept \/ Clears(w),
               pc = "save" => worker[w].op = "add",
               pc \in {"mark", "scan"} => worker[w].op = "refresh",
               pc \in {"restore", "unmark"} => worker[w].op # "refresh"
        PROVE  Shaped(w)' /\ Others(w) /\ worker' \in [Workers -> Work]
    BY <2>0, <2>m DEF Shaped, Moves, Clears, Busy, Src
  <2>i. ASSUME Stops(w)
        PROVE  Shaped(w)' /\ Others(w) /\ worker' \in [Workers -> Work]
    BY <2>i, StopShape DEF Stops
  <2>1. CASE ScanMoves(w)
    <3>1. Shaped(w)' /\ Others(w) /\ worker' \in [Workers -> Work]
      BY <2>1, <2>i, <2>m DEF ScanMoves
    <3>2. LayersOK'
      BY <1>t, <2>1 DEF ScanMoves, LayersOK, Unmark, history
    <3> QED
      BY <2>1, <2>s, <3>1, <3>2 DEF ScanMoves
  <2>2. CASE RecordMoves(w)
    <3>1. worker[w].pc \in {"save", "put"} /\ worker[w].op # "refresh"
      BY <2>0, <2>2 DEF RecordMoves, Shaped
    <3>2. Shaped(w)' /\ Others(w) /\ worker' \in [Workers -> Work]
      <4>1. \/ Stops(w)
            \/ Moves(w, "unmark") /\ Clears(w)
            \/ \E pc \in {"cache", "restore", "read"} :
                 Moves(w, pc) /\ worker'[w].kept = worker[w].kept
        BY <2>2 DEF RecordMoves, Moves
      <4>2. used' = used
        BY <2>2 DEF RecordMoves
      <4>3. CASE Moves(w, "unmark") /\ Clears(w)
        BY <2>m, <3>1, <4>2, <4>3
      <4>4. ASSUME NEW pc \in {"cache", "restore", "read"}, Moves(w, pc),
                   worker'[w].kept = worker[w].kept
            PROVE  Shaped(w)' /\ Others(w) /\ worker' \in [Workers -> Work]
        BY <2>m, <3>1, <4>2, <4>4
      <4> QED
        BY <2>i, <4>1, <4>3, <4>4
    <3>3. LayersOK'
      BY <1>t, <2>0, <2>2 DEF RecordMoves, LayersOK, history
    <3> QED
      BY <2>2, <2>s, <3>2, <3>3 DEF RecordMoves
  <2>3. CASE CacheMoves(w)
    <3>1. Shaped(w)' /\ Others(w) /\ worker' \in [Workers -> Work]
      BY <2>3, <2>m DEF CacheMoves
    <3>2. \E v \in Versions \cup {Nothing} : Install(Src(w), v)
      BY <2>0, <2>3 DEF CacheMoves, Work
    <3>3. /\ mirror' \in Entries /\ file' \in Entries
          /\ \A t \in Sources \ used : mirror'[t] = Nothing /\ file'[t] = Nothing
      BY <1>t, <2>0, <3>2, InstallStep DEF LayersOK
    <3>4. LayersOK'
      BY <1>t, <2>3, <3>3 DEF CacheMoves, LayersOK, history
    <3> QED
      BY <2>3, <2>s, <3>1, <3>4 DEF CacheMoves
  <2>4. CASE MarkMoves(w)
    <3>1. Shaped(w)' /\ Others(w) /\ worker' \in [Workers -> Work]
      BY <2>4, <2>i, <2>m DEF MarkMoves
    <3>2. LayersOK'
      BY <1>t, <2>0, <2>4 DEF MarkMoves, LayersOK, Mark, Unmark, history
    <3> QED
      BY <2>4, <2>s, <3>1, <3>2 DEF MarkMoves
  <2>5. CASE LookMoves(w)
    <3>1. worker[w].pc = "get" => worker[w].op = "refresh"
      BY <2>0 DEF Shaped
    <3>2. Shaped(w)' /\ Others(w) /\ worker' \in [Workers -> Work]
      BY <2>5, <2>i, <2>m, <3>1 DEF LookMoves
    <3>3. LayersOK'
      BY <1>t, <2>5 DEF LookMoves, LayersOK, layers, history
    <3> QED
      BY <2>5, <2>s, <3>2, <3>3 DEF LookMoves
  <2>6. CASE ReadMoves(w)
    <3>1. \A s \in Sources \ used : worker'[w].kept[s] = Nothing
      BY <1>t, <2>6 DEF ReadMoves, LayersOK
    <3>2. Shaped(w)' /\ Others(w) /\ worker' \in [Workers -> Work]
      BY <2>0, <2>6, <3>1 DEF ReadMoves, Moves, Shaped, Busy, Src
    <3>3. LayersOK'
      BY <1>t, <2>6 DEF ReadMoves, LayersOK, layers
    <3> QED
      BY <2>6, <2>s, <3>2, <3>3 DEF ReadMoves
  <2>7. CASE SwapMoves(w)
    <3>1. Shaped(w)' /\ Others(w) /\ worker' \in [Workers -> Work]
      <4>1. CASE Opens(w, "refresh", Src(w), "get")
        BY <2>0, <2>7, <4>1 DEF SwapMoves, Opens, Shaped, Busy, Src
      <4>2. CASE ~Opens(w, "refresh", Src(w), "get")
        BY <2>7, <2>i, <2>m, <4>2 DEF SwapMoves
      <4> QED
        BY <4>1, <4>2
    <3>2. worker[w].kept \in Entries /\ worker[w].found \in Versions \cup {Nothing}
      BY <2>0 DEF Work
    <3>3. index' \in Entries /\ \A s \in Sources \ used : index'[s] = Nothing
      BY <2>0, <2>7, <3>2 DEF SwapMoves, Entries, Shaped
    <3>4. LayersOK'
      BY <1>t, <2>7, <3>3 DEF SwapMoves, LayersOK, history
    <3> QED
      BY <2>7, <2>s, <3>1, <3>4 DEF SwapMoves
  <2> QED
    BY <1>2, <2>1, <2>2, <2>3, <2>4, <2>5, <2>6, <2>7, ContinueSteps
<1>3. CASE Restart
  <2>1. \A w \in Workers : worker'[w] = Idle
    BY <1>3 DEF Restart
  <2>2. worker' \in [Workers -> Work]
    BY <1>3, IdleType DEF Restart
  <2>3. LayersOK'
    BY <1>3, <1>t, FolderAssumption DEF Restart, LayersOK, Entries
  <2> QED
    BY <2>1, <2>2, <2>3, IdleType DEF Shaped, Busy, Src
<1>4. CASE UNCHANGED vars
  BY <1>4, <1>t DEF vars, layers, history, LayersOK, Shaped, Busy, Src
<1> QED
  BY <1>1, <1>2, <1>3, <1>4 DEF Next

LEMMA TypeInvInit == Init => TypeInv
<1> SUFFICES ASSUME Init PROVE TypeInv
  OBVIOUS
<1>1. worker \in [Workers -> Work] /\ \A w \in Workers : worker[w] = Idle
  BY IdleType DEF Init
<1>2. LayersOK
  BY FolderAssumption DEF Init, LayersOK, Entries
<1> QED
  BY <1>1, <1>2, TypeParts, IdleType DEF TypeInv, Shaped, Busy, Src

\* Every reachable state of the folder sources is well typed: no layer has entries of,
\* and no goroutine works on, a source that has not been drawn.
THEOREM TypeCorrect == Spec => []TypeOK
<1>1. TypeInv => TypeOK
  BY DEF TypeInv
<1>2. ASSUME TypeInv, [Next]_vars PROVE TypeInv'
  BY <1>2, TypeInvStep
<1> HIDE DEF TypeInv
<1> QED
  BY <1>1, <1>2, TypeInvInit, PTL DEF Spec

----------------------------------------------------------------------------
(* ScanningIsTrue. A mark is held by an addition, from its first step to   *)
(* its last, or by a refresh while it scans.                               *)

Holds(w, s) == Src(w) = s /\ \/ worker[w].op = "add"
                             \/ worker[w].op = "refresh" /\ worker[w].pc = "scan"
MarksHeld == \A s \in scanning : \E w \in Workers : Holds(w, s)

LEMMA MarksKept ==
  ASSUME MarksHeld, NEW w \in Workers, Others(w),
         \A s \in scanning' : s \in scanning \/ Holds(w, s)',
         \A s \in scanning' : Holds(w, s) => Holds(w, s)'
  PROVE  MarksHeld'
<1> SUFFICES ASSUME NEW s \in scanning' PROVE \E v \in Workers : Holds(v, s)'
  BY DEF MarksHeld
<1>1. \A v \in Workers : v # w /\ Holds(v, s) => Holds(v, s)'
  BY DEF Others, Holds, Src
<1> QED
  BY <1>1 DEF MarksHeld

LEMMA MarksStep ==
  ASSUME TypeInv, MarksHeld, [Next]_vars
  PROVE  MarksHeld'
<1>1. ASSUME NEW w \in Workers, Begins(w) PROVE MarksHeld'
  <2>1. PICK s \in Sources : BeginMoves(w, s)
    BY <1>1, BeginSteps
  <2>2. \A t : ~Holds(w, t)
    BY <2>1, IdleType DEF BeginMoves, TypeInv, Shaped, Holds
  <2>3. Others(w) /\ \A t \in scanning' : t \in scanning \/ Holds(w, t)'
    BY <2>1 DEF BeginMoves, Opens, Mark, Holds, Src
  <2> QED
    BY <2>2, <2>3, MarksKept
<1>2. ASSUME NEW w \in Workers, Continues(w) PROVE MarksHeld'
  <2>0. Shaped(w)
    BY DEF TypeInv
  <2>1. CASE ScanMoves(w)
    BY <2>1, MarksKept DEF ScanMoves, Moves, Stops, Unmark, Holds, Src
  <2>2. CASE RecordMoves(w)
    BY <2>0, <2>2, MarksKept DEF RecordMoves, Moves, Stops, Shaped, Holds, Src
  <2>3. CASE CacheMoves(w)
    BY <2>3, MarksKept DEF CacheMoves, Moves, Holds, Src
  <2>4. CASE MarkMoves(w)
    BY <2>4, MarksKept DEF MarkMoves, Moves, Stops, Mark, Unmark, Holds, Src
  <2>5. CASE LookMoves(w)
    BY <2>0, <2>5, MarksKept DEF LookMoves, Moves, Stops, Shaped, Holds, Src, layers
  <2>6. CASE ReadMoves(w)
    BY <2>6, MarksKept DEF ReadMoves, Moves, Holds, Src, layers
  <2>7. CASE SwapMoves(w)
    BY <2>7, MarksKept DEF SwapMoves, Moves, Stops, Opens, Holds, Src
  <2> QED
    BY <1>2, <2>1, <2>2, <2>3, <2>4, <2>5, <2>6, <2>7, ContinueSteps
<1>3. CASE Restart
  BY <1>3 DEF Restart, MarksHeld
<1>4. CASE UNCHANGED vars
  BY <1>4 DEF vars, layers, MarksHeld, Holds, Src
<1> QED
  BY <1>1, <1>2, <1>3, <1>4 DEF Next

\* For any number of goroutines and sources: a source shown as scanning is being added
\* or refreshed; no failure path and no other operation leaves the mark behind
\* (Controller.status).
THEOREM ScanningStaysTrue == Spec => []ScanningIsTrue
<1>1. Init => TypeInv /\ MarksHeld
  BY TypeInvInit DEF Init, MarksHeld
<1>2. ASSUME TypeInv /\ MarksHeld, [Next]_vars PROVE (TypeInv /\ MarksHeld)'
  BY <1>2, TypeInvStep, MarksStep
<1>3. TypeInv /\ MarksHeld => ScanningIsTrue
  BY DEF MarksHeld, Holds, ScanningIsTrue
<1> HIDE DEF TypeInv, MarksHeld
<1> QED
  BY <1>1, <1>2, <1>3, PTL DEF Spec

----------------------------------------------------------------------------
(* CacheFollowsConfig. Until operations overlap on a source, each step of  *)
(* one knows what the earlier steps have left of the record and the cache. *)

OnePer ==
  "source" \notin clashes =>
    \A v, w \in Workers : Busy(v) /\ Busy(w) /\ Src(v) = Src(w) => v = w

Want(s) == IF record[s] = "on" THEN mirror[s] ELSE Nothing

Phase(w) ==
  /\ worker[w].pc \in {"scan", "save"} /\ worker[w].op = "add" =>
       record[Src(w)] = "none" /\ mirror[Src(w)] = Nothing
  /\ worker[w].pc \in {"mark", "scan"} /\ worker[w].op = "refresh" => record[Src(w)] = "on"
  /\ worker[w].pc \in {"cache", "restore"} => record[Src(w)] = "on"
  /\ worker[w].pc = "put" => record[Src(w)] # "none" /\ worker[w].found = Nothing
  /\ worker[w].pc = "uncache" => record[Src(w)] = "none" /\ worker[w].found = Nothing
  /\ worker[w].pc \in {"read", "swap"} => worker[w].found = Want(Src(w))

Phases == "source" \notin clashes => \A w \in Workers : Phase(w)

\* What RemoveSource leaves in the cache it is about to delete.
Cached ==
  "source" \notin clashes /\ crashes = 0 =>
    \A s \in Sources : record[s] = "none" /\ mirror[s] # Nothing =>
      \E w \in Workers : worker[w].pc = "uncache" /\ Src(w) = s

PhaseInv == OnePer /\ Phases /\ Cached

\* An operation in progress keeps its source, and neither begins nor hides a clash
\* on it.
LEMMA ContinueKeeps ==
  ASSUME TypeInv, NEW w \in Workers, Continues(w)
  PROVE  /\ Busy(w) /\ Others(w) /\ crashes' = crashes
         /\ Busy(w)' => Src(w)' = Src(w)
         /\ "source" \in clashes' <=> "source" \in clashes
         /\ \A t \in Sources : t # Src(w) => record'[t] = record[t] /\ mirror'[t] = mirror[t]
<1>t. LayersOK
  BY TypeParts DEF TypeInv
<1>0. Src(w) \in Sources /\ Src(w) \in used /\ worker[w] \in Work
  BY ContinueSteps, TypeParts DEF TypeInv
<1>1. CASE ScanMoves(w)
  BY <1>1, IdleType DEF ScanMoves, Moves, Stops, Busy, Src, history
<1>2. CASE RecordMoves(w)
  BY <1>t, <1>2, IdleType DEF RecordMoves, Moves, Stops, Busy, Src, history, LayersOK
<1>3. CASE CacheMoves(w)
  <2>1. \E v \in Versions \cup {Nothing} : Install(Src(w), v)
    BY <1>0, <1>3 DEF CacheMoves, Work
  <2>2. \A t \in Sources : t # Src(w) => mirror'[t] = mirror[t]
    BY <1>t, <1>0, <2>1, InstallStep
  <2> QED
    BY <1>3, <2>2 DEF CacheMoves, Moves, Busy, Src, history
<1>4. CASE MarkMoves(w)
  BY <1>4, IdleType DEF MarkMoves, Moves, Stops, Busy, Src, history
<1>5. CASE LookMoves(w)
  BY <1>5, IdleType DEF LookMoves, Moves, Stops, Busy, Src, history, layers
<1>6. CASE ReadMoves(w)
  BY <1>6 DEF ReadMoves, Moves, Busy, Src, layers
<1>7. CASE SwapMoves(w)
  BY <1>7, IdleType DEF SwapMoves, Moves, Stops, Opens, Busy, Src, history
<1> QED
  BY <1>1, <1>2, <1>3, <1>4, <1>5, <1>6, <1>7, ContinueSteps

\* What another operation knows of its own source is not disturbed.
LEMMA PhaseKept ==
  ASSUME NEW v \in Workers, worker'[v] = worker[v], Phase(v),
         Busy(v) => record'[Src(v)] = record[Src(v)] /\ mirror'[Src(v)] = mirror[Src(v)]
  PROVE  Phase(v)'
<1>1. CASE Busy(v)
  <2>1. Src(v)' = Src(v) /\ Want(Src(v))' = Want(Src(v))
    BY <1>1 DEF Src, Want
  <2> QED
    BY <1>1, <2>1 DEF Phase, Src
<1>2. CASE ~Busy(v)
  BY <1>2 DEF Phase, Busy
<1> QED
  BY <1>1, <1>2

LEMMA PhaseInvStep ==
  ASSUME TypeInv, PhaseInv, [Next]_vars
  PROVE  PhaseInv'
<1>t. LayersOK /\ worker \in [Workers -> Work] /\ \A v \in Workers : Shaped(v)
  BY TypeParts DEF TypeInv
<1>1. ASSUME NEW w \in Workers, Begins(w), "source" \notin clashes' PROVE PhaseInv'
  <2>1. PICK s \in Sources : BeginMoves(w, s)
    BY <1>1, BeginSteps
  <2>2. /\ "source" \notin clashes /\ crashes' = crashes /\ mirror' = mirror /\ ~Busy(w)
        /\ Others(w) /\ Src(w)' = s
        /\ \A v \in Workers : Src(v) # s
        /\ \A t \in Sources : t # s => record'[t] = record[t]
    BY <1>1, <1>t, <2>1 DEF BeginMoves, Opens, Src, LayersOK
  <2>3. OnePer'
    BY <2>2 DEF PhaseInv, OnePer, Busy, Src, Others
  <2>4. \A v \in Workers : v # w => Phase(v)'
    <3>1. \A v \in Workers : Busy(v) => Src(v) \in Sources
      BY <1>t DEF Shaped, LayersOK
    <3> QED
      BY <2>2, <3>1, PhaseKept DEF PhaseInv, Phases, Others
  <2>5. Phase(w)'
    BY <1>t, <2>1, <2>2 DEF BeginMoves, Opens, Phase, Src, LayersOK
  <2>6. Cached'
    <3>1. \A v \in Workers : worker[v].pc = "uncache" => worker'[v] = worker[v]
      BY <2>2 DEF Busy, Others
    <3>2. \A t \in Sources : t # s => record'[t] = record[t]
      BY <2>2
    <3>3. record'[s] = "none" => record[s] = "none" \/ worker'[w].pc = "uncache"
      BY <1>t, <2>1 DEF BeginMoves, Opens, LayersOK
    <3> QED
      BY <2>2, <3>1, <3>2, <3>3 DEF PhaseInv, Cached, Src
  <2> QED
    BY <2>3, <2>4, <2>5, <2>6 DEF PhaseInv, Phases
<1>2. ASSUME NEW w \in Workers, Continues(w), "source" \notin clashes' PROVE PhaseInv'
  <2>0. /\ Src(w) \in Sources /\ Src(w) \in used /\ worker[w] \in Work
        /\ "source" \notin clashes /\ Phase(w) /\ Shaped(w) /\ Busy(w) /\ Others(w)
        /\ crashes' = crashes
    BY <1>t, <1>2, ContinueSteps, ContinueKeeps DEF PhaseInv, Phases
  <2>1. OnePer'
    <3>1. \A v, u \in Workers : Busy(v) /\ Busy(u) /\ Src(v) = Src(u) => v = u
      BY <2>0 DEF PhaseInv, OnePer
    <3>2. \A v \in Workers : Busy(v)' => Busy(v) /\ Src(v)' = Src(v)
      BY <1>2, <2>0, ContinueKeeps DEF Others, Busy, Src
    <3> QED
      BY <3>1, <3>2 DEF OnePer
  <2>2. \A v \in Workers : v # w => Phase(v)'
    <3>1. \A v \in Workers : v # w /\ Busy(v) => Src(v) \in Sources /\ Src(v) # Src(w)
      BY <1>t, <2>0 DEF PhaseInv, OnePer, Shaped, LayersOK
    <3>2. \A t \in Sources : t # Src(w) => record'[t] = record[t] /\ mirror'[t] = mirror[t]
      BY <1>2, ContinueKeeps
    <3> QED
      BY <2>0, <3>1, <3>2, PhaseKept DEF PhaseInv, Phases, Others
  <2>3. ASSUME Moves(w, "unmark") \/ Stops(w) PROVE Phase(w)'
    BY <2>3, IdleType DEF Moves, Stops, Phase
  <2>4. ASSUME mirror' = mirror, worker[w].pc # "uncache",
               record'[Src(w)] = "none" => record[Src(w)] = "none"
        PROVE  Cached'
    <3>1. \A t \in Sources : record'[t] = "none" => record[t] = "none"
      BY <1>2, <2>4, ContinueKeeps
    <3>2. \A v \in Workers : worker[v].pc = "uncache" => worker'[v] = worker[v]
      BY <2>0, <2>4 DEF Others
    <3> QED
      BY <2>0, <2>4, <3>1, <3>2 DEF PhaseInv, Cached, Src
  <2>5. CASE ScanMoves(w)
    <3>1. Phase(w)'
      BY <2>0, <2>3, <2>5 DEF ScanMoves, Moves, Phase, Src
    <3> QED
      BY <2>1, <2>2, <2>4, <2>5, <3>1 DEF ScanMoves, PhaseInv, Phases
  <2>6. CASE RecordMoves(w)
    <3>1. Phase(w)'
      <4>1. CASE Moves(w, "cache") /\ record'[Src(w)] = "on"
        BY <4>1 DEF Moves, Phase, Src
      <4>2. CASE worker[w].pc = "put" /\ Moves(w, "restore")
                 /\ record' = [record EXCEPT ![Src(w)] = "on"]
        BY <1>t, <2>0, <4>2 DEF Moves, Phase, Src, LayersOK
      <4>3. CASE worker[w].pc = "put" /\ Moves(w, "read") /\ ~Stops(w)
                 /\ record' = [record EXCEPT ![Src(w)] = "off"]
        <5>1. worker'[w].found = Nothing /\ record'[Src(w)] = "off"
          BY <1>t, <2>0, <2>6, <4>3 DEF RecordMoves, Moves, Phase, LayersOK
        <5> QED
          BY <4>3, <5>1 DEF Moves, Phase, Src, Want
      <4> QED
        BY <2>3, <2>6, <4>1, <4>2, <4>3 DEF RecordMoves
    <3>2. record'[Src(w)] = "none" => record[Src(w)] = "none"
      BY <1>t, <2>0, <2>6 DEF RecordMoves, LayersOK
    <3> QED
      BY <2>1, <2>2, <2>4, <2>6, <3>1, <3>2 DEF RecordMoves, PhaseInv, Phases
  <2>7. CASE CacheMoves(w)
    <3>1. PICK v \in Versions \cup {Nothing} :
            Install(Src(w), v) /\ v = worker[w].found
      BY <2>0, <2>7 DEF CacheMoves, Work, Phase
    <3>2. mirror'[Src(w)] = v /\ \A t \in Sources : t # Src(w) => mirror'[t] = mirror[t]
      BY <1>t, <2>0, <3>1, InstallStep
    <3>3. worker[w].pc = "cache" => record[Src(w)] = "on"
      BY <2>0 DEF Phase
    <3>4. worker[w].pc = "uncache" => record[Src(w)] = "none" /\ v = Nothing
      BY <2>0, <3>1 DEF Phase
    <3>5. record' = record /\ worker[w].pc \in {"cache", "uncache"} /\ Moves(w, "read")
          /\ worker'[w].found = v
      BY <2>7, <3>1 DEF CacheMoves
    <3>6. Want(Src(w))' = v /\ Src(w)' = Src(w)
      BY <3>2, <3>3, <3>4, <3>5 DEF Want, Src, Moves
    <3>7. Phase(w)'
      BY <3>5, <3>6 DEF Moves, Phase
    <3>8. Cached'
      <4>1. \A u \in Workers : Src(u) # Src(w) => worker'[u] = worker[u]
        BY <2>0 DEF Others
      <4>2. \A t \in Sources : record'[t] = "none" /\ mirror'[t] # Nothing =>
              t # Src(w) /\ record[t] = "none" /\ mirror[t] # Nothing
        BY <3>2, <3>3, <3>4, <3>5
      <4> QED
        BY <2>0, <4>1, <4>2 DEF PhaseInv, Cached, Src
    <3> QED
      BY <2>1, <2>2, <3>7, <3>8 DEF PhaseInv, Phases
  <2>8. CASE MarkMoves(w)
    <3>1. Phase(w)'
      BY <2>0, <2>3, <2>8 DEF MarkMoves, Moves, Phase, Src
    <3> QED
      BY <2>1, <2>2, <2>4, <2>8, <3>1 DEF MarkMoves, PhaseInv, Phases
  <2>9. CASE LookMoves(w)
    <3>1. Phase(w)'
      BY <2>0, <2>3, <2>9 DEF LookMoves, Moves, Phase, Src, Want, layers
    <3> QED
      BY <2>1, <2>2, <2>4, <2>9, <3>1 DEF LookMoves, PhaseInv, Phases, layers
  <2>10. CASE ReadMoves(w)
    <3>1. Phase(w)'
      BY <2>0, <2>10 DEF ReadMoves, Moves, Phase, Src, Want, layers
    <3> QED
      BY <2>1, <2>2, <2>4, <2>10, <3>1 DEF ReadMoves, PhaseInv, Phases, layers
  <2>11. CASE SwapMoves(w)
    <3>1. Phase(w)'
      BY <2>3, <2>11 DEF SwapMoves, Opens, Phase
    <3> QED
      BY <2>1, <2>2, <2>4, <2>11, <3>1 DEF SwapMoves, PhaseInv, Phases
  <2> QED
    BY <1>2, <2>5, <2>6, <2>7, <2>8, <2>9, <2>10, <2>11, ContinueSteps
<1>3. CASE Restart
  <2>1. (\A w \in Workers : worker'[w].pc = "idle") /\ crashes' # 0
    BY <1>3, <1>t, IdleType, FolderAssumption DEF Restart, LayersOK
  <2> QED
    BY <2>1 DEF PhaseInv, OnePer, Phases, Phase, Cached, Busy
<1>4. CASE UNCHANGED vars
  BY <1>4
     DEF vars, layers, history, PhaseInv, OnePer, Phases, Phase, Cached, Busy, Src, Want
<1>5. CASE "source" \in clashes'
  BY <1>5 DEF PhaseInv, OnePer, Phases, Cached
<1> QED
  BY <1>1, <1>2, <1>3, <1>4, <1>5 DEF Next

LEMMA PhaseInvInit == Init => PhaseInv
<1> SUFFICES ASSUME Init PROVE PhaseInv
  OBVIOUS
<1>1. \A w \in Workers : worker[w].pc = "idle"
  BY IdleType DEF Init
<1> QED
  BY <1>1 DEF Init, PhaseInv, OnePer, Phases, Phase, Cached, Busy

\* For any number of goroutines: operations on different sources, however they overlap,
\* never disturb each other's cached entries; until a restart a settled source is
\* cached only while it is configured (controller.go over cache.go).
THEOREM CacheKeepsToConfig == Spec => []CacheFollowsConfig
<1>1. Init => TypeInv /\ PhaseInv
  BY TypeInvInit, PhaseInvInit
<1>2. ASSUME TypeInv /\ PhaseInv, [Next]_vars PROVE (TypeInv /\ PhaseInv)'
  BY <1>2, TypeInvStep, PhaseInvStep
<1>3. TypeInv /\ PhaseInv => CacheFollowsConfig
  BY DEF PhaseInv, Cached, CacheFollowsConfig, Settled
<1> HIDE DEF TypeInv, PhaseInv
<1> QED
  BY <1>1, <1>2, <1>3, PTL DEF Spec

----------------------------------------------------------------------------
(* SearchFollowsConfig. Between the change of a record or of the cache and *)
(* the swap that follows it, one operation is responsible for the source;  *)
(* whoever rebuilds the index holds a copy that is still the index.        *)

Dirty == {"uncache", "restore", "read", "swap"}

Copies ==
  "provider" \notin clashes =>
    /\ \A v, w \in Workers : At(v, "swap") /\ At(w, "swap") => v = w
    /\ \A w \in Workers : At(w, "swap") => worker[w].kept = index

Shown ==
  clashes = {} => \A s \in Sources :
    (\A w \in Workers : Src(w) = s => worker[w].pc \notin Dirty) => index[s] = Want(s)

\* A clash of two rebuilds is recorded when the second takes its copy, and not forgotten.
LEMMA CopiesStep ==
  ASSUME TypeInv, Copies, [Next]_vars
  PROVE  Copies'
<1>1. ASSUME NEW w \in Workers, Begins(w) PROVE Copies'
  <2>1. PICK s \in Sources : BeginMoves(w, s)
    BY <1>1, BeginSteps
  <2>2. index' = index /\ Others(w) /\ worker'[w].pc # "swap"
        /\ ("provider" \in clashes => "provider" \in clashes')
    BY <2>1 DEF BeginMoves, Opens
  <2> QED
    BY <2>2 DEF Copies, At, Others
<1>2. ASSUME NEW w \in Workers, Continues(w) PROVE Copies'
  <2>1. ASSUME Others(w), worker'[w].pc # "swap", index' = index, UNCHANGED history
        PROVE  Copies'
    BY <2>1 DEF Copies, At, Others, history
  <2>2. CASE ScanMoves(w)
    BY <2>1, <2>2, IdleType DEF ScanMoves, Moves, Stops
  <2>3. CASE RecordMoves(w)
    BY <2>1, <2>3, IdleType DEF RecordMoves, Moves, Stops
  <2>4. CASE CacheMoves(w)
    BY <2>1, <2>4 DEF CacheMoves, Moves
  <2>5. CASE MarkMoves(w)
    BY <2>1, <2>5, IdleType DEF MarkMoves, Moves, Stops
  <2>6. CASE LookMoves(w)
    BY <2>1, <2>6, IdleType DEF LookMoves, Moves, Stops, layers
  <2>7. CASE ReadMoves(w)
    <3>1. Others(w) /\ worker'[w].kept = index /\ index' = index
      BY <2>7 DEF ReadMoves, Moves, layers
    <3>2. "provider" \notin clashes' =>
            "provider" \notin clashes /\ \A v \in Workers : ~At(v, "swap")
      BY <2>7 DEF ReadMoves
    <3> QED
      BY <3>1, <3>2 DEF Copies, At, Others
  <2>8. CASE SwapMoves(w)
    <3>1. Others(w) /\ worker'[w].pc # "swap" /\ At(w, "swap") /\ clashes' = clashes
      BY <2>8, IdleType DEF SwapMoves, Moves, Stops, Opens, history, At
    <3>2. "provider" \notin clashes' => \A v \in Workers : ~At(v, "swap")'
      BY <3>1 DEF Copies, At, Others
    <3> QED
      BY <3>2 DEF Copies
  <2> QED
    BY <1>2, <2>2, <2>3, <2>4, <2>5, <2>6, <2>7, <2>8, ContinueSteps
<1>3. CASE Restart
  BY <1>3, IdleType DEF Restart, Copies, At
<1>4. CASE UNCHANGED vars
  BY <1>4 DEF vars, layers, history, Copies, At
<1> QED
  BY <1>1, <1>2, <1>3, <1>4 DEF Next

LEMMA ShownStep ==
  ASSUME TypeInv, PhaseInv, Copies, Shown, [Next]_vars
  PROVE  Shown'
<1>t. LayersOK /\ worker \in [Workers -> Work] /\ \A v \in Workers : Shaped(v)
  BY TypeParts DEF TypeInv
<1>1. ASSUME NEW w \in Workers, Begins(w), clashes' = {} PROVE Shown'
  <2>1. PICK s \in Sources : BeginMoves(w, s)
    BY <1>1, BeginSteps
  <2>2. /\ clashes = {} /\ mirror' = mirror /\ index' = index /\ ~Busy(w)
        /\ Others(w) /\ Src(w)' = s
        /\ \A t \in Sources : t # s => record'[t] = record[t]
        /\ worker'[w].pc = "uncache" \/ record'[s] = record[s]
    BY <1>1, <1>t, <2>1 DEF BeginMoves, Opens, Src, LayersOK
  <2> SUFFICES ASSUME NEW t \in Sources,
                      \A v \in Workers : Src(v)' = t => worker'[v].pc \notin Dirty
               PROVE  index'[t] = Want(t)'
    BY DEF Shown
  <2>3. \A v \in Workers : Src(v) = t => worker[v].pc \notin Dirty
    BY <2>2 DEF Others, Busy, Dirty, Src
  <2>4. record'[t] = record[t]
    BY <2>2 DEF Dirty
  <2> QED
    BY <2>2, <2>3, <2>4 DEF Shown, Want
<1>2. ASSUME NEW w \in Workers, Continues(w), clashes' = {} PROVE Shown'
  <2>0. /\ Src(w) \in Sources /\ worker[w] \in Work /\ "source" \notin clashes
        /\ Busy(w) /\ Others(w) /\ (Busy(w)' => Src(w)' = Src(w))
        /\ \A t \in Sources : t # Src(w) => record'[t] = record[t] /\ mirror'[t] = mirror[t]
    BY <1>t, <1>2, ContinueSteps, ContinueKeeps
  <2>1. clashes = {}
    BY <1>2, ContinueSteps
       DEF ScanMoves, RecordMoves, CacheMoves, MarkMoves, LookMoves, ReadMoves, SwapMoves,
           history
  <2>2. Phase(w)
    BY <2>0 DEF PhaseInv, Phases
  <2>3. SwapMoves(w) => /\ worker[w].kept = index
                        /\ index' = [index EXCEPT ![Src(w)] = worker[w].found]
    BY <2>1 DEF SwapMoves, Copies, At
  <2>4. \A t \in Sources : t # Src(w) => index'[t] = index[t]
    <3>1. SwapMoves(w) \/ index' = index
      BY <1>2, ContinueSteps
         DEF ScanMoves, RecordMoves, CacheMoves, MarkMoves, LookMoves, ReadMoves, layers
    <3> QED
      BY <1>t, <2>3, <3>1 DEF LayersOK, Entries
  <2> SUFFICES ASSUME NEW t \in Sources,
                      \A v \in Workers : Src(v)' = t => worker'[v].pc \notin Dirty
               PROVE  index'[t] = Want(t)'
    BY DEF Shown
  <2>5. CASE t # Src(w)
    <3>1. \A v \in Workers : Src(v) = t => worker[v].pc \notin Dirty
      BY <2>0, <2>5 DEF Others, Src
    <3> QED
      BY <2>0, <2>1, <2>4, <2>5, <3>1 DEF Shown, Want
  <2>6. CASE t = Src(w)
    <3>1. ASSUME worker[w].pc \notin Dirty PROVE index[t] = Want(t)
      <4>1. \A v \in Workers : v # w /\ Src(v) = t => worker[v].pc = "idle"
        BY <2>0, <2>6 DEF PhaseInv, OnePer, Busy
      <4>2. \A v \in Workers : Src(v) = t => worker[v].pc \notin Dirty
        BY <3>1, <4>1 DEF Dirty
      <4> QED
        BY <2>1, <4>2 DEF Shown
    <3>2. worker'[w].pc \notin Dirty
      BY <2>0, <2>6 DEF Busy, Dirty
    <3>3. ASSUME worker[w].pc \notin Dirty, index' = index, mirror' = mirror,
                 record'[t] = record[t]
          PROVE  index'[t] = Want(t)'
      BY <3>1, <3>3 DEF Want
    <3>4. CASE ScanMoves(w)
      BY <3>3, <3>4 DEF ScanMoves, Dirty
    <3>5. CASE RecordMoves(w)
      <4>1. mirror' = mirror /\ index' = index /\ worker[w].pc \notin Dirty
        BY <3>5 DEF RecordMoves, Dirty
      <4>2. record'[t] = record[t] \/ (record'[t] = "on" /\ worker[w].pc = "save")
        BY <1>t, <2>6, <3>2, <3>5 DEF RecordMoves, Moves, LayersOK, Dirty
      <4>3. worker[w].pc = "save" => record[t] = "none" /\ mirror[t] = Nothing
        BY <1>t, <2>2, <2>6 DEF Phase, Shaped
      <4> QED
        BY <3>1, <4>1, <4>2, <4>3 DEF Want
    <3>6. CASE CacheMoves(w)
      BY <3>2, <3>6 DEF CacheMoves, Moves, Dirty
    <3>7. CASE MarkMoves(w)
      BY <3>3, <3>7 DEF MarkMoves, Dirty
    <3>8. CASE LookMoves(w)
      BY <3>2, <3>3, <3>8 DEF LookMoves, Moves, Dirty, layers
    <3>9. CASE ReadMoves(w)
      BY <3>2, <3>9 DEF ReadMoves, Moves, Dirty
    <3>10. CASE SwapMoves(w)
      <4>1. index'[t] = worker[w].found
        BY <1>t, <2>3, <2>6, <3>10 DEF LayersOK, Entries
      <4>2. worker[w].found = Want(t)
        BY <2>2, <2>6, <3>10 DEF Phase, SwapMoves
      <4>3. Want(t)' = Want(t)
        BY <3>10 DEF SwapMoves, Want
      <4> QED
        BY <4>1, <4>2, <4>3
    <3> QED
      BY <1>2, <3>4, <3>5, <3>6, <3>7, <3>8, <3>9, <3>10, ContinueSteps
  <2> QED
    BY <2>5, <2>6
<1>3. CASE Restart
  BY <1>3 DEF Restart, Shown, Want
<1>4. CASE UNCHANGED vars
  BY <1>4 DEF vars, layers, history, Shown, Src, Want
<1>5. CASE clashes' # {}
  BY <1>5 DEF Shown
<1> QED
  BY <1>1, <1>2, <1>3, <1>4, <1>5 DEF Next

\* For any number of goroutines and restarts: at rest, search shows exactly what the
\* cache has of the enabled sources, as long as neither two operations on one source nor
\* two rebuilds of the index have overlapped since the start (controller.go over
\* provider.go and cache.go).
THEOREM SearchKeepsToConfig == Spec => []SearchFollowsConfig
<1> DEFINE Inv == TypeInv /\ PhaseInv /\ Copies /\ Shown
<1>1. Init => Inv
  <2>1. Init => Copies /\ Shown
    BY IdleType DEF Init, Copies, Shown, At, Want
  <2> QED
    BY <2>1, TypeInvInit, PhaseInvInit
<1>2. ASSUME Inv, [Next]_vars PROVE Inv'
  BY <1>2, TypeInvStep, PhaseInvStep, CopiesStep, ShownStep
<1>3. Inv => SearchFollowsConfig
  BY DEF Shown, Want, SearchFollowsConfig, Agree, Settled
<1> HIDE DEF Inv
<1> QED
  BY <1>1, <1>2, <1>3, PTL DEF Spec

----------------------------------------------------------------------------
(* LayersActAsOne. What is in the hands of an operation that is about to   *)
(* be cached or saved was found by a scan of its own source.               *)

Own(w) ==
  /\ worker[w].pc = "save" => worker[w].found \in Trees[Src(w)] \cup {Nothing}
  /\ worker[w].pc = "cache" => worker[w].found \in Trees[Src(w)]
FoundOwn == \A w \in Workers : Own(w)

LEMMA FoundOwnStep ==
  ASSUME TypeInv, FoundOwn, [Next]_vars
  PROVE  FoundOwn'
<1>k. ASSUME NEW w \in Workers, Others(w), Own(w)' PROVE FoundOwn'
  BY <1>k DEF FoundOwn, Own, Src, Others
<1>1. ASSUME NEW w \in Workers, Begins(w) PROVE FoundOwn'
  <2>1. PICK s \in Sources : BeginMoves(w, s)
    BY <1>1, BeginSteps
  <2>2. Others(w) /\ Own(w)'
    BY <2>1 DEF BeginMoves, Opens, Own
  <2> QED
    BY <1>k, <2>2
<1>2. ASSUME NEW w \in Workers, Continues(w) PROVE FoundOwn'
  <2>0. Own(w)
    BY DEF FoundOwn
  <2>1. ASSUME Others(w), worker'[w].pc \notin {"save", "cache"} PROVE FoundOwn'
    BY <1>k, <2>1 DEF Own
  <2>2. CASE ScanMoves(w)
    <3>1. Others(w) /\ Own(w)'
      BY <2>2, IdleType DEF ScanMoves, Moves, Stops, Own, Src
    <3> QED
      BY <1>k, <3>1
  <2>3. CASE RecordMoves(w)
    <3>1. Others(w) /\ Own(w)'
      BY <2>0, <2>3, IdleType DEF RecordMoves, Moves, Stops, Own, Src
    <3> QED
      BY <1>k, <3>1
  <2>4. CASE CacheMoves(w)
    BY <2>1, <2>4 DEF CacheMoves, Moves
  <2>5. CASE MarkMoves(w)
    BY <2>1, <2>5, IdleType DEF MarkMoves, Moves, Stops
  <2>6. CASE LookMoves(w)
    BY <2>1, <2>6, IdleType DEF LookMoves, Moves, Stops
  <2>7. CASE ReadMoves(w)
    BY <2>1, <2>7 DEF ReadMoves, Moves
  <2>8. CASE SwapMoves(w)
    BY <2>1, <2>8, IdleType DEF SwapMoves, Moves, Stops, Opens
  <2> QED
    BY <1>2, <2>2, <2>3, <2>4, <2>5, <2>6, <2>7, <2>8, ContinueSteps
<1>3. CASE Restart
  BY <1>3, IdleType DEF Restart, FoundOwn, Own
<1>4. CASE UNCHANGED vars
  BY <1>4 DEF vars, FoundOwn, Own, Src
<1> QED
  BY <1>1, <1>2, <1>3, <1>4 DEF Next

\* A source is over whatever an operation does, as long as its record stays and an
\* addition neither begins nor ends.
LEMMA OverKept ==
  ASSUME NEW w \in Workers, Others(w), used' = used, record' = record,
         worker'[w].op = "add" <=> worker[w].op = "add",
         worker[w].op = "add" => worker'[w].src = worker[w].src
  PROVE  Over' = Over
<1>1. \A t : \A v \in Workers : (Src(v)' = t => worker'[v].op # "add")
                             <=> (Src(v) = t => worker[v].op # "add")
  BY DEF Others, Src
<1> QED
  BY <1>1 DEF Over

\* An operation begins: only the removal of a source changes what the layers say.
LEMMA PromiseBegins ==
  ASSUME TypeInv, NEW w \in Workers, Begins(w), "source" \notin clashes'
  PROVE  [Promise!Next]_Promise!vars
<1>t. LayersOK /\ worker \in [Workers -> Work] /\ Shaped(w)
  BY TypeParts DEF TypeInv
<1>1. PICK s \in Sources : BeginMoves(w, s)
  BY BeginSteps
<1>2. /\ worker[w].op = "none" /\ Others(w) /\ clashes' = clashes
      /\ UNCHANGED <<mirror, file, index>> /\ \A v \in Workers : Src(v) # s
  BY <1>t, <1>1, IdleType DEF BeginMoves, Opens, Shaped, Busy
<1>3. CASE Opens(w, "add", s, "scan") /\ s \notin used /\ used' = used \cup {s}
           /\ UNCHANGED record
  <2>1. Over' = Over
    <3>1. worker'[w].op = "add" /\ worker'[w].src = s
      BY <1>3 DEF Opens
    <3>2. \A t : t # s => \A v \in Workers : (Src(v)' = t => worker'[v].op # "add")
                                           <=> (Src(v) = t => worker[v].op # "add")
      BY <1>2, <3>1 DEF Others, Src
    <3>3. s \notin Over /\ s \notin Over'
      BY <1>3, <3>1 DEF Over, Src
    <3> QED
      BY <1>3, <3>2, <3>3 DEF Over
  <2> QED
    BY <1>2, <1>3, <2>1 DEF Promise!vars, Promise!config, Promise!cache
<1>4. CASE Opens(w, "remove", s, "uncache") /\ record[s] # "none"
           /\ record' = [record EXCEPT ![s] = "none"] /\ used' = used
  <2>1. Over' = Over \cup {s}
    <3>1. worker'[w].op = "remove" /\ s \in used
      BY <1>t, <1>4 DEF Opens, LayersOK
    <3>2. \A t : \A v \in Workers : (Src(v)' = t => worker'[v].op # "add")
                                <=> (Src(v) = t => worker[v].op # "add")
      BY <1>2, <3>1 DEF Others, Src
    <3>3. record'[s] = "none" /\ \A t \in Sources : t # s => record'[t] = record[t]
      BY <1>t, <1>4 DEF LayersOK
    <3>4. \A v \in Workers : Src(v) = s => worker[v].op # "add"
      BY <1>2
    <3>5. s \in Over'
      BY <1>4, <3>1, <3>2, <3>3, <3>4 DEF Over
    <3>6. \A t : t # s => (t \in Over' <=> t \in Over)
      BY <1>t, <1>4, <3>2, <3>3 DEF Over, LayersOK
    <3> QED
      BY <3>5, <3>6
  <2>2. Promise!Remove(s) /\ UNCHANGED clashes
    BY <1>2, <1>4, <2>1 DEF Promise!Remove, Promise!cache
  <2> QED
    BY <2>2 DEF Promise!Next, Promise!Operate
<1>5. CASE UNCHANGED <<used, record>>
           /\ \E op \in {"refresh", "enable", "disable"}, pc \in Pcs : Opens(w, op, s, pc)
  <2>1. Over' = Over
    BY <1>2, <1>5, OverKept DEF Opens
  <2> QED
    BY <1>2, <1>5, <2>1 DEF Promise!vars, Promise!config, Promise!cache
<1>p. "mark" \in Pcs /\ "put" \in Pcs
  BY DEF Pcs
<1> QED
  BY <1>1, <1>3, <1>4, <1>5, <1>p DEF BeginMoves

\* Installing entries in the cache is keeping them.
LEMMA InstallKeeps ==
  ASSUME NEW s, NEW v, Install(s, v), record' = record, Over' = Over, index' = index
  PROVE  Promise!Keep(s, v)
BY DEF Install, Promise!Keep, Promise!config

\* An operation goes on, alone on its source: each of its steps changes at most one
\* layer, to what the others say by then.
LEMMA PromiseContinues ==
  ASSUME TypeInv, PhaseInv, Copies, FoundOwn,
         NEW w \in Workers, Continues(w), "source" \notin clashes'
  PROVE  [Promise!Next]_Promise!vars
<1> DEFINE s == Src(w)
<1>t. LayersOK /\ worker \in [Workers -> Work] /\ Shaped(w) /\ Own(w)
  BY TypeParts DEF TypeInv, FoundOwn
<1>0. /\ s \in Sources /\ s \in used /\ Busy(w) /\ Others(w) /\ "source" \notin clashes
      /\ worker[w] \in Work
  BY <1>t, ContinueSteps, ContinueKeeps
<1>1. Phase(w)
  BY <1>0 DEF PhaseInv, Phases
<1>2. \A v \in Workers : v # w => ~Busy(v) \/ Src(v) # s
  BY <1>0 DEF PhaseInv, OnePer
<1>q. ASSUME UNCHANGED <<record, mirror, file, index, clashes>>, Over' = Over
      PROVE  [Promise!Next]_Promise!vars
  BY <1>q DEF Promise!vars, Promise!config, Promise!cache
<1>m. ASSUME NEW pc \in Pcs, Moves(w, pc), used' = used, record' = record
      PROVE  Over' = Over
  BY <1>m, OverKept DEF Moves
<1>i. ASSUME Stops(w), worker[w].op # "add", used' = used, record' = record
      PROVE  Over' = Over
  BY <1>i, OverKept, IdleType DEF Stops
<1>p. {"save", "cache", "unmark", "read", "restore", "mark", "scan", "get", "swap"} \subseteq Pcs
  BY DEF Pcs
<1>o. ASSUME UNCHANGED clashes,
             Promise!Toggle(s, "on") \/ Promise!Toggle(s, "off") \/ Promise!Configure(s)
               \/ Promise!Remove(s) \/ Promise!Show(s) \/ Promise!Scan(s) \/ Promise!Forget(s)
      PROVE  [Promise!Next]_Promise!vars
  BY <1>0, <1>o DEF Promise!Next, Promise!Operate
<1>3. CASE ScanMoves(w)
  <2>1. Over' = Over
    BY <1>m, <1>i, <1>p, <1>3 DEF ScanMoves
  <2> QED
    BY <1>q, <1>3, <2>1 DEF ScanMoves, history
<1>4. CASE RecordMoves(w)
  <2>0. UNCHANGED <<used, mirror, file, index, clashes>>
    BY <1>4 DEF RecordMoves, history
  <2>1. CASE worker[w].pc = "save"
    <3>1. /\ worker[w].op = "add" /\ record[s] = "none"
          /\ \E pc \in Pcs : Moves(w, pc)
      BY <1>t, <1>1, <1>4, <1>p, <2>1 DEF Shaped, Phase, RecordMoves
    <3>2. CASE record' = record
      BY <1>q, <1>m, <2>0, <3>1, <3>2
    <3>3. CASE record' # record
      <4>1. record' = [record EXCEPT ![s] = "on"]
        BY <1>4, <2>1, <3>3 DEF RecordMoves
      <4>2. record'[s] = "on" /\ \A r \in Sources : r # s => record'[r] = record[r]
        BY <1>t, <1>0, <4>1 DEF LayersOK
      <4>3. s \notin Over /\ s \notin Over'
        BY <3>1, <4>2 DEF Over
      <4>4. \A r : \A v \in Workers : (Src(v)' = r => worker'[v].op # "add")
                                    <=> (Src(v) = r => worker[v].op # "add")
        BY <1>0, <3>1 DEF Moves, Others, Src
      <4>5. \A r : r # s => (r \in Over' <=> r \in Over)
        BY <1>t, <2>0, <4>2, <4>4 DEF Over, LayersOK
      <4>6. Over' = Over
        BY <4>3, <4>5
      <4>7. Promise!Configure(s)
        BY <2>0, <3>1, <4>1, <4>3, <4>6 DEF Promise!Configure, Promise!cache
      <4> QED
        BY <1>o, <2>0, <4>7
    <3> QED
      BY <3>2, <3>3
  <2>2. CASE worker[w].pc = "put"
    <3>1. record[s] # "none" /\ worker[w].op # "add"
      BY <1>t, <1>1, <2>2 DEF Shaped, Phase
    <3>2. CASE UNCHANGED record
      <4>1. Stops(w) \/ \E pc \in Pcs : Moves(w, pc)
        BY <1>4, <1>p, <2>2 DEF RecordMoves
      <4>2. Over' = Over
        BY <1>i, <1>m, <2>0, <3>1, <3>2, <4>1
      <4> QED
        BY <1>q, <2>0, <3>2, <4>2
    <3>3. CASE record' # record
      <4>1. PICK state \in {"on", "off"} : record' = [record EXCEPT ![s] = state]
        BY <1>4, <2>2, <3>3 DEF RecordMoves
      <4>2. \E pc \in Pcs : Moves(w, pc)
        BY <1>4, <1>p, <2>2, <3>3 DEF RecordMoves
      <4>3. record'[s] # "none" /\ \A r \in Sources : r # s => record'[r] = record[r]
        BY <1>t, <1>0, <4>1 DEF LayersOK
      <4>4. \A r : \A v \in Workers : (Src(v)' = r => worker'[v].op # "add")
                                    <=> (Src(v) = r => worker[v].op # "add")
        BY <1>0, <4>2 DEF Moves, Others, Src
      <4>5. \A r : r \in Over' <=> r \in Over
        BY <1>t, <2>0, <3>1, <4>3, <4>4 DEF Over, LayersOK
      <4>6. Over' = Over
        BY <4>5
      <4>7. Promise!Toggle(s, state)
        BY <2>0, <3>1, <4>1, <4>6 DEF Promise!Toggle, Promise!cache
      <4> QED
        BY <1>o, <2>0, <4>7
    <3> QED
      BY <3>2, <3>3
  <2> QED
    BY <1>4, <2>1, <2>2 DEF RecordMoves
<1>5. CASE CacheMoves(w)
  <2>1. Over' = Over /\ UNCHANGED <<record, index, clashes>>
    BY <1>m, <1>p, <1>5 DEF CacheMoves, history
  <2>2. CASE worker[w].pc = "cache"
    <3>1. record[s] = "on" /\ worker[w].found \in Trees[s]
      BY <1>t, <1>1, <2>2 DEF Own, Phase
    <3>2. Promise!Keep(s, worker[w].found)
      BY <1>5, <2>1, <2>2, InstallKeeps DEF CacheMoves
    <3>3. Promise!Scan(s)
      BY <3>1, <3>2 DEF Promise!Scan
    <3> QED
      BY <1>o, <2>1, <3>3
  <2>3. CASE worker[w].pc # "cache"
    <3>1. record[s] = "none"
      BY <1>1, <1>5, <2>3 DEF Phase, CacheMoves
    <3>2. Promise!Keep(s, Nothing)
      BY <1>5, <2>1, <2>3, InstallKeeps DEF CacheMoves
    <3>3. Promise!Forget(s)
      BY <3>1, <3>2 DEF Promise!Forget
    <3> QED
      BY <1>o, <2>1, <3>3
  <2> QED
    BY <2>2, <2>3
<1>6. CASE MarkMoves(w)
  <2>0. UNCHANGED <<used, record, mirror, file, index, clashes>>
    BY <1>6 DEF MarkMoves, history
  <2>1. CASE worker[w].op # "add" \/ ~Stops(w)
    <3>1. Over' = Over
      BY <1>m, <1>i, <1>p, <1>6, <2>0, <2>1 DEF MarkMoves
    <3> QED
      BY <1>q, <2>0, <3>1
  <2>2. CASE worker[w].op = "add" /\ Stops(w) /\ record[s] # "none"
    <3>1. \A r : r # s => \A v \in Workers : (Src(v)' = r => worker'[v].op # "add")
                                          <=> (Src(v) = r => worker[v].op # "add")
      BY <1>0, <2>2, IdleType DEF Stops, Others, Src
    <3>2. Over' = Over
      BY <2>0, <2>2, <3>1 DEF Over
    <3> QED
      BY <1>q, <2>0, <3>2
  <2>3. CASE worker[w].op = "add" /\ Stops(w) /\ record[s] = "none"
    <3>1. \A r : r # s => \A v \in Workers : (Src(v)' = r => worker'[v].op # "add")
                                          <=> (Src(v) = r => worker[v].op # "add")
      BY <1>0, <2>3, IdleType DEF Stops, Others, Src
    <3>2. \A v \in Workers : Src(v)' = s => worker'[v].op # "add"
      <4>1. worker'[w].op # "add"
        BY <2>3, IdleType DEF Stops
      <4>2. ASSUME NEW v \in Workers, v # w, Src(v)' = s PROVE worker'[v].op # "add"
        <5>1. worker'[v] = worker[v] /\ ~Busy(v) /\ Shaped(v)
          BY <1>0, <1>2, <4>2 DEF Others, Src, TypeInv
        <5> QED
          BY <5>1, IdleType DEF Shaped
      <4> QED
        BY <4>1, <4>2
    <3>3. s \in Over'
      BY <1>0, <2>0, <2>3, <3>2 DEF Over
    <3>4. Over' = Over \cup {s}
      BY <2>0, <3>1, <3>3 DEF Over
    <3>5. record' = [record EXCEPT ![s] = "none"]
      BY <1>t, <2>0, <2>3 DEF LayersOK
    <3>6. Promise!Remove(s)
      BY <2>0, <3>4, <3>5 DEF Promise!Remove, Promise!cache
    <3> QED
      BY <1>o, <2>0, <3>6
  <2> QED
    BY <2>1, <2>2, <2>3
<1>7. CASE LookMoves(w)
  <2>1. worker[w].pc = "get" => worker[w].op = "refresh"
    BY <1>t DEF Shaped
  <2>2. Over' = Over
    BY <1>m, <1>i, <1>p, <1>7, <2>1 DEF LookMoves, layers
  <2> QED
    BY <1>q, <1>7, <2>2 DEF LookMoves, layers, history
<1>8. CASE ReadMoves(w)
  <2>1. Over' = Over /\ UNCHANGED <<record, mirror, file, index>>
    BY <1>m, <1>p, <1>8 DEF ReadMoves, layers
  <2>2. CASE clashes' = clashes
    BY <1>q, <2>1, <2>2
  <2>3. CASE clashes' = clashes \cup {"provider"}
    BY <2>1, <2>3 DEF Promise!Next, Promise!RebuildTwice, Promise!config, Promise!cache
  <2> QED
    BY <1>8, <2>2, <2>3 DEF ReadMoves
<1>9. CASE SwapMoves(w)
  <2>0. UNCHANGED <<used, record, mirror, file, clashes>>
    BY <1>9 DEF SwapMoves, history
  <2>1. Over' = Over
    <3>1. CASE worker[w].op = "enable"
      BY <1>0, <1>9, <2>0, <3>1, OverKept DEF SwapMoves, Opens
    <3>2. CASE worker[w].op # "enable"
      BY <1>m, <1>i, <1>p, <1>9, <2>0, <3>2 DEF SwapMoves
    <3> QED
      BY <3>1, <3>2
  <2>2. CASE "provider" \in clashes
    BY <2>0, <2>1, <2>2 DEF Promise!Next, Promise!ShowAny, Promise!config, Promise!cache
  <2>3. CASE "provider" \notin clashes
    <3>1. worker[w].kept = index
      BY <1>9, <2>3 DEF SwapMoves, Copies, At
    <3>2. worker[w].found = Want(s)
      BY <1>1, <1>9 DEF SwapMoves, Phase
    <3>3. index' = [index EXCEPT ![s] = Want(s)]
      BY <1>9, <3>1, <3>2 DEF SwapMoves
    <3>4. Want(s) = Promise!ToShow(mirror, s)
      BY DEF Want, Promise!ToShow
    <3>5. Promise!Show(s)
      BY <2>0, <2>1, <3>3, <3>4 DEF Promise!Show, Promise!config, Promise!cache
    <3> QED
      BY <1>o, <2>0, <3>5
  <2> QED
    BY <2>2, <2>3
<1> QED
  BY <1>3, <1>4, <1>5, <1>6, <1>7, <1>8, <1>9, ContinueSteps

\* A restart keeps the configuration and what was saved, whatever was in progress.
LEMMA PromiseRestarts ==
  ASSUME TypeInv, Restart
  PROVE  Promise!Restart
<1>1. Over \subseteq Over'
  <2>1. \A w \in Workers : worker'[w].op = "none"
    BY IdleType DEF Restart
  <2> QED
    BY <2>1 DEF Over, Restart
<1>2. \A s \in Over' : record[s] = "none"
  BY DEF Over, Restart
<1>3. index' = [s \in Sources |-> Promise!ToShow(file, s)]
  BY DEF Restart, Promise!ToShow
<1> QED
  BY <1>1, <1>2, <1>3 DEF Restart, Promise!Restart

LEMMA PromiseInit == Init => Promise!Init
BY DEF Init, Over, Promise!Init, Promise!Nowhere

\* Every step of the goroutines is a step of folder sources to the user, or no step.
LEMMA PromiseStep ==
  ASSUME TypeInv, PhaseInv, Copies, FoundOwn, [Next]_vars
  PROVE  [Promise!Next]_Promise!vars
<1>1. CASE "source" \in clashes'
  BY <1>1 DEF Promise!Next
<1>2. ASSUME NEW w \in Workers, Begins(w), "source" \notin clashes'
      PROVE  [Promise!Next]_Promise!vars
  BY <1>2, PromiseBegins
<1>3. ASSUME NEW w \in Workers, Continues(w), "source" \notin clashes'
      PROVE  [Promise!Next]_Promise!vars
  BY <1>3, PromiseContinues
<1>4. CASE Restart
  BY <1>4, PromiseRestarts DEF Promise!Next
<1>5. CASE UNCHANGED vars
  <2>1. Over' = Over
    BY <1>5 DEF vars, layers, Over, Src
  <2> QED
    BY <1>5, <2>1 DEF vars, layers, history, Promise!vars, Promise!config, Promise!cache
<1> QED
  BY <1>1, <1>2, <1>3, <1>4, <1>5 DEF Next

\* For any number of goroutines, sources and restarts: as long as no two operations
\* overlap on one source, the steps of the controller under three locks are those of
\* FolderSources, where an operation changes one layer at a time to what the others say
\* by then (controller.go over its store, cache.go and provider.go).
THEOREM LayersRefine == Spec => LayersActAsOne
<1> DEFINE Inv == TypeInv /\ PhaseInv /\ Copies /\ FoundOwn
<1>1. Init => Inv
  <2>1. Init => Copies /\ FoundOwn
    BY IdleType DEF Init, Copies, At, FoundOwn, Own
  <2> QED
    BY <2>1, TypeInvInit, PhaseInvInit
<1>2. ASSUME Inv, [Next]_vars PROVE Inv' /\ [Promise!Next]_Promise!vars
  BY <1>2, TypeInvStep, PhaseInvStep, CopiesStep, FoundOwnStep, PromiseStep
<1> HIDE DEF Inv
<1> QED
  BY <1>1, <1>2, PromiseInit, PTL DEF Spec, LayersActAsOne, Promise!Spec

=============================================================================
