----------------------- MODULE PluginInstaller_proofs -----------------------
(***************************************************************************)
(* Proofs about PluginInstaller, for any set of versions, any number of    *)
(* users and of restarts.                                                  *)
(***************************************************************************)
EXTENDS PluginInstaller, TLAPS, FiniteSetTheorems, WellFoundedInduction

Pcs == {"idle", "listing", "fetch", "replace", "removing", "promote", "pin", "write",
        "uninstall", "resolve", "source", "swap"}
Ops == {"none", "market", "local", "upgrade", "uninstall"}
Work == [pc : Pcs, op : Ops, ver : Versions \cup {None}, found : Install]

----------------------------------------------------------------------------
(* Version resolution.                                                     *)

\* A finite set of numbers that is not empty has a greatest element: of the
\* sets {k \in S : k > i} one is minimal by inclusion.
LEMMA HasGreatest ==
  ASSUME NEW S, S \subseteq Nat, S # {}, IsFiniteSet(S)
  PROVE  \E i \in S : \A j \in S : j <= i
<1> DEFINE Above(i) == {k \in S : k > i}
           Order == StrictSubsetOrdering(S)
           T == {Above(i) : i \in S}
<1>1. \A i \in S : Above(i) \in FiniteSubsetsOf(S)
  <2> SUFFICES ASSUME NEW i \in S PROVE Above(i) \in FiniteSubsetsOf(S)
    OBVIOUS
  <2>1. Above(i) \subseteq S
    OBVIOUS
  <2> HIDE DEF Above
  <2>2. IsFiniteSet(Above(i))
    BY <2>1, FS_Subset
  <2> QED
    BY <2>1, <2>2 DEF FiniteSubsetsOf
<1>2. IsWellFoundedOn(Order, FiniteSubsetsOf(S))
  BY FS_StrictSubsetOrderingWellFounded
<1>3. T \subseteq FiniteSubsetsOf(S) /\ T # {}
  BY <1>1
<1>4. PICK D \in T : \A E \in T : <<E, D>> \notin Order
  <2> HIDE DEF Order, T
  <2> QED
    BY <1>2, <1>3, WFMin
<1>5. PICK i \in S : D = Above(i)
  BY <1>4
<1>6. ASSUME NEW j \in S, j > i PROVE FALSE
  <2>1. Above(j) \subseteq Above(i) /\ j \in Above(i) /\ j \notin Above(j)
    <3>1. i \in Nat /\ j \in Nat /\ \A k \in S : k \in Nat
      OBVIOUS
    <3>2. \A k \in Above(j) : k \in Above(i)
      BY <3>1, <1>6
    <3>3. j \in Above(i) /\ j \notin Above(j)
      BY <3>1, <1>6
    <3> QED
      BY <3>2, <3>3
  <2>2. <<Above(j), Above(i)>> \in Order
    <3>1. Above(j) \in SUBSET S /\ Above(i) \in SUBSET S
      OBVIOUS
    <3> HIDE DEF Above
    <3> QED
      BY <3>1, <2>1 DEF StrictSubsetOrdering
  <2> QED
    BY <2>2, <1>4, <1>5
<1> QED
  BY <1>6

\* There are finitely many version directories, however many versions the
\* plugin may have: the highest exists.
FewTrees == IsFiniteSet({v \in Versions : tree[v] # "none"})

\* ResolveVersionDir finds the pinned version, or the highest there is, or that
\* there is none.
LEMMA ResolvedFinds ==
  ASSUME TypeOK, FewTrees
  PROVE  /\ Resolved \in Versions \cup {None}
         /\ Resolved # None => HasManifest(Resolved)
         /\ pin.ver \in Versions /\ HasManifest(pin.ver) => Resolved = pin.ver
         /\ ~(pin.ver \in Versions /\ HasManifest(pin.ver)) =>
              \A v \in Versions : HasManifest(v) => Resolved # None /\ v <= Resolved
<1> DEFINE there == {v \in Versions : HasManifest(v)}
<1>1. Resolved = IF pin.ver \in there THEN pin.ver
                 ELSE IF there = {} THEN None
                 ELSE CHOOSE v \in there : \A u \in there : u <= v
  BY DEF Resolved
<1>2. there \subseteq Versions /\ there \subseteq Nat /\ None \notin there
  BY InstallerAssumption
<1>3. IsFiniteSet(there)
  <2>1. there \subseteq {v \in Versions : tree[v] # "none"}
    BY DEF HasManifest
  <2> HIDE DEF there
  <2> QED
    BY <2>1, FS_Subset DEF FewTrees
<1>4. \A v \in Versions : v \in there <=> HasManifest(v)
  OBVIOUS
<1> HIDE DEF there
<1>5. there # {} => \E v \in there : \A u \in there : u <= v
  BY <1>2, <1>3, HasGreatest
<1>6. CASE pin.ver \in there
  BY <1>1, <1>2, <1>4, <1>6
<1>7. CASE pin.ver \notin there
  <2>1. CASE there = {}
    BY <1>1, <1>2, <1>4, <1>7, <2>1
  <2>2. CASE there # {}
    <3>1. Resolved \in there /\ \A u \in there : u <= Resolved
      BY <1>1, <1>5, <1>7, <2>2
    <3> QED
      BY <3>1, <1>2, <1>4, <1>7
  <2> QED
    BY <2>1, <2>2
<1> QED
  BY <1>6, <1>7

\* What is loaded from the directory is nothing, or a version of it.
LEMMA LoadOfType ==
  ASSUME TypeOK, FewTrees
  PROVE  LoadOf \in Install /\ Nothing \in Install
<1>1. Resolved \in Versions \cup {None}
  BY ResolvedFinds
<1>2. pin.source \in {"market", "local"}
  BY DEF TypeOK, Install, Sources
<1> QED
  BY <1>1, <1>2 DEF LoadOf, Nothing, Install, Sources

\* Both depend on the disk only.
LEMMA SameDisk ==
  ASSUME tree' = tree, pin' = pin
  PROVE  LoadOf' = LoadOf /\ Loadable' = Loadable /\ Resolved' = Resolved
<1> DEFINE Of(t, p) ==
             LET there == {v \in Versions : t[v] \in {"whole", "half"}}
             IN  IF p.ver \in there THEN p.ver
                 ELSE IF there = {} THEN None
                 ELSE CHOOSE v \in there : \A u \in there : u <= v
<1>1. Resolved = Of(tree, pin) /\ Resolved' = Of(tree', pin')
  BY DEF Resolved, HasManifest
<1> HIDE DEF Of
<1>2. Resolved' = Resolved
  BY <1>1
<1> QED
  BY <1>2 DEF LoadOf, Loadable

----------------------------------------------------------------------------
(* What a step leaves of its worker, and the types that go with it.        *)

Others(w) == \A u \in Workers : u # w => worker'[u] = worker[u]

\* A worker with nothing to do.
LEMMA IdleType ==
  /\ Idle \in Work /\ Idle.pc = "idle" /\ Idle.op = "none" /\ Nothing \in Install
  /\ Nothing.ver = None /\ Nothing.source = "local"
BY DEF Idle, Work, Pcs, Ops, Nothing, Install, Sources

\* The operation goes on to its next step.
LEMMA GotoStep ==
  ASSUME worker \in [Workers -> Work], NEW w \in Workers, NEW pc \in Pcs, Goto(w, pc)
  PROVE  /\ worker' \in [Workers -> Work] /\ Others(w)
         /\ worker'[w].pc = pc /\ worker'[w].op = worker[w].op
         /\ worker'[w].ver = worker[w].ver
<1> DEFINE c == [worker[w] EXCEPT !.pc = pc]
<1>1. worker[w] \in Work
  OBVIOUS
<1>2. c \in Work /\ c.pc = pc /\ c.op = worker[w].op /\ c.ver = worker[w].ver
  BY <1>1 DEF Work
<1>3. worker' = [worker EXCEPT ![w] = c]
  BY DEF Goto
<1> HIDE DEF c
<1> QED
  BY <1>2, <1>3 DEF Others

\* The operation is over.
LEMMA EndsStep ==
  ASSUME worker \in [Workers -> Work], NEW w \in Workers, Ends(w)
  PROVE  /\ worker' \in [Workers -> Work] /\ Others(w)
         /\ worker'[w].pc = "idle" /\ worker'[w].op = "none"
BY IdleType DEF Ends, Others

\* An operation begins at its first step.
LEMMA StartsStep ==
  ASSUME worker \in [Workers -> Work], NEW w \in Workers, NEW op \in Ops,
         NEW v \in Versions \cup {None}, NEW pc \in Pcs, Starts(w, op, v, pc)
  PROVE  /\ worker' \in [Workers -> Work] /\ Others(w)
         /\ worker'[w].pc = pc /\ worker'[w].op = op /\ worker'[w].ver = v
<1> DEFINE c == [Idle EXCEPT !.pc = pc, !.op = op, !.ver = v]
<1>1. c \in Work /\ c.pc = pc /\ c.op = op /\ c.ver = v
  BY IdleType DEF Idle, Work, Install, Nothing
<1>2. worker' = [worker EXCEPT ![w] = c]
  BY DEF Starts
<1> HIDE DEF c
<1> QED
  BY <1>1, <1>2 DEF Others

\* The auto-upgrade has decided, and fetches the version.
LEMMA DecidesStep ==
  ASSUME worker \in [Workers -> Work], NEW v \in Versions, Decides(v)
  PROVE  /\ worker' \in [Workers -> Work] /\ Others(Upgrader)
         /\ worker'[Upgrader].pc = "fetch" /\ worker'[Upgrader].op = "upgrade"
         /\ worker'[Upgrader].ver = v
<1> DEFINE c == [Idle EXCEPT !.pc = "fetch", !.op = "upgrade", !.ver = v]
<1>1. c \in Work /\ c.pc = "fetch" /\ c.op = "upgrade" /\ c.ver = v
  BY IdleType DEF Idle, Work, Install, Nothing, Pcs, Ops
<1>2. worker' = [worker EXCEPT ![Upgrader] = c] /\ Upgrader \in Workers
  BY DEF Decides, Workers
<1> HIDE DEF c
<1> QED
  BY <1>1, <1>2 DEF Others

\* The uninstallation has removed everything; an installation that was writing
\* the pin goes on without it.
LEMMA UninstalledStep ==
  ASSUME worker \in [Workers -> Work], NEW w \in Workers,
         worker' = [u \in Workers |-> IF u = w \/ At(u, "write")
                                         THEN [worker[u] EXCEPT !.pc = "resolve"]
                                         ELSE worker[u]]
  PROVE  /\ worker' \in [Workers -> Work]
         /\ \A u \in Workers : /\ u # w /\ worker[u].pc # "write" => worker'[u] = worker[u]
                               /\ u = w \/ worker[u].pc = "write" =>
                                    /\ worker'[u].pc = "resolve"
                                    /\ worker'[u].op = worker[u].op
<1>1. ASSUME NEW u \in Workers
      PROVE  LET c == [worker[u] EXCEPT !.pc = "resolve"]
             IN  c \in Work /\ c.pc = "resolve" /\ c.op = worker[u].op
  <2>1. worker[u] \in Work /\ "resolve" \in Pcs
    BY DEF Pcs
  <2> QED
    BY <2>1 DEF Work
<1>2. \A u \in Workers : worker'[u] = IF u = w \/ worker[u].pc = "write"
                                         THEN [worker[u] EXCEPT !.pc = "resolve"]
                                         ELSE worker[u]
  BY DEF At
<1> QED
  BY <1>1, <1>2

\* LoadAll resolves the version.
LEMMA ResolvesStep ==
  ASSUME TypeOK, FewTrees, worker \in [Workers -> Work], NEW w \in Workers, Resolves(w)
  PROVE  /\ worker' \in [Workers -> Work] /\ Others(w)
         /\ worker'[w].pc = IF Loadable THEN "source" ELSE "swap"
         /\ worker'[w].op = worker[w].op
         /\ worker'[w].found = [ver |-> LoadOf.ver, source |-> "local"]
<1> DEFINE pc == IF Loadable THEN "source" ELSE "swap"
           f == [ver |-> LoadOf.ver, source |-> "local"]
           c == [worker[w] EXCEPT !.pc = pc, !.found = f]
<1>1. f \in Install /\ [Nothing EXCEPT !.ver = LoadOf.ver] = f
  BY LoadOfType DEF Install, Sources, Nothing
<1>2. pc \in Pcs /\ worker[w] \in Work
  BY DEF Pcs
<1>3. worker' = [worker EXCEPT ![w].pc = pc, ![w].found = f]
  BY <1>1 DEF Resolves
<1> HIDE DEF pc, f
<1>4. c \in Work /\ c.pc = pc /\ c.op = worker[w].op /\ c.found = f
  BY <1>1, <1>2 DEF Work
<1>5. worker' = [worker EXCEPT ![w] = c]
  BY <1>2, <1>3 DEF Work
<1> HIDE DEF c
<1> QED
  BY <1>4, <1>5 DEF Others, pc, f

\* LoadAll reads the pin a second time, for the source.
LEMMA ReadsSourceStep ==
  ASSUME TypeOK, worker \in [Workers -> Work], NEW w \in Workers, ReadsSource(w)
  PROVE  /\ worker' \in [Workers -> Work] /\ Others(w)
         /\ worker'[w].pc = "swap" /\ worker'[w].op = worker[w].op
         /\ worker'[w].found = [ver |-> worker[w].found.ver, source |-> pin.source]
<1> DEFINE f == [worker[w].found EXCEPT !.source = pin.source]
           c == [worker[w] EXCEPT !.pc = "swap", !.found = f]
<1>1. pin.source \in Sources /\ worker[w].found \in Install /\ "swap" \in Pcs
      /\ worker[w] \in Work
  BY DEF TypeOK, Install, Pcs, Work
<1>2. f \in Install /\ f = [ver |-> worker[w].found.ver, source |-> pin.source]
  BY <1>1 DEF Install
<1>3. worker' = [worker EXCEPT ![w] = c]
  BY <1>1 DEF ReadsSource, Work
<1> HIDE DEF f
<1>4. c \in Work /\ c.pc = "swap" /\ c.op = worker[w].op /\ c.found = f
  BY <1>1, <1>2 DEF Work
<1> HIDE DEF c
<1> QED
  BY <1>2, <1>3, <1>4 DEF Others

----------------------------------------------------------------------------
(* Types.                                                                  *)

AtWork == {"replace", "removing", "promote", "pin", "write"}

\* An installation knows its version; who does nothing has no operation, and who
\* changes the directory has one; the auto-upgrade only upgrades, and users do not.
Shaped(w) ==
  /\ worker[w].pc \in AtWork \cup {"fetch"} => worker[w].ver \in Versions
  /\ worker[w].pc \in {"idle", "listing"} => worker[w].op = "none"
  /\ worker[w].pc \in AtWork \cup {"uninstall"} => worker[w].op # "none"
  /\ w = Upgrader => worker[w].op \in {"none", "upgrade"} /\ worker[w].pc # "uninstall"
  /\ w \in Users => worker[w].op # "upgrade" /\ worker[w].pc \notin {"listing", "fetch"}

TypeInv ==
  /\ TypeOK
  /\ FewTrees
  /\ \A w \in Workers : Shaped(w)

LEMMA WorkersTyped ==
  ASSUME TypeOK
  PROVE  worker \in [Workers -> Work]
BY DEF TypeOK, Work, Pcs, Ops

\* What is left of a directory that is being removed.
LEMMA RemnantsType ==
  ASSUME NEW t \in Tree, t # "none"
  PROVE  /\ Remnants(t) \subseteq {"half", "bare"}
         /\ "half" \in Remnants(t) => t \in {"whole", "half"}
BY DEF Remnants, Tree

\* A step touches one version directory at most.
LEMMA TreeStep ==
  ASSUME TypeInv, [Next]_vars
  PROVE  \/ tree' = tree
         \/ \E v \in Versions, t \in Tree : tree' = [tree EXCEPT ![v] = t]
<1> USE DEF TypeInv, TypeOK, Shaped, AtWork, At, Ver, disk
<1>1. ASSUME NEW w \in Workers, Replaces(w)
      PROVE  \/ tree' = tree
             \/ \E v \in Versions, t \in Tree : tree' = [tree EXCEPT ![v] = t]
  <2>1. Ver(w) \in Versions
    BY <1>1 DEF Replaces
  <2>2. tree[Ver(w)] \in Tree
    BY <2>1
  <2>3. CASE tree[Ver(w)] = "none"
    BY <1>1, <2>3 DEF Replaces
  <2>4. CASE tree[Ver(w)] # "none"
    <3>1. PICK t \in Remnants(tree[Ver(w)]) : tree' = [tree EXCEPT ![Ver(w)] = t]
      BY <1>1, <2>4 DEF Replaces
    <3>2. t \in Tree
      BY <2>2, <2>4, <3>1, RemnantsType DEF Tree
    <3> QED
      BY <2>1, <3>1, <3>2
  <2> QED
    BY <2>3, <2>4
<1>2. ASSUME NEW w \in Workers, Removes(w)
      PROVE  \/ tree' = tree
             \/ \E v \in Versions, t \in Tree : tree' = [tree EXCEPT ![v] = t]
  BY <1>2 DEF Removes, Tree
<1>3. ASSUME NEW w \in Workers, Promotes(w)
      PROVE  \/ tree' = tree
             \/ \E v \in Versions, t \in Tree : tree' = [tree EXCEPT ![v] = t]
  BY <1>3 DEF Promotes, Tree
<1>4. ASSUME NEW w \in Workers, UninstallRemoves(w)
      PROVE  \/ tree' = tree
             \/ \E v \in Versions, t \in Tree : tree' = [tree EXCEPT ![v] = t]
  <2>1. CASE tree' = tree
    BY <2>1
  <2>2. CASE tree' # tree
    <3>1. PICK v \in Versions : /\ tree[v] # "none"
                                /\ \E t \in (Remnants(tree[v]) \cup {"none"}) \ {tree[v]} :
                                     tree' = [tree EXCEPT ![v] = t]
      BY <1>4, <2>2 DEF UninstallRemoves
    <3>2. PICK t \in Remnants(tree[v]) \cup {"none"} : tree' = [tree EXCEPT ![v] = t]
      BY <3>1
    <3>3. t \in Tree
      BY <3>1, <3>2, RemnantsType DEF Tree
    <3> QED
      BY <3>2, <3>3
  <2> QED
    BY <2>1, <2>2
<1> QED
  BY <1>1, <1>2, <1>3, <1>4
     DEF Next, vars, UserStarts, Continues, InstallStarts, UninstallStarts, UpgradeDecides,
         Decides, UpgradeStages, UpgradeEnds, OtherReloads, PinTruncates, PinWrites,
         UninstallEnds, Resolves, ReadsSource, Swaps,
         Restart

\* The workers are typed and keep their shape.
LEMMA WorkerStep ==
  ASSUME TypeInv, [Next]_vars
  PROVE  worker' \in [Workers -> Work] /\ \A w \in Workers : Shaped(w)'
<1> USE WorkersTyped DEF TypeInv
<1>w. Upgrader \in Workers /\ Upgrader \notin Users /\ Users \subseteq Workers
  BY InstallerAssumption DEF Workers
<1>1. ASSUME NEW w \in Users, NEW op \in Sources, NEW v \in Versions, InstallStarts(w, op, v)
      PROVE  worker' \in [Workers -> Work] /\ \A u \in Workers : Shaped(u)'
  <2>1. /\ worker' \in [Workers -> Work] /\ Others(w)
        /\ worker'[w].pc = "replace" /\ worker'[w].op = op /\ worker'[w].ver = v
    BY <1>1, <1>w, StartsStep DEF InstallStarts, Sources, Ops, Pcs
  <2> QED
    BY <2>1, <1>w DEF Shaped, Others, AtWork, Sources
<1>2. ASSUME NEW w \in Users, UninstallStarts(w)
      PROVE  worker' \in [Workers -> Work] /\ \A u \in Workers : Shaped(u)'
  <2>1. /\ worker' \in [Workers -> Work] /\ Others(w)
        /\ worker'[w].pc = "uninstall" /\ worker'[w].op = "uninstall"
    BY <1>2, <1>w, StartsStep DEF UninstallStarts, Ops, Pcs
  <2> QED
    BY <2>1, <1>w DEF Shaped, Others, AtWork
<1>3. CASE UpgradeStages
  <2>1. PICK v \in Versions : Starts(Upgrader, "upgrade", v, "replace")
    BY <1>3 DEF UpgradeStages
  <2>2. /\ worker' \in [Workers -> Work] /\ Others(Upgrader)
        /\ worker'[Upgrader].pc = "replace" /\ worker'[Upgrader].op = "upgrade"
        /\ worker'[Upgrader].ver = v
    BY <2>1, <1>w, StartsStep DEF Ops, Pcs
  <2> QED
    BY <2>2, <1>w DEF Shaped, Others, AtWork
<1>11. CASE UpgradeDecides
  <2>1. PICK v \in Versions : Decides(v)
    BY <1>11 DEF UpgradeDecides
  <2>2. /\ worker' \in [Workers -> Work] /\ Others(Upgrader)
        /\ worker'[Upgrader].pc = "fetch" /\ worker'[Upgrader].op = "upgrade"
        /\ worker'[Upgrader].ver = v
    BY <2>1, DecidesStep
  <2> QED
    BY <2>2, <1>w DEF Shaped, Others, AtWork
<1>12. ASSUME NEW w \in Workers, OtherReloads(w)
       PROVE  worker' \in [Workers -> Work] /\ \A u \in Workers : Shaped(u)'
  <2>1. /\ worker' \in [Workers -> Work] /\ Others(w)
        /\ worker'[w].pc = "resolve" /\ worker'[w].op = "none"
    BY <1>12, <1>w, StartsStep DEF OtherReloads, Ops, Pcs
  <2> QED
    BY <2>1, <1>w DEF Shaped, Others, AtWork
<1>4. ASSUME NEW w \in Workers, Ends(w)
      PROVE  worker' \in [Workers -> Work] /\ \A u \in Workers : Shaped(u)'
  BY <1>4, <1>w, EndsStep DEF Shaped, Others, AtWork
<1>5. ASSUME NEW w \in Workers, NEW pc \in AtWork \cup {"resolve"}, Goto(w, pc),
             worker[w].pc \in AtWork
      PROVE  worker' \in [Workers -> Work] /\ \A u \in Workers : Shaped(u)'
  <2>1. /\ worker' \in [Workers -> Work] /\ Others(w)
        /\ worker'[w].pc = pc /\ worker'[w].op = worker[w].op /\ worker'[w].ver = worker[w].ver
    BY <1>5, GotoStep DEF AtWork, Pcs
  <2> QED
    BY <2>1, <1>5, <1>w DEF Shaped, Others, AtWork
<1>6. ASSUME NEW w \in Workers, Replaces(w) \/ Removes(w) \/ Promotes(w) \/ PinTruncates(w)
                                \/ PinWrites(w)
      PROVE  worker' \in [Workers -> Work] /\ \A u \in Workers : Shaped(u)'
  <2>1. Ends(w) \/ \E pc \in AtWork \cup {"resolve"} : Goto(w, pc)
    BY <1>6 DEF Replaces, Removes, Promotes, PinTruncates, PinWrites, Fails, AtWork
  <2>2. worker[w].pc \in AtWork
    BY <1>6 DEF Replaces, Removes, Promotes, PinTruncates, PinWrites, At, AtWork
  <2> QED
    BY <2>1, <2>2, <1>4, <1>5
<1>7. ASSUME NEW w \in Workers, UninstallEnds(w)
      PROVE  worker' \in [Workers -> Work] /\ \A u \in Workers : Shaped(u)'
  <2>1. CASE Ends(w)
    BY <2>1, <1>4
  <2>2. CASE ~Ends(w)
    <3>1. worker' = [u \in Workers |-> IF u = w \/ At(u, "write")
                                          THEN [worker[u] EXCEPT !.pc = "resolve"]
                                          ELSE worker[u]]
      BY <2>2, <1>7 DEF UninstallEnds, Fails
    <3>2. /\ worker' \in [Workers -> Work]
          /\ \A u \in Workers : \/ worker'[u] = worker[u]
                                \/ worker'[u].pc = "resolve" /\ worker'[u].op = worker[u].op
      BY <3>1, UninstalledStep
    <3> QED
      BY <3>2, <1>w DEF Shaped, AtWork
  <2> QED
    BY <2>1, <2>2
<1>8. ASSUME NEW w \in Workers, Resolves(w) \/ ReadsSource(w)
      PROVE  worker' \in [Workers -> Work] /\ \A u \in Workers : Shaped(u)'
  <2>1. /\ worker' \in [Workers -> Work] /\ Others(w)
        /\ worker'[w].pc \in {"source", "swap"} /\ worker'[w].op = worker[w].op
    BY <1>8, ResolvesStep, ReadsSourceStep
  <2> QED
    BY <2>1, <1>w DEF Shaped, Others, AtWork
<1>9. CASE Restart
  <2>1. \A w \in Workers : worker'[w] = IF w = Upgrader THEN [Idle EXCEPT !.pc = "listing"]
                                                         ELSE Idle
    BY <1>9 DEF Restart
  <2>2. LET c == [Idle EXCEPT !.pc = "listing"]
        IN  c \in Work /\ c.pc = "listing" /\ c.op = "none"
    BY IdleType DEF Idle, Work, Pcs
  <2>3. worker' \in [Workers -> Work]
    BY <1>9, <2>2, IdleType DEF Restart
  <2> QED
    BY <2>1, <2>2, <2>3, <1>w, IdleType DEF Shaped, AtWork
<1>10. CASE worker' = worker
  BY <1>10 DEF Shaped
<1> QED
  BY <1>1, <1>2, <1>3, <1>4, <1>6, <1>7, <1>8, <1>9, <1>10, <1>11, <1>12, <1>w
     DEF Next, vars, UserStarts, Continues, UpgradeEnds, UninstallRemoves, Swaps

\* The directory, the pin, the table and the histories stay typed: nothing is
\* left in a directory that is gone, and nothing is written to it.
LEMMA DiskStep ==
  ASSUME TypeInv, [Next]_vars
  PROVE  /\ dir' \in BOOLEAN /\ pin' \in Install /\ loaded' \in Install
         /\ restarts' \in 0..MaxRestarts /\ faults' \subseteq {"overlap", "error"}
         /\ base' \in Versions \cup {None} /\ alone' \in BOOLEAN
         /\ ~dir' => pin' = Nothing /\ \A v \in Versions : tree'[v] = "none"
<1> DEFINE Typed == /\ dir' \in BOOLEAN /\ pin' \in Install /\ loaded' \in Install
                    /\ restarts' \in 0..MaxRestarts /\ faults' \subseteq {"overlap", "error"}
                    /\ base' \in Versions \cup {None} /\ alone' \in BOOLEAN
                    /\ ~dir' => pin' = Nothing /\ \A v \in Versions : tree'[v] = "none"
<1>t. /\ worker \in [Workers -> Work] /\ LoadOf \in Install /\ Nothing \in Install
      /\ tree \in [Versions -> Tree]
  BY WorkersTyped, LoadOfType DEF TypeInv, TypeOK
<1>1. ASSUME NEW w \in Workers, Replaces(w) PROVE Typed
  <2>1. worker[w].ver \in Versions
    BY <1>1 DEF TypeInv, Shaped, AtWork, Replaces, At
  <2>2. ~dir => tree' = tree
    BY <1>1, <2>1 DEF TypeInv, TypeOK, Replaces, Ver
  <2> QED
    BY <1>1, <2>2 DEF TypeInv, TypeOK, Replaces, history
<1>2. ASSUME NEW w \in Workers, Removes(w) PROVE Typed
  <2>1. \A v \in Versions : tree'[v] = tree[v] \/ tree'[v] = "none"
    BY <1>2, <1>t DEF Removes, Fails
  <2> QED
    BY <1>2, <2>1 DEF TypeInv, TypeOK, Removes, Fails, history
<1>3. ASSUME NEW w \in Workers, Promotes(w) PROVE Typed
  <2>1. dir' \in {dir, TRUE} /\ UNCHANGED <<pin, loaded, restarts, base, alone>>
        /\ faults' \subseteq faults \cup {"error"} /\ (tree' = tree \/ dir' = TRUE)
    BY <1>3 DEF Promotes, Fails, history
  <2>2. dir' \in BOOLEAN
    BY <2>1, Zenon DEF TypeInv, TypeOK
  <2>3. ~dir' => ~dir /\ tree' = tree
    BY <2>1, Zenon
  <2> QED
    BY <2>1, <2>2, <2>3 DEF TypeInv, TypeOK
<1>4. ASSUME NEW w \in Workers, PinTruncates(w) \/ PinWrites(w) PROVE Typed
  <2>1. LET p == [ver |-> Ver(w),
                  source |-> IF worker[w].op = "local" THEN "local" ELSE "market"]
        IN  p \in Install
    <3>1. Ver(w) \in Versions \cup {None}
      BY <1>t DEF Ver, Work
    <3> HIDE DEF Ver
    <3> QED
      BY <3>1 DEF Install, Sources
  <2> QED
    BY <1>4, <1>t, <2>1 DEF TypeInv, TypeOK, PinTruncates, PinWrites, history
<1>5. ASSUME NEW w \in Workers, UninstallRemoves(w) PROVE Typed
  <2>1. ~dir => tree' = tree
    BY <1>5 DEF TypeInv, TypeOK, UninstallRemoves
  <2> QED
    BY <1>5, <1>t, <2>1 DEF TypeInv, TypeOK, UninstallRemoves, history
<1>6. ASSUME NEW w \in Workers, UninstallEnds(w) PROVE Typed
  <2>1. /\ dir' = dir \/ (dir' = FALSE /\ pin = Nothing /\ \A v \in Versions : tree[v] = "none")
        /\ UNCHANGED <<tree, pin, loaded, restarts, base, alone>>
        /\ faults' \subseteq faults \cup {"error"}
    BY <1>6 DEF UninstallEnds, Fails, history
  <2>2. dir' \in BOOLEAN
    BY <2>1, Zenon DEF TypeInv, TypeOK
  <2> QED
    BY <2>1, <2>2 DEF TypeInv, TypeOK
<1>7. ASSUME NEW w \in Workers, Resolves(w) \/ ReadsSource(w) \/ Swaps(w) PROVE Typed
  <2>1. worker[w].found \in Install
    BY <1>t DEF Work
  <2> QED
    BY <1>7, <2>1 DEF TypeInv, TypeOK, Resolves, ReadsSource, Swaps, history, disk
<1>8. ASSUME NEW u \in Users, UserStarts(u) PROVE Typed
  BY <1>8 DEF TypeInv, TypeOK, UserStarts, InstallStarts, UninstallStarts, Starts, disk
<1>9. CASE UpgradeDecides
  <2>1. loaded.ver \in Versions \cup {None}
    BY DEF TypeInv, TypeOK, Install
  <2> QED
    BY <1>9, <2>1 DEF TypeInv, TypeOK, UpgradeDecides, Decides, disk
<1>13. CASE UpgradeStages
  BY <1>13 DEF TypeInv, TypeOK, UpgradeStages, Starts, disk
<1>14. CASE \E w \in Workers : OtherReloads(w)
  BY <1>14 DEF TypeInv, TypeOK, OtherReloads, Starts, disk
<1>10. CASE UpgradeEnds
  BY <1>10 DEF TypeInv, TypeOK, UpgradeEnds, disk, history
<1>11. CASE Restart
  <2>1. restarts' \in 0..MaxRestarts
    BY <1>11, InstallerAssumption DEF TypeInv, TypeOK, Restart
  <2> QED
    BY <1>11, <1>t, <2>1 DEF TypeInv, TypeOK, Restart, disk
<1>12. CASE UNCHANGED vars
  BY <1>12 DEF TypeInv, TypeOK, vars, disk, history
<1> QED
  BY <1>1, <1>2, <1>3, <1>4, <1>5, <1>6, <1>7, <1>8, <1>9, <1>10, <1>11, <1>12, <1>13, <1>14
     DEF Next, Continues

\* All of the types together.
LEMMA TypeInvStep ==
  ASSUME TypeInv, [Next]_vars
  PROVE  TypeInv'
<1>1. tree' \in [Versions -> Tree]
  BY TreeStep DEF TypeInv, TypeOK
<1>2. FewTrees'
  <2> DEFINE there == {v \in Versions : tree[v] # "none"}
  <2>1. IsFiniteSet(there)
    BY DEF TypeInv, FewTrees
  <2>2. PICK v : {u \in Versions : tree'[u] # "none"} \subseteq there \cup {v}
    BY TreeStep DEF TypeInv, TypeOK
  <2> HIDE DEF there
  <2>3. IsFiniteSet(there \cup {v})
    BY <2>1, FS_AddElement
  <2> QED
    BY <2>2, <2>3, FS_Subset DEF FewTrees
<1>3. worker' \in [Workers -> Work] /\ \A w \in Workers : Shaped(w)'
  BY WorkerStep
<1> QED
  BY <1>1, <1>2, <1>3, DiskStep DEF TypeInv, TypeOK, Work, Pcs, Ops

LEMMA TypeInvInit ==
  ASSUME Init
  PROVE  TypeInv
<1>w. Upgrader \in Workers /\ Upgrader \notin Users
  BY InstallerAssumption DEF Workers
<1>1. LET c == [Idle EXCEPT !.pc = "listing"]
      IN  c \in Work /\ c.pc = "listing" /\ c.op = "none"
  BY IdleType DEF Idle, Work, Pcs
<1>2. worker \in [Workers -> Work] /\ \A w \in Workers : Shaped(w)
  BY <1>w, <1>1, IdleType DEF Init, Shaped, AtWork
<1>3. FewTrees
  <2>1. {v \in Versions : tree[v] # "none"} = {}
    BY DEF Init
  <2> QED
    BY <2>1, FS_EmptySet DEF FewTrees
<1>4. tree \in [Versions -> Tree]
  BY DEF Init, Tree
<1>5. dir \in BOOLEAN /\ (~dir => pin = Nothing /\ \A v \in Versions : tree[v] = "none")
  BY DEF Init
<1>6. /\ pin \in Install /\ loaded \in Install /\ restarts \in 0..MaxRestarts
      /\ faults \subseteq {"overlap", "error"} /\ base \in Versions \cup {None}
  BY IdleType, InstallerAssumption DEF Init
<1>7. alone \in BOOLEAN
  BY DEF Init
<1> QED
  BY <1>2, <1>3, <1>4, <1>5, <1>6, <1>7 DEF TypeInv, TypeOK, Work, Pcs, Ops

\* Every reachable state of an installation is well typed: nothing is left in a
\* plugin directory that is gone, whatever the order of the steps.
THEOREM TypeCorrect == Spec => []TypeOK
<1>1. Init => TypeInv
  BY TypeInvInit
<1>2. ASSUME TypeInv, [Next]_vars PROVE TypeInv'
  BY <1>2, TypeInvStep
<1>3. TypeInv => TypeOK
  BY DEF TypeInv
<1> HIDE DEF TypeInv
<1> QED
  BY <1>1, <1>2, <1>3, PTL DEF Spec

----------------------------------------------------------------------------
(* InstalledLoads. Half a tree is in the hands of the operation that       *)
(* removes it, and a plugin directory has a whole tree unless an operation *)
(* is between removing and promoting one.                                  *)

Holds(w, v) == \/ worker[w].pc = "uninstall"
               \/ worker[w].pc = "removing" /\ worker[w].ver = v

HalfHeld == \A v \in Versions : tree[v] = "half" => \E w \in Workers : Holds(w, v)
WholeHeld == dir => \/ \E v \in Versions : tree[v] = "whole"
                    \/ \E w \in Workers : Removing(w)

\* It holds until a removal fails or is cut short.
HeldInv == "error" \notin faults => HalfHeld /\ WholeHeld

\* A step that touches no version directory, nor an operation that removes one.
LEMMA HeldKept ==
  ASSUME HeldInv, dir' = dir, tree' = tree, "error" \in faults => "error" \in faults',
         \A u \in Workers : Removing(u) => worker'[u] = worker[u]
  PROVE  HeldInv'
BY DEF HeldInv, HalfHeld, WholeHeld, Holds, Removing

LEMMA HeldStep ==
  ASSUME TypeInv, HeldInv, [Next]_vars
  PROVE  HeldInv'
<1>t. worker \in [Workers -> Work] /\ tree \in [Versions -> Tree]
  BY WorkersTyped DEF TypeInv, TypeOK
<1>w. Upgrader \in Workers /\ Users \subseteq Workers
  BY DEF Workers
<1> SUFFICES ASSUME "error" \notin faults' PROVE HalfHeld' /\ WholeHeld'
  BY DEF HeldInv
<1>1. ASSUME NEW w \in Workers, Replaces(w) PROVE HalfHeld' /\ WholeHeld'
  <2>1. worker[w].ver \in Versions /\ worker[w].pc = "replace"
    BY <1>1 DEF TypeInv, Shaped, AtWork, Replaces, At
  <2>2. HalfHeld /\ WholeHeld
    BY <1>1 DEF HeldInv, Replaces, history
  <2>3. CASE tree[worker[w].ver] = "none"
    <3>1. Others(w) /\ worker'[w].pc = "promote" /\ tree' = tree
      BY <1>1, <1>t, <2>3, GotoStep DEF Replaces, Ver, Pcs
    <3> QED
      BY <1>1, <2>1, <2>2, <3>1 DEF HalfHeld, WholeHeld, Holds, Removing, Others, Replaces
  <2>4. CASE tree[worker[w].ver] # "none"
    <3>1. Others(w) /\ worker'[w].pc = "removing" /\ worker'[w].ver = worker[w].ver
      BY <1>1, <1>t, <2>4, GotoStep DEF Replaces, Ver, Pcs
    <3>2. \A v \in Versions : v # worker[w].ver => tree'[v] = tree[v]
      BY <1>1, <1>t, <2>4 DEF Replaces, Ver
    <3> QED
      BY <2>1, <2>2, <3>1, <3>2 DEF HalfHeld, WholeHeld, Holds, Removing, Others
  <2> QED
    BY <2>3, <2>4
<1>2. ASSUME NEW w \in Workers, Removes(w) PROVE HalfHeld' /\ WholeHeld'
  <2>1. /\ tree' = [tree EXCEPT ![worker[w].ver] = "none"] /\ Goto(w, "promote")
        /\ "error" \notin faults /\ worker[w].pc = "removing"
    BY <1>2 DEF Removes, Fails, Ver, history, At
  <2>2. Others(w) /\ worker'[w].pc = "promote"
    BY <1>t, <2>1, GotoStep DEF Pcs
  <2>3. worker[w].ver \in Versions
    BY <2>1 DEF TypeInv, Shaped, AtWork
  <2> QED
    BY <1>t, <2>1, <2>2, <2>3 DEF HeldInv, HalfHeld, WholeHeld, Holds, Removing, Others
<1>3. ASSUME NEW w \in Workers, Promotes(w) PROVE HalfHeld' /\ WholeHeld'
  <2>1. /\ tree' = [tree EXCEPT ![worker[w].ver] = "whole"] /\ Goto(w, "pin")
        /\ "error" \notin faults /\ worker[w].pc = "promote"
    BY <1>3 DEF Promotes, Fails, Ver, history, At
  <2>2. Others(w) /\ worker'[w].pc = "pin"
    BY <1>t, <2>1, GotoStep DEF Pcs
  <2>3. worker[w].ver \in Versions
    BY <2>1 DEF TypeInv, Shaped, AtWork
  <2> QED
    BY <1>t, <2>1, <2>2, <2>3 DEF HeldInv, HalfHeld, WholeHeld, Holds, Others
<1>4. ASSUME NEW w \in Workers, UninstallRemoves(w) PROVE HalfHeld' /\ WholeHeld'
  <2>1. worker'[w].pc = "uninstall"
    BY <1>4 DEF UninstallRemoves, At
  <2> QED
    BY <2>1 DEF HalfHeld, WholeHeld, Holds, Removing
<1>5. ASSUME NEW w \in Workers, UninstallEnds(w) PROVE HalfHeld' /\ WholeHeld'
  <2>1. dir' = FALSE /\ tree' = tree /\ \A v \in Versions : tree[v] = "none"
    BY <1>5 DEF UninstallEnds, Fails
  <2> QED
    BY <2>1 DEF HalfHeld, WholeHeld
<1>6. ASSUME NEW w \in Workers, PinTruncates(w) \/ PinWrites(w) \/ Resolves(w)
                                \/ ReadsSource(w) \/ Swaps(w)
      PROVE  HalfHeld' /\ WholeHeld'
  <2>1. ~Removing(w)
    BY <1>6 DEF PinTruncates, PinWrites, Resolves, ReadsSource, Swaps, Removing, At
  <2>2. Others(w)
    BY <1>6, <1>t DEF PinTruncates, PinWrites, Resolves, ReadsSource, Swaps, Goto, Ends, Others
  <2>3. dir' = dir /\ tree' = tree /\ faults' = faults
    BY <1>6 DEF PinTruncates, PinWrites, Resolves, ReadsSource, Swaps, disk, history
  <2> QED
    BY <2>1, <2>2, <2>3, HeldKept DEF HeldInv, Others
<1>7. ASSUME NEW w \in Workers, NEW op, NEW v, NEW pc, Starts(w, op, v, pc),
             worker[w].pc \in {"idle", "fetch"}, UNCHANGED disk
      PROVE  HalfHeld' /\ WholeHeld'
  <2>1. Others(w) /\ ~Removing(w) /\ dir' = dir /\ tree' = tree
        /\ ("error" \in faults => "error" \in faults')
    BY <1>7, <1>t DEF Starts, Others, Removing, disk
  <2> QED
    BY <2>1, HeldKept DEF HeldInv, Others
<1>8. CASE UpgradeEnds
  <2>1. Others(Upgrader) /\ ~Removing(Upgrader) /\ dir' = dir /\ tree' = tree
        /\ ("error" \in faults => "error" \in faults')
    BY <1>8, <1>t DEF UpgradeEnds, Ends, Others, Removing, disk, history, At
  <2> QED
    BY <2>1, HeldKept DEF HeldInv, Others
<1>9. CASE Restart
  <2>1. (\A w \in Workers : ~Removing(w)) /\ "error" \notin faults /\ dir' = dir /\ tree' = tree
    BY <1>9 DEF Restart, disk
  <2> QED
    BY <2>1 DEF HeldInv, HalfHeld, WholeHeld, Holds, Removing
<1>10. CASE UNCHANGED vars
  BY <1>10, HeldKept DEF HeldInv, vars, disk, history
<1>11. CASE \E w \in Users : UserStarts(w)
  <2>1. PICK w \in Users : UserStarts(w)
    BY <1>11
  <2> QED
    BY <2>1, <1>7, <1>w DEF UserStarts, InstallStarts, UninstallStarts, At
<1>12. CASE UpgradeStages
  BY <1>12, <1>7, <1>w DEF UpgradeStages, At
<1>13. CASE \E w \in Workers : OtherReloads(w)
  BY <1>13, <1>7 DEF OtherReloads, At
<1>14. CASE UpgradeDecides
  <2>1. PICK v \in Versions : Decides(v)
    BY <1>14 DEF UpgradeDecides
  <2>2. Others(Upgrader) /\ ~Removing(Upgrader) /\ dir' = dir /\ tree' = tree
        /\ faults' = faults
    BY <1>14, <1>t, <2>1, DecidesStep DEF UpgradeDecides, Decides, Removing, disk, At
  <2> QED
    BY <2>2, HeldKept DEF HeldInv, Others
<1> QED
  BY <1>1, <1>2, <1>3, <1>4, <1>5, <1>6, <1>8, <1>9, <1>10, <1>11, <1>12, <1>13, <1>14
     DEF Next, Continues

\* A plugin directory that nobody works on holds a whole tree, and no half one
\* that the resolution could prefer.
LEMMA HeldLoads ==
  ASSUME TypeInv, HeldInv
  PROVE  InstalledLoads
<1> SUFFICES ASSUME Rest, "error" \notin faults, dir
             PROVE  Loadable
  BY DEF InstalledLoads
<1>1. \A v \in Versions : tree[v] # "half"
  BY DEF Rest, Busy, HeldInv, HalfHeld, Holds
<1>2. PICK v \in Versions : tree[v] = "whole"
  BY DEF Rest, Busy, HeldInv, WholeHeld, Removing
<1>3. HasManifest(v) /\ \A u \in Versions : u # None
  BY <1>2, InstallerAssumption DEF HasManifest
<1>4. Resolved # None
  BY <1>3, ResolvedFinds DEF TypeInv
<1>5. Resolved \in Versions /\ HasManifest(Resolved)
  BY <1>4, ResolvedFinds DEF TypeInv
<1> QED
  BY <1>1, <1>4, <1>5 DEF Loadable, HasManifest

\* Whatever installs, imports, upgrades and uninstalls overlap, with any number of
\* users: a plugin whose directory is there when they are done can be loaded, if no
\* removal failed or was cut short (installFromReader, ResolveVersionDir).
THEOREM InstalledPluginsLoad == Spec => []InstalledLoads
<1>1. Init => TypeInv /\ HeldInv
  BY TypeInvInit DEF Init, HeldInv, HalfHeld, WholeHeld
<1>2. ASSUME TypeInv /\ HeldInv, [Next]_vars PROVE (TypeInv /\ HeldInv)'
  BY <1>2, TypeInvStep, HeldStep
<1>3. TypeInv /\ HeldInv => InstalledLoads
  BY HeldLoads
<1> HIDE DEF TypeInv, HeldInv
<1> QED
  BY <1>1, <1>2, <1>3, PTL DEF Spec

----------------------------------------------------------------------------
(* LoadedIsInstalled. Until operations overlap one is at work at most, and *)
(* what it has in its hands is what the directory says.                    *)

OneBusy == "overlap" \notin faults => \A u, w \in Workers : Busy(u) /\ Busy(w) => u = w

\* An operation goes on alone, until operations overlap.
LEMMA Alone ==
  ASSUME TypeInv, OneBusy, "overlap" \notin faults, NEW w \in Workers, Continues(w)
  PROVE  /\ Busy(w) /\ Others(w)
         /\ \A u \in Workers : u # w => ~Busy(u) /\ ~Busy(u)'
         /\ faults' \in {faults, faults \cup {"error"}}
<1>1. worker \in [Workers -> Work]
  BY WorkersTyped DEF TypeInv
<1>2. Busy(w)
  BY DEF Continues, Busy, Replaces, Removes, Promotes, PinTruncates, PinWrites,
         UninstallRemoves, UninstallEnds, Resolves, ReadsSource, Swaps, At
<1>3. \A u \in Workers : u # w => ~Busy(u)
  BY <1>2 DEF OneBusy
<1>4. \A u \in Workers : u # w => worker[u].pc # "write"
  BY <1>3 DEF Busy
<1>5. Others(w)
  <2>1. CASE UninstallEnds(w)
    BY <1>1, <1>4, <2>1 DEF UninstallEnds, Fails, Ends, At, Others
  <2>2. CASE Resolves(w) \/ ReadsSource(w)
    BY <1>1, <2>2 DEF Resolves, ReadsSource, Others
  <2>3. CASE ~UninstallEnds(w) /\ ~Resolves(w) /\ ~ReadsSource(w)
    BY <1>1, <2>3 DEF Continues, Replaces, Removes, Promotes, PinTruncates, PinWrites,
       UninstallRemoves, Swaps, Fails, Ends, Goto, Others
  <2> QED
    BY <2>1, <2>2, <2>3
<1>6. faults' \in {faults, faults \cup {"error"}}
  BY DEF Continues, Replaces, Removes, Promotes, PinTruncates, PinWrites,
         UninstallRemoves, UninstallEnds, Resolves, ReadsSource, Swaps, Fails, history
<1> QED
  BY <1>2, <1>3, <1>5, <1>6 DEF Others, Busy

\* An operation that begins while nobody is at work is alone too.
LEMMA StartsAlone ==
  ASSUME TypeInv, NEW w \in Workers, NEW op \in Ops, NEW v \in Versions \cup {None},
         NEW pc \in Pcs, Starts(w, op, v, pc), "overlap" \notin faults'
  PROVE  /\ "overlap" \notin faults /\ faults' = faults
         /\ \A u \in Workers : ~Busy(u)
         /\ \A u \in Workers : u # w => ~Busy(u)' /\ worker'[u] = worker[u]
<1>1. worker \in [Workers -> Work]
  BY WorkersTyped DEF TypeInv
<1>2. faults' = faults /\ \A u \in Workers : ~Busy(u)
  BY DEF Starts
<1>3. Others(w)
  BY <1>1, StartsStep
<1> QED
  BY <1>2, <1>3 DEF Others, Busy

\* The ways a step begins an operation.
Begins == \/ \E u \in Users : UserStarts(u)
          \/ UpgradeStages
          \/ \E w \in Workers : OtherReloads(w)

LEMMA StartSteps ==
  ASSUME TypeInv, Begins
  PROVE  \E w \in Workers, op \in Ops, v \in Versions \cup {None}, pc \in Pcs :
           /\ Starts(w, op, v, pc) /\ pc \in {"replace", "uninstall", "resolve"}
           /\ UNCHANGED <<disk, loaded>>
<1>w. Upgrader \in Workers /\ Users \subseteq Workers
  BY DEF Workers
<1>1. CASE UpgradeStages
  BY <1>1, <1>w DEF UpgradeStages, Ops, Pcs
<1>2. ASSUME NEW u \in Users, NEW op \in Sources, NEW v \in Versions, InstallStarts(u, op, v)
      PROVE  Starts(u, op, v, "replace") /\ UNCHANGED <<disk, loaded>> /\ op \in Ops
  BY <1>2 DEF InstallStarts, Sources, Ops
<1>3. ASSUME NEW u \in Users, UninstallStarts(u)
      PROVE  Starts(u, "uninstall", None, "uninstall") /\ UNCHANGED <<disk, loaded>>
  BY <1>3 DEF UninstallStarts
<1>4. "replace" \in Pcs /\ "uninstall" \in Pcs /\ "uninstall" \in Ops
  BY DEF Pcs, Ops
<1>5. CASE \E w \in Workers : OtherReloads(w)
  BY <1>5 DEF OtherReloads, Ops, Pcs
<1> QED
  BY <1>1, <1>2, <1>3, <1>4, <1>5, <1>w DEF Begins, UserStarts

\* The auto-upgrade goes to fetch, or has finished before it stages anything: the
\* others, the directory and the manager are as they were.
LEMMA FetchSteps ==
  ASSUME TypeInv, UpgradeDecides \/ UpgradeEnds
  PROVE  /\ Others(Upgrader) /\ Upgrader \in Workers
         /\ ~Busy(Upgrader) /\ worker[Upgrader].pc \in {"listing", "fetch"}
         /\ worker'[Upgrader].pc \in {"idle", "fetch"}
         /\ UNCHANGED <<disk, loaded, faults>>
<1>w. Upgrader \in Workers /\ worker \in [Workers -> Work]
  BY WorkersTyped DEF Workers, TypeInv
<1>1. CASE UpgradeDecides
  <2>1. PICK v \in Versions : Decides(v)
    BY <1>1 DEF UpgradeDecides
  <2>2. Others(Upgrader) /\ worker'[Upgrader].pc = "fetch"
    BY <1>w, <2>1, DecidesStep
  <2> QED
    BY <1>1, <1>w, <2>1, <2>2 DEF UpgradeDecides, Decides, At, Busy
<1>2. CASE UpgradeEnds
  <2>1. Others(Upgrader) /\ worker'[Upgrader].pc = "idle"
    BY <1>2, <1>w, EndsStep DEF UpgradeEnds
  <2> QED
    BY <1>2, <1>w, <2>1 DEF UpgradeEnds, At, Busy, history
<1> QED
  BY <1>1, <1>2

\* Nobody is at work after a restart.
LEMMA RestartRests ==
  ASSUME Restart
  PROVE  \A w \in Workers : /\ ~Busy(w)' /\ worker'[w].pc \in {"idle", "listing"}
                            /\ worker'[w].op = "none"
<1>1. \A w \in Workers : worker'[w] = IF w = Upgrader THEN [Idle EXCEPT !.pc = "listing"]
                                                       ELSE Idle
  BY DEF Restart
<1> QED
  BY <1>1 DEF Idle, Busy

LEMMA OneBusyStep ==
  ASSUME TypeInv, OneBusy, [Next]_vars
  PROVE  OneBusy'
<1> SUFFICES ASSUME "overlap" \notin faults', NEW u \in Workers, NEW w \in Workers,
                    Busy(u)', Busy(w)'
             PROVE  u = w
  BY DEF OneBusy
<1>1. CASE Begins
  BY <1>1, StartSteps, StartsAlone
<1>2. CASE UpgradeDecides \/ UpgradeEnds
  <2>1. \A x \in Workers : Busy(x)' => Busy(x)
    BY <1>2, FetchSteps DEF Others, Busy
  <2> QED
    BY <1>2, <2>1, FetchSteps DEF OneBusy
<1>3. ASSUME NEW x \in Workers, Continues(x) PROVE u = w
  <2>1. CASE "overlap" \in faults
    BY <1>3, <2>1 DEF Continues, Replaces, Removes, Promotes, PinTruncates, PinWrites,
       UninstallRemoves, UninstallEnds, Resolves, ReadsSource, Swaps, Fails, history
  <2>2. CASE "overlap" \notin faults
    BY <1>3, <2>2, Alone
  <2> QED
    BY <2>1, <2>2
<1>4. CASE Restart
  BY <1>4, RestartRests
<1>5. CASE UNCHANGED vars
  BY <1>5 DEF vars, history, OneBusy, Busy
<1> QED
  BY <1>1, <1>2, <1>3, <1>4, <1>5 DEF Next, Begins

\* What a reload has read is still true when it swaps its table in.
Told == faults = {} =>
  /\ Rest => loaded = LoadOf
  /\ \A w \in Workers :
       /\ worker[w].pc = "source" => Loadable /\ worker[w].found.ver = LoadOf.ver
       /\ worker[w].pc = "swap" => worker[w].found = LoadOf

LEMMA ToldStep ==
  ASSUME TypeInv, OneBusy, Told, [Next]_vars
  PROVE  Told'
<1>t. worker \in [Workers -> Work] /\ LoadOf \in Install /\ Nothing \in Install
  BY WorkersTyped, LoadOfType DEF TypeInv
<1> SUFFICES ASSUME faults' = {}
             PROVE  /\ Rest' => loaded' = LoadOf'
                    /\ \A w \in Workers :
                         /\ worker'[w].pc = "source" =>
                              Loadable' /\ worker'[w].found.ver = LoadOf'.ver
                         /\ worker'[w].pc = "swap" => worker'[w].found = LoadOf'
  BY DEF Told
<1> DEFINE Goal == /\ Rest' => loaded' = LoadOf'
                   /\ \A w \in Workers :
                        /\ worker'[w].pc = "source" =>
                             Loadable' /\ worker'[w].found.ver = LoadOf'.ver
                        /\ worker'[w].pc = "swap" => worker'[w].found = LoadOf'
<1>1. CASE Begins
  <2>1. PICK w \in Workers, op \in Ops, v \in Versions \cup {None}, pc \in Pcs :
          Starts(w, op, v, pc) /\ pc \in {"replace", "uninstall", "resolve"}
    BY <1>1, StartSteps
  <2>2. worker'[w].pc = pc /\ Busy(w)'
    BY <1>t, <2>1, StartsStep DEF Busy
  <2>3. \A u \in Workers : u # w => ~Busy(u)'
    BY <2>1, StartsAlone
  <2> QED
    BY <2>1, <2>2, <2>3 DEF Rest, Busy
<1>2. CASE UpgradeDecides \/ UpgradeEnds
  <2>1. /\ LoadOf' = LoadOf /\ Loadable' = Loadable /\ loaded' = loaded /\ faults = {}
    BY <1>2, SameDisk, FetchSteps DEF disk
  <2>2. \A w \in Workers :
          /\ Busy(w) => Busy(w)'
          /\ worker'[w].pc \in {"source", "swap"} => worker'[w] = worker[w]
    BY <1>2, FetchSteps DEF Busy, Others
  <2> HIDE DEF Goal
  <2>3. /\ Rest => loaded = LoadOf
        /\ \A w \in Workers :
             /\ worker[w].pc = "source" => Loadable /\ worker[w].found.ver = LoadOf.ver
             /\ worker[w].pc = "swap" => worker[w].found = LoadOf
    BY <2>1 DEF Told
  <2>4. Rest' => loaded' = LoadOf'
    BY <2>1, <2>2, <2>3 DEF Rest
  <2>5. \A w \in Workers :
          /\ worker'[w].pc = "source" => Loadable' /\ worker'[w].found.ver = LoadOf'.ver
          /\ worker'[w].pc = "swap" => worker'[w].found = LoadOf'
    BY <2>1, <2>2, <2>3
  <2> QED
    BY <2>4, <2>5 DEF Goal
<1>3. ASSUME NEW w \in Workers, Continues(w) PROVE Goal
  <2>1. faults = {}
    BY <1>3 DEF Continues, Replaces, Removes, Promotes, PinTruncates, PinWrites,
       UninstallRemoves, UninstallEnds, Resolves, ReadsSource, Swaps, Fails, history
  <2>2. \A u \in Workers : u # w => ~Busy(u)'
    BY <1>3, <2>1, Alone
  <2>3. ASSUME Busy(w)', worker'[w].pc \notin {"source", "swap"} PROVE Goal
    BY <2>2, <2>3 DEF Rest, Busy
  <2>4. ASSUME NEW pc \in {"removing", "promote", "pin", "write", "resolve"}, Goto(w, pc)
        PROVE  Goal
    BY <1>t, <2>3, <2>4, GotoStep DEF Pcs, Busy
  <2>5. CASE Replaces(w) \/ Removes(w) \/ Promotes(w) \/ PinTruncates(w) \/ PinWrites(w)
    BY <2>4, <2>5 DEF Replaces, Removes, Promotes, PinTruncates, PinWrites, Fails
  <2>6. CASE UninstallRemoves(w)
    BY <2>3, <2>6 DEF UninstallRemoves, At, Busy
  <2>7. CASE UninstallEnds(w)
    <3>1. worker' = [u \in Workers |-> IF u = w \/ At(u, "write")
                                          THEN [worker[u] EXCEPT !.pc = "resolve"]
                                          ELSE worker[u]]
      BY <2>7 DEF UninstallEnds, Fails
    <3> QED
      BY <1>t, <2>3, <3>1, UninstalledStep DEF Busy
  <2>8. CASE Resolves(w)
    <3>1. /\ LoadOf' = LoadOf /\ Loadable' = Loadable
      BY <2>8, SameDisk DEF Resolves, disk
    <3>2. /\ worker'[w].pc = IF Loadable THEN "source" ELSE "swap"
          /\ worker'[w].found = [ver |-> LoadOf.ver, source |-> "local"]
      BY <1>t, <2>8, ResolvesStep DEF TypeInv
    <3>3. ~Loadable => LoadOf = [ver |-> LoadOf.ver, source |-> "local"]
      BY DEF LoadOf, Nothing
    <3> QED
      BY <2>2, <3>1, <3>2, <3>3 DEF Rest, Busy
  <2>9. CASE ReadsSource(w)
    <3>1. /\ LoadOf' = LoadOf /\ Loadable' = Loadable /\ worker[w].pc = "source"
      BY <2>9, SameDisk DEF ReadsSource, disk, At
    <3>2. /\ worker'[w].pc = "swap"
          /\ worker'[w].found = [ver |-> worker[w].found.ver, source |-> pin.source]
      BY <1>t, <2>9, ReadsSourceStep DEF TypeInv
    <3>3. Loadable /\ worker[w].found.ver = LoadOf.ver
      BY <2>1, <3>1 DEF Told
    <3>4. LoadOf = [ver |-> LoadOf.ver, source |-> pin.source]
      BY <3>3 DEF LoadOf
    <3> QED
      BY <2>2, <3>1, <3>2, <3>3, <3>4 DEF Rest, Busy
  <2>10. CASE Swaps(w)
    <3>1. /\ LoadOf' = LoadOf /\ loaded' = worker[w].found /\ worker[w].pc = "swap"
      BY <2>10, SameDisk DEF Swaps, disk, At
    <3>2. worker'[w].pc = "idle"
      BY <1>t, <2>10, EndsStep DEF Swaps
    <3>3. worker[w].found = LoadOf
      BY <2>1, <3>1 DEF Told
    <3> QED
      BY <2>2, <3>1, <3>2, <3>3 DEF Busy
  <2> QED
    BY <1>3, <2>5, <2>6, <2>7, <2>8, <2>9, <2>10 DEF Continues
<1>4. CASE Restart
  <2>1. LoadOf' = LoadOf /\ loaded' = LoadOf
    BY <1>4, SameDisk DEF Restart, disk
  <2> QED
    BY <1>4, <2>1, RestartRests
<1>5. CASE UNCHANGED vars
  <2>1. LoadOf' = LoadOf /\ Loadable' = Loadable
    BY <1>5, SameDisk DEF vars, disk
  <2> QED
    BY <1>5, <2>1 DEF vars, history, Told, Rest, Busy
<1> QED
  BY <1>1, <1>2, <1>3, <1>4, <1>5 DEF Next, Begins

\* At the start there is no directory, nothing is loaded and nobody is at work.
LEMMA RestInit ==
  ASSUME Init
  PROVE  /\ \A w \in Workers : worker[w].pc \in {"idle", "listing"}
         /\ loaded = LoadOf
<1>1. \A w \in Workers : worker[w] = IF w = Upgrader THEN [Idle EXCEPT !.pc = "listing"]
                                                      ELSE Idle
  BY DEF Init
<1>2. \A w \in Workers : worker[w].pc \in {"idle", "listing"}
  BY <1>1 DEF Idle
<1>3. ~Loadable
  <2>1. \A v \in Versions : ~HasManifest(v)
    BY DEF Init, HasManifest
  <2> QED
    BY <2>1, TypeInvInit, ResolvedFinds, InstallerAssumption DEF TypeInv, Loadable
<1> QED
  BY <1>2, <1>3 DEF LoadOf, Init

\* For any number of users and any sequence of operations and restarts without
\* overlaps and failed removals: at rest the manager runs the version, and knows the
\* source, that the directory says (Manager.load, LoadAll).
THEOREM LoadedStaysInstalled == Spec => []LoadedIsInstalled
<1> DEFINE Inv == TypeInv /\ OneBusy /\ Told
<1>1. Init => Inv
  <2> SUFFICES ASSUME Init PROVE OneBusy /\ Told
    BY TypeInvInit
  <2> QED
    BY RestInit DEF OneBusy, Told, Busy
<1>2. ASSUME Inv, [Next]_vars PROVE Inv'
  BY <1>2, TypeInvStep, OneBusyStep, ToldStep
<1>3. Inv => LoadedIsInstalled
  BY DEF Told, LoadedIsInstalled
<1> HIDE DEF Inv
<1> QED
  BY <1>1, <1>2, <1>3, PTL DEF Spec

----------------------------------------------------------------------------
(* UpgradeSparesLocal. Except between writing the pin and swapping its     *)
(* table in, the operation at work leaves a manager that says market only  *)
(* if the pin does not say local. So the pin is not local when an upgrade  *)
(* decides, and stays so while no user's operation begins: the reloads for *)
(* other plugins do not touch it.                                          *)

MarketPin == pin.ver = None \/ pin.source = "market"
Unpinned == {"replace", "removing", "promote", "pin", "uninstall"}

Spared == "overlap" \notin faults =>
  /\ (\A w \in Workers : Busy(w) => worker[w].pc \in Unpinned)
       /\ loaded.ver # None /\ loaded.source = "market" => MarketPin
  /\ \A w \in Workers :
       /\ worker[w].pc = "swap" /\ worker[w].found.source = "market" => MarketPin
       /\ worker[w].pc = "write" => pin = Nothing

LEMMA SparedStep ==
  ASSUME TypeInv, OneBusy, Spared, [Next]_vars
  PROVE  Spared'
<1>t. worker \in [Workers -> Work] /\ Nothing.ver = None /\ Nothing.source = "local"
  BY WorkersTyped, IdleType DEF TypeInv
<1>w. Upgrader \in Workers /\ Users \subseteq Workers /\ Upgrader \notin Users
  BY InstallerAssumption DEF Workers
<1> DEFINE Goal ==
      /\ (\A w \in Workers : Busy(w)' => worker'[w].pc \in Unpinned)
           /\ loaded'.ver # None /\ loaded'.source = "market" => MarketPin'
      /\ \A w \in Workers :
           /\ worker'[w].pc = "swap" /\ worker'[w].found.source = "market" => MarketPin'
           /\ worker'[w].pc = "write" => pin' = Nothing
<1> SUFFICES ASSUME "overlap" \notin faults' PROVE Goal
  BY DEF Spared
<1>1. CASE Begins
  <2>1. PICK w \in Workers, op \in Ops, v \in Versions \cup {None}, pc \in Pcs :
          /\ Starts(w, op, v, pc) /\ pc \in {"replace", "uninstall", "resolve"}
          /\ UNCHANGED <<disk, loaded>>
    BY <1>1, StartSteps
  <2>2. worker'[w].pc = pc
    BY <1>t, <2>1, StartsStep
  <2>3. /\ "overlap" \notin faults /\ \A u \in Workers : ~Busy(u)
        /\ \A u \in Workers : u # w => ~Busy(u)'
    BY <2>1, StartsAlone
  <2>4. loaded.ver # None /\ loaded.source = "market" => MarketPin
    BY <2>3 DEF Spared
  <2> QED
    BY <2>1, <2>2, <2>3, <2>4 DEF MarketPin, Busy, disk
<1>2. CASE UpgradeDecides \/ UpgradeEnds
  <2>1. Others(Upgrader) /\ worker'[Upgrader].pc \in {"idle", "fetch"} /\ ~Busy(Upgrader)
    BY <1>2, FetchSteps
  <2>2. UNCHANGED <<disk, loaded, faults>>
    BY <1>2, FetchSteps
  <2> QED
    BY <2>1, <2>2, <1>w DEF Spared, MarketPin, Busy, Others, disk
<1>3. ASSUME NEW w \in Workers, Continues(w) PROVE Goal
  <2>1. "overlap" \notin faults
    BY <1>3 DEF Continues, Replaces, Removes, Promotes, PinTruncates, PinWrites,
       UninstallRemoves, UninstallEnds, Resolves, ReadsSource, Swaps, Fails, history
  <2>2. \A u \in Workers : u # w => ~Busy(u) /\ ~Busy(u)'
    BY <1>3, <2>1, Alone
  <2>3. worker[w].pc \in Unpinned /\ loaded.ver # None /\ loaded.source = "market" => MarketPin
    BY <2>1, <2>2 DEF Spared
  <2>5. ASSUME worker'[w].pc \in Unpinned, worker[w].pc \in Unpinned, loaded' = loaded,
               MarketPin => MarketPin'
        PROVE  Goal
    BY <2>1, <2>2, <2>3, <2>5 DEF Busy, Unpinned, Spared
  <2>6. ASSUME worker'[w].pc \in {"write", "resolve", "source"},
               worker'[w].pc = "write" => pin' = Nothing
        PROVE  Goal
    BY <1>w, <2>2, <2>6 DEF Busy, Unpinned
  <2>7. ASSUME Fails(w), worker[w].pc \in Unpinned, loaded' = loaded, pin' = pin
        PROVE  Goal
    <3>1. worker'[w].pc = "idle"
      BY <1>t, <2>7, EndsStep DEF Fails
    <3> QED
      BY <1>w, <2>2, <2>3, <2>7, <3>1 DEF Busy, MarketPin
  <2>8. ASSUME NEW pc \in {"removing", "promote", "pin"}, Goto(w, pc), loaded' = loaded,
               worker[w].pc \in {"replace", "removing", "promote"}, pin' = pin
        PROVE  Goal
    <3>1. worker'[w].pc = pc /\ Others(w)
      BY <1>t, <2>8, GotoStep DEF Pcs
    <3> QED
      BY <2>5, <2>8, <3>1, <1>w DEF Unpinned, MarketPin, Others
  <2>9. CASE Replaces(w) \/ Removes(w) \/ Promotes(w)
    BY <2>7, <2>8, <2>9 DEF Replaces, Removes, Promotes, At, Unpinned
  <2>10. CASE PinTruncates(w) \/ PinWrites(w)
    <3>1. worker'[w].pc \in {"write", "resolve"} /\ (worker'[w].pc = "write" => pin' = Nothing)
      BY <1>t, <2>10, GotoStep DEF PinTruncates, PinWrites, Pcs
    <3> QED
      BY <2>6, <3>1
  <2>11. CASE UninstallRemoves(w)
    BY <1>t, <2>5, <2>11 DEF UninstallRemoves, Unpinned, MarketPin, At
  <2>12. CASE UninstallEnds(w)
    <3>1. CASE Fails(w)
      BY <2>7, <2>12, <3>1 DEF UninstallEnds, At, Unpinned
    <3>2. CASE ~Fails(w)
      <4>1. worker' = [u \in Workers |-> IF u = w \/ At(u, "write")
                                            THEN [worker[u] EXCEPT !.pc = "resolve"]
                                            ELSE worker[u]]
        BY <2>12, <3>2 DEF UninstallEnds
      <4>2. worker'[w].pc = "resolve"
        BY <1>t, <4>1, UninstalledStep
      <4> HIDE DEF Goal
      <4> QED
        BY <2>6, <4>2
    <3> QED
      BY <3>1, <3>2
  <2>13. CASE Resolves(w)
    <3>1. /\ worker'[w].pc \in {"source", "swap"}
          /\ worker'[w].found = [ver |-> LoadOf.ver, source |-> "local"]
      BY <1>t, <2>13, ResolvesStep DEF TypeInv
    <3> QED
      BY <1>w, <2>2, <3>1 DEF Busy, Unpinned
  <2>14. CASE ReadsSource(w)
    <3>1. /\ worker'[w].pc = "swap"
          /\ worker'[w].found = [ver |-> worker[w].found.ver, source |-> pin.source]
      BY <1>t, <2>14, ReadsSourceStep DEF TypeInv
    <3>2. pin' = pin
      BY <2>14 DEF ReadsSource, disk
    <3> QED
      BY <1>w, <2>2, <3>1, <3>2 DEF Busy, Unpinned, MarketPin
  <2>15. CASE Swaps(w)
    <3>1. worker'[w].pc = "idle" /\ loaded' = worker[w].found /\ pin' = pin
          /\ worker[w].pc = "swap"
      BY <1>t, <2>15, EndsStep DEF Swaps, disk, At
    <3>2. worker[w].found.source = "market" => MarketPin
      BY <2>1, <3>1 DEF Spared
    <3> QED
      BY <1>w, <2>2, <3>1, <3>2 DEF Busy, MarketPin
  <2> QED
    BY <1>3, <2>9, <2>10, <2>11, <2>12, <2>13, <2>14, <2>15 DEF Continues
<1>4. CASE Restart
  <2>1. loaded' = LoadOf /\ pin' = pin
    BY <1>4 DEF Restart, disk
  <2>2. LoadOf.source = "market" => pin.source = "market"
    BY <1>t DEF LoadOf
  <2> QED
    BY <1>4, <1>w, <2>1, <2>2, RestartRests DEF MarketPin
<1>5. CASE UNCHANGED vars
  BY <1>5 DEF vars, disk, history, Spared, MarketPin, Busy
<1> QED
  BY <1>1, <1>2, <1>3, <1>4, <1>5 DEF Next, Begins

\* While the upgrade has the plugin to itself the pin is not local.
AloneInv == alone =>
  /\ \A u \in Users : worker[u].op = "none"
  /\ worker[Upgrader].pc \in {"fetch", "replace", "removing", "promote", "pin"} => MarketPin
  /\ worker[Upgrader].pc = "write" => pin = Nothing

\* A user without an operation on the plugin only reloads.
LEMMA UserReloads ==
  ASSUME TypeInv, AloneInv, alone, NEW u \in Users, Continues(u)
  PROVE  /\ Resolves(u) \/ ReadsSource(u) \/ Swaps(u)
         /\ worker'[u].op = "none" /\ Others(u)
         /\ UNCHANGED <<disk, alone>>
<1>t. worker \in [Workers -> Work] /\ u \in Workers
  BY WorkersTyped DEF TypeInv, Workers
<1>1. worker[u].op = "none"
  BY DEF AloneInv
<1>2. worker[u].pc \notin AtWork \cup {"uninstall"}
  BY <1>t, <1>1 DEF TypeInv, Shaped
<1>3. Resolves(u) \/ ReadsSource(u) \/ Swaps(u)
  BY <1>2 DEF Continues, Replaces, Removes, Promotes, PinTruncates, PinWrites,
     UninstallRemoves, UninstallEnds, At, AtWork
<1>4. worker'[u].op = "none" /\ Others(u)
  BY <1>t, <1>1, <1>3, ResolvesStep, ReadsSourceStep, EndsStep DEF TypeInv, Swaps
<1>5. UNCHANGED <<disk, alone>>
  BY <1>3 DEF Resolves, ReadsSource, Swaps, history
<1> QED
  BY <1>3, <1>4, <1>5

LEMMA AloneStep ==
  ASSUME TypeInv, OneBusy, Spared, AloneInv, [Next]_vars
  PROVE  AloneInv'
<1>t. worker \in [Workers -> Work]
  BY WorkersTyped DEF TypeInv
<1>w. Upgrader \in Workers /\ Users \subseteq Workers /\ Upgrader \notin Users
      /\ Workers = Users \cup {Upgrader}
  BY InstallerAssumption DEF Workers
<1>1. CASE \E u \in Users : UserStarts(u)
  BY <1>1 DEF UserStarts, InstallStarts, UninstallStarts, AloneInv
<1>2. CASE UpgradeDecides
  <2> SUFFICES ASSUME alone' PROVE AloneInv'
    BY DEF AloneInv
  <2>1. PICK v \in Versions : Decides(v)
    BY <1>2 DEF UpgradeDecides
  <2>2. "overlap" \notin faults /\ \A u \in Users : ~Busy(u)
    BY <2>1 DEF Decides
  <2>3. Others(Upgrader) /\ worker'[Upgrader].pc = "fetch" /\ ~Busy(Upgrader)
        /\ pin' = pin /\ loaded.ver # None /\ loaded.source = "market"
    BY <1>2, <1>t, <2>1, DecidesStep, FetchSteps DEF UpgradeDecides, disk
  <2>4. MarketPin
    BY <1>w, <2>2, <2>3 DEF Spared
  <2>5. \A u \in Users : worker'[u].op = "none"
    BY <1>w, <2>2, <2>3 DEF Others, Busy, TypeInv, Shaped
  <2> QED
    BY <2>3, <2>4, <2>5 DEF AloneInv, MarketPin
<1>3. CASE UpgradeStages
  <2>1. PICK v \in Versions : Starts(Upgrader, "upgrade", v, "replace")
    BY <1>3 DEF UpgradeStages
  <2>2. Others(Upgrader) /\ worker'[Upgrader].pc = "replace"
    BY <1>t, <1>w, <2>1, StartsStep DEF Ops, Pcs
  <2> QED
    BY <1>3, <1>w, <2>2 DEF UpgradeStages, AloneInv, MarketPin, Others, At, disk
<1>4. CASE UpgradeEnds
  <2>1. Others(Upgrader) /\ worker'[Upgrader].pc = "idle"
    BY <1>4, <1>t, <1>w, EndsStep DEF UpgradeEnds
  <2> QED
    BY <1>4, <1>w, <2>1 DEF UpgradeEnds, AloneInv, Others, history
<1>5. ASSUME NEW w \in Workers, OtherReloads(w) PROVE AloneInv'
  <2>1. Others(w) /\ worker'[w].pc = "resolve" /\ worker'[w].op = "none"
    BY <1>5, <1>t, StartsStep DEF OtherReloads, Ops, Pcs
  <2> QED
    BY <1>5, <1>w, <2>1 DEF OtherReloads, AloneInv, MarketPin, Others, disk
<1>6. ASSUME NEW u \in Users, Continues(u) PROVE AloneInv'
  <2>1. alone' = alone
    BY <1>6 DEF Continues, Replaces, Removes, Promotes, PinTruncates, PinWrites,
       UninstallRemoves, UninstallEnds, Resolves, ReadsSource, Swaps, Fails, history
  <2> SUFFICES ASSUME alone PROVE AloneInv'
    BY <2>1 DEF AloneInv
  <2> QED
    BY <1>6, <1>w, UserReloads DEF AloneInv, MarketPin, Others, disk
<1>7. CASE Continues(Upgrader)
  <2>1. alone' = alone
    BY <1>7 DEF Continues, Replaces, Removes, Promotes, PinTruncates, PinWrites,
       UninstallRemoves, UninstallEnds, Resolves, ReadsSource, Swaps, Fails, history
  <2> SUFFICES ASSUME alone PROVE AloneInv'
    BY <2>1 DEF AloneInv
  <2>2. worker[Upgrader].pc # "uninstall"
    BY <1>w DEF TypeInv, Shaped
  <2>3. Others(Upgrader)
    BY <1>7, <1>t, <2>2 DEF Continues, Replaces, Removes, Promotes, PinTruncates, PinWrites,
       UninstallRemoves, UninstallEnds, Resolves, ReadsSource, Swaps, Fails, Goto, Ends,
       Others, At
  <2>4. ASSUME NEW pc \in {"removing", "promote", "pin"}, Goto(Upgrader, pc), pin' = pin,
               worker[Upgrader].pc \in {"replace", "removing", "promote"}
        PROVE  AloneInv'
    <3>1. worker'[Upgrader].pc = pc
      BY <1>t, <1>w, <2>4, GotoStep DEF Pcs
    <3> QED
      BY <1>w, <2>1, <2>3, <2>4, <3>1 DEF AloneInv, MarketPin, Others
  <2>5. ASSUME worker'[Upgrader].pc \in {"idle", "resolve", "source", "swap"}
        PROVE  AloneInv'
    BY <1>w, <2>1, <2>3, <2>5 DEF AloneInv, Others
  <2>6. CASE Replaces(Upgrader) \/ Removes(Upgrader) \/ Promotes(Upgrader)
    <3>1. CASE Fails(Upgrader)
      BY <1>t, <1>w, <2>5, <3>1, EndsStep DEF Fails
    <3> QED
      BY <2>4, <2>6, <3>1 DEF Replaces, Removes, Promotes, At
  <2>7. CASE PinTruncates(Upgrader)
    <3>1. \/ worker'[Upgrader].pc = "write" /\ pin' = Nothing
          \/ worker'[Upgrader].pc = "resolve"
      BY <1>t, <1>w, <2>7, GotoStep DEF PinTruncates, Pcs
    <3> QED
      BY <1>w, <2>1, <2>3, <2>5, <3>1 DEF AloneInv, Others
  <2>8. CASE PinWrites(Upgrader)
    BY <1>t, <1>w, <2>5, <2>8, GotoStep DEF PinWrites, Pcs
  <2>9. CASE Resolves(Upgrader) \/ ReadsSource(Upgrader) \/ Swaps(Upgrader)
    BY <1>t, <1>w, <2>5, <2>9, ResolvesStep, ReadsSourceStep, EndsStep DEF TypeInv, Swaps
  <2> QED
    BY <1>7, <2>2, <2>6, <2>7, <2>8, <2>9
       DEF Continues, UninstallRemoves, UninstallEnds, At
<1>8. CASE Restart
  BY <1>8 DEF Restart, AloneInv
<1>9. CASE UNCHANGED vars
  BY <1>9 DEF vars, disk, history, AloneInv, MarketPin
<1> QED
  BY <1>1, <1>2, <1>3, <1>4, <1>5, <1>6, <1>7, <1>8, <1>9, <1>w DEF Next

\* A step of the auto-upgrade that touches the pin finds it is not local.
LEMMA SparedHolds ==
  ASSUME TypeInv, AloneInv, Next, pin.ver # None, pin.source = "local",
         worker[Upgrader].op = "upgrade", pin' # pin
  PROVE  ~alone
<1> SUFFICES ASSUME alone PROVE FALSE
  OBVIOUS
<1>w. Upgrader \in Workers /\ Workers = Users \cup {Upgrader}
  BY DEF Workers
<1>1. PICK w \in Workers : Continues(w)
  BY DEF Next, UserStarts, InstallStarts, UninstallStarts, UpgradeDecides, Decides,
     UpgradeStages, UpgradeEnds, OtherReloads, Restart, disk
<1>2. w = Upgrader
  BY <1>1, <1>w, UserReloads DEF disk
<1>3. worker[w].pc \in {"pin", "write"}
  <2>1. worker[w].pc # "uninstall"
    BY <1>2, <1>w DEF TypeInv, Shaped
  <2> QED
    BY <1>1, <2>1 DEF Continues, Replaces, Removes, Promotes, PinTruncates, PinWrites,
       UninstallRemoves, UninstallEnds, Resolves, ReadsSource, Swaps, disk, At
<1>4. MarketPin \/ pin = Nothing
  BY <1>2, <1>3 DEF AloneInv
<1> QED
  BY <1>4, IdleType DEF MarketPin

\* "local plugins are never touched" (autoUpgradePlugins), for any number of users
\* and of reloads for other plugins, through failures and restarts: an upgrade
\* replaces the pin of a local plugin only if a user's operation was under way when
\* it decided or has begun since, in its download or its installation, or if it
\* decided after overlaps; although it decides by what the manager has loaded.
THEOREM LocalStaysSpared == Spec => UpgradeSparesLocal
<1> DEFINE Inv == TypeInv /\ OneBusy /\ Spared /\ AloneInv
           Touch == pin.ver # None /\ pin.source = "local" /\ worker[Upgrader].op = "upgrade"
                      /\ pin' # pin
<1>1. Init => Inv
  <2> SUFFICES ASSUME Init PROVE OneBusy /\ Spared /\ AloneInv
    BY TypeInvInit
  <2>1. Upgrader \in Workers /\ MarketPin
    BY IdleType DEF Init, Workers, MarketPin
  <2>2. AloneInv
    BY DEF Init, AloneInv
  <2> QED
    BY <2>1, <2>2, RestInit DEF OneBusy, Spared, Busy
<1>2. ASSUME Inv, [Next]_vars PROVE Inv'
  BY <1>2, TypeInvStep, OneBusyStep, SparedStep, AloneStep
<1>3. ASSUME Inv, [Next]_vars PROVE [Touch => ~alone]_vars
  BY <1>3, SparedHolds
<1> HIDE DEF Inv
<1> QED
  BY <1>1, <1>2, <1>3, PTL DEF Spec, UpgradeSparesLocal

----------------------------------------------------------------------------
(* RollbackSurvives. The version an upgrade started from is never touched, *)
(* and what the upgrade leaves half removed is not what the pin selects.   *)

Up == worker[Upgrader]

Reloads == {"idle", "resolve", "source", "swap"}

Untouched ==
  /\ \A u \in Users : worker[u].pc \in Reloads
  /\ tree[base] = "whole"
  /\ pin.ver \in Versions /\ HasManifest(pin.ver) => base <= pin.ver
  /\ \A v \in Versions : tree[v] = "half" => pin.ver = base
UpgradeInv ==
  /\ base < Up.ver
  /\ \A v \in Versions : v # Up.ver => tree[v] # "half"
  /\ Up.pc \in {"fetch", "replace", "removing"} /\ HasManifest(Up.ver) => pin.ver = base
  /\ Up.pc \in {"pin", "write"} => tree[Up.ver] = "whole"

Rollback == base # None => Untouched /\ (Up.pc \in AtWork \cup {"fetch"} => UpgradeInv)

\* An upgrade is decided on from a sound installation.
LEMMA UpgradeBegins ==
  ASSUME TypeInv, UpgradeDecides
  PROVE  Rollback'
<1> SUFFICES ASSUME base' # None PROVE Untouched' /\ UpgradeInv'
  BY DEF Rollback
<1>w. Upgrader \in Workers /\ Users \subseteq Workers /\ Upgrader \notin Users
  BY InstallerAssumption DEF Workers
<1>1. PICK v \in Versions : v > loaded.ver /\ Decides(v)
  BY DEF UpgradeDecides
<1>2. /\ Others(Upgrader) /\ worker'[Upgrader].pc = "fetch" /\ worker'[Upgrader].ver = v
  BY <1>1, WorkersTyped, DecidesStep DEF TypeInv
<1>4. Sound(v) /\ base' = loaded.ver
  BY <1>1 DEF Decides
<1>5. /\ \A u \in Users : ~Busy(u)
      /\ loaded = LoadOf /\ \A u \in Versions : u # v => tree[u] # "half"
  BY <1>4 DEF Sound
<1>6. Loadable /\ base' = Resolved
  BY <1>4, <1>5, IdleType DEF LoadOf
<1>7. /\ base' \in Versions /\ tree[base'] = "whole" /\ tree' = tree /\ pin' = pin
      /\ base' \in Nat /\ v \in Nat /\ \A u \in Versions : u \in Nat
  BY <1>1, <1>6, ResolvedFinds, InstallerAssumption
     DEF TypeInv, Loadable, Decides, disk
<1>8. pin.ver \in Versions /\ HasManifest(pin.ver) => pin.ver = base'
  BY <1>6, ResolvedFinds DEF TypeInv
<1>9. HasManifest(v) => pin.ver = base'
  <2> SUFFICES ASSUME HasManifest(v), pin.ver # base' PROVE FALSE
    OBVIOUS
  <2>1. v <= Resolved
    BY <1>8, ResolvedFinds DEF TypeInv
  <2> QED
    BY <2>1, <1>1, <1>4, <1>6, <1>7
<1>10. Untouched'
  <2>1. \A u \in Users : worker'[u].pc \in Reloads
    BY <1>2, <1>5, <1>w DEF Busy, Others, TypeInv, Shaped, Reloads
  <2> QED
    BY <2>1, <1>5, <1>7, <1>8, <1>9 DEF Untouched, HasManifest
<1>11. UpgradeInv'
  BY <1>1, <1>2, <1>4, <1>5, <1>7, <1>9 DEF UpgradeInv, Up, HasManifest
<1> QED
  BY <1>10, <1>11

LEMMA RollbackStep ==
  ASSUME TypeInv, Rollback, [Next]_vars
  PROVE  Rollback'
<1>t. worker \in [Workers -> Work] /\ tree \in [Versions -> Tree] /\ Nothing.ver = None
      /\ None \notin Versions /\ Versions \subseteq Nat
  BY WorkersTyped, IdleType, InstallerAssumption DEF TypeInv, TypeOK
<1>w. Upgrader \in Workers /\ Users \subseteq Workers /\ Upgrader \notin Users
      /\ Workers = Users \cup {Upgrader}
  BY InstallerAssumption DEF Workers
<1>1. CASE \E u \in Users : UserStarts(u)
  <2>1. base' = None
    BY <1>1 DEF UserStarts, InstallStarts, UninstallStarts
  <2> QED
    BY <2>1 DEF Rollback
<1>2. CASE UpgradeDecides
  BY <1>2, UpgradeBegins
<1>3. CASE UpgradeEnds
  <2>1. Others(Upgrader) /\ worker'[Upgrader].pc = "idle"
    BY <1>3, <1>t, <1>w, EndsStep DEF UpgradeEnds
  <2>2. UNCHANGED <<disk, history>>
    BY <1>3 DEF UpgradeEnds
  <2> QED
    BY <2>1, <2>2, <1>w
       DEF Rollback, Untouched, Up, AtWork, Others, HasManifest, disk, history
<1>4. CASE Restart
  BY <1>4, <1>w, RestartRests
     DEF Rollback, Untouched, Reloads, Up, AtWork, Restart, HasManifest, disk, Idle
<1>5. CASE UNCHANGED vars
  BY <1>5
     DEF vars, disk, history, Rollback, Untouched, UpgradeInv, Up, AtWork, HasManifest
<1>7. CASE UpgradeStages
  <2> SUFFICES ASSUME base' # None PROVE Untouched' /\ UpgradeInv'
    BY DEF Rollback
  <2>1. PICK v \in Versions : /\ Starts(Upgrader, "upgrade", v, "replace")
                              /\ base' = IF v = Ver(Upgrader) THEN base ELSE None
    BY <1>7 DEF UpgradeStages
  <2>2. v = Up.ver /\ base' = base /\ base # None /\ Up.pc = "fetch"
    BY <1>7, <2>1 DEF UpgradeStages, Ver, Up, At
  <2>3. Others(Upgrader) /\ worker'[Upgrader].pc = "replace" /\ worker'[Upgrader].ver = v
    BY <1>t, <1>w, <2>1, StartsStep DEF Ops, Pcs
  <2>4. Untouched /\ UpgradeInv /\ tree' = tree /\ pin' = pin
    BY <1>7, <2>2 DEF Rollback, UpgradeStages, disk
  <2>5. Untouched'
    BY <1>w, <2>2, <2>3, <2>4 DEF Untouched, Others, HasManifest
  <2> QED
    BY <2>2, <2>3, <2>4, <2>5 DEF UpgradeInv, Up, HasManifest
<1>8. ASSUME NEW w \in Workers, OtherReloads(w) PROVE Rollback'
  <2>1. Others(w) /\ worker'[w].pc = "resolve"
    BY <1>8, <1>t, StartsStep DEF OtherReloads, Ops, Pcs
  <2>2. UNCHANGED <<disk, base>>
    BY <1>8 DEF OtherReloads
  <2>3. Untouched => Untouched'
    BY <1>w, <2>1, <2>2 DEF Untouched, Reloads, Others, HasManifest, disk
  <2>4. (Up.pc \in AtWork \cup {"fetch"})' => worker'[Upgrader] = worker[Upgrader]
    BY <1>w, <2>1 DEF Up, Others, AtWork
  <2> QED
    BY <2>2, <2>3, <2>4 DEF Rollback, UpgradeInv, Up, HasManifest, disk
<1>9. ASSUME NEW w \in Users, Continues(w) PROVE Rollback'
  <2>1. base' = base
    BY <1>9 DEF Continues, Replaces, Removes, Promotes, PinTruncates, PinWrites,
       UninstallRemoves, UninstallEnds, Resolves, ReadsSource, Swaps, Fails, history
  <2> SUFFICES ASSUME base # None PROVE Rollback'
    BY <2>1 DEF Rollback
  <2>2. Resolves(w) \/ ReadsSource(w) \/ Swaps(w)
    BY <1>9 DEF Rollback, Untouched, Reloads, Continues, Replaces, Removes, Promotes,
       PinTruncates, PinWrites, UninstallRemoves, UninstallEnds, At
  <2>3. Others(w) /\ worker'[w].pc \in Reloads
    BY <1>t, <1>w, <2>2, ResolvesStep, ReadsSourceStep, EndsStep DEF TypeInv, Swaps, Reloads
  <2>4. UNCHANGED disk
    BY <2>2 DEF Resolves, ReadsSource, Swaps
  <2>5. Untouched'
    BY <1>w, <2>1, <2>3, <2>4 DEF Rollback, Untouched, Others, HasManifest, disk
  <2>6. worker'[Upgrader] = worker[Upgrader]
    BY <1>w, <2>3 DEF Others
  <2> QED
    BY <2>1, <2>4, <2>5, <2>6 DEF Rollback, UpgradeInv, Up, HasManifest, disk
<1>6. CASE Continues(Upgrader)
  <2> DEFINE w == Upgrader
  <2>1. base' = base
    BY <1>6 DEF Continues, Replaces, Removes, Promotes, PinTruncates, PinWrites,
       UninstallRemoves, UninstallEnds, Resolves, ReadsSource, Swaps, Fails, history
  <2> SUFFICES ASSUME base # None
               PROVE  Untouched' /\ (Up.pc \in AtWork \cup {"fetch"} => UpgradeInv)'
    BY <2>1 DEF Rollback
  <2>2. Untouched /\ (Up.pc \in AtWork => UpgradeInv)
    BY DEF Rollback
  <2>3. base \in Versions /\ base \in Nat
    BY <1>t DEF TypeInv, TypeOK
  <2>4. w = Upgrader /\ w \in Workers
    BY <1>w
  <2>5. Up.pc # "uninstall"
    BY <1>w DEF TypeInv, Shaped, Up
  <2>6. ASSUME Others(w) PROVE \A u \in Users : (worker[u].pc \in Reloads)'
    BY <1>w, <2>2, <2>4, <2>6 DEF Untouched, Others
  <2>7. ASSUME Others(w), worker'[w].pc \in Reloads, tree' = tree, pin' = pin
        PROVE  Untouched' /\ (Up.pc \in AtWork \cup {"fetch"} => UpgradeInv)'
    <3>1. ~(Up.pc \in AtWork \cup {"fetch"})'
      BY <2>4, <2>7 DEF Up, AtWork, Reloads
    <3> QED
      BY <3>1, <2>1, <2>2, <2>4, <2>6, <2>7 DEF Untouched, HasManifest
  <2>8. ASSUME Up.pc \in AtWork PROVE Up.ver \in Versions /\ Up.ver \in Nat /\ base < Up.ver
    BY <1>t, <1>w, <2>2, <2>8 DEF TypeInv, Shaped, Up, UpgradeInv
  <2>u. ASSUME Others(w), NEW v \in Versions, base < v, pin' = pin,
                \A u \in Versions : u # v => tree'[u] = tree[u],
                tree'[v] = "half" => pin.ver = base
         PROVE  Untouched'
    <3>1. v # base /\ base <= v /\ v \in Nat
      BY <1>t, <2>3, <2>u
    <3>2. tree'[base'] = "whole"
      BY <2>1, <2>2, <2>3, <2>u, <3>1 DEF Untouched
    <3>3. pin'.ver \in Versions /\ HasManifest(pin.ver)' => base' <= pin'.ver
      <4>1. CASE pin.ver = v
        BY <2>1, <2>u, <3>1, <4>1
      <4>2. CASE pin.ver # v
        BY <2>1, <2>2, <2>u, <4>2 DEF Untouched, HasManifest
      <4> QED
        BY <4>1, <4>2
    <3>4. \A u \in Versions : tree'[u] = "half" => pin'.ver = base'
      BY <2>1, <2>2, <2>u DEF Untouched
    <3> QED
      BY <2>6, <2>u, <3>2, <3>3, <3>4 DEF Untouched
  <2>9. CASE Replaces(w)
    <3>1. Up.pc = "replace" /\ pin' = pin
      BY <2>4, <2>9 DEF Replaces, At, Up
    <3>2. Up.ver \in Versions /\ Up.ver \in Nat /\ base < Up.ver /\ UpgradeInv
      BY <2>2, <2>8, <3>1 DEF AtWork
    <3>3. CASE tree[Up.ver] = "none"
      <4>1. tree' = tree /\ Goto(w, "promote")
        BY <2>4, <2>9, <3>3 DEF Replaces, Ver, Up
      <4>2. Others(w) /\ worker'[w].pc = "promote" /\ worker'[w].ver = Up.ver
        BY <1>t, <2>4, <4>1, GotoStep DEF Pcs, Up
      <4> QED
        BY <2>1, <2>2, <2>4, <2>6, <3>1, <3>2, <4>1, <4>2
           DEF Untouched, UpgradeInv, Up, HasManifest
    <3>4. CASE tree[Up.ver] # "none"
      <4>1. Goto(w, "removing") /\ \E t \in Remnants(tree[Up.ver]) :
                                      tree' = [tree EXCEPT ![Up.ver] = t]
        BY <2>4, <2>9, <3>4 DEF Replaces, Ver, Up
      <4>2. Others(w) /\ worker'[w].pc = "removing" /\ worker'[w].ver = Up.ver
        BY <1>t, <2>4, <4>1, GotoStep DEF Pcs, Up
      <4>3. /\ \A v \in Versions : v # Up.ver => tree'[v] = tree[v]
            /\ tree'[Up.ver] \in {"half", "bare"}
            /\ tree'[Up.ver] = "half" => HasManifest(Up.ver)
        BY <1>t, <3>2, <3>4, <4>1, RemnantsType DEF HasManifest
      <4>4. tree'[Up.ver] = "half" => pin.ver = base
        BY <3>1, <3>2, <4>3 DEF UpgradeInv
      <4>5. Untouched'
        BY <2>u, <3>1, <3>2, <4>2, <4>3, <4>4
      <4>6. UpgradeInv'
        BY <2>1, <2>4, <3>1, <3>2, <4>2, <4>3, <4>4 DEF UpgradeInv, Up, HasManifest
      <4> QED
        BY <4>5, <4>6
    <3> QED
      BY <3>3, <3>4
  <2>10. CASE Removes(w)
    <3>1. Up.pc = "removing" /\ pin' = pin
      BY <2>4, <2>10 DEF Removes, At, Up
    <3>2. Up.ver \in Versions /\ Up.ver \in Nat /\ base < Up.ver /\ UpgradeInv
      BY <2>2, <2>8, <3>1 DEF AtWork
    <3>3. CASE Fails(w) /\ tree' = tree
      <4>1. Others(w) /\ worker'[w].pc = "idle"
        BY <1>t, <2>4, <3>3, EndsStep DEF Fails
      <4> QED
        BY <2>7, <3>1, <3>3, <4>1 DEF Reloads
    <3>4. CASE Goto(w, "promote") /\ tree' = [tree EXCEPT ![Ver(w)] = "none"]
      <4>1. Others(w) /\ worker'[w].pc = "promote" /\ worker'[w].ver = Up.ver
        BY <1>t, <2>4, <3>4, GotoStep DEF Pcs, Up
      <4>2. tree'[Up.ver] = "none" /\ \A v \in Versions : v # Up.ver => tree'[v] = tree[v]
        BY <1>t, <2>4, <3>2, <3>4 DEF Ver, Up
      <4>3. Untouched'
        BY <2>u, <3>1, <3>2, <4>1, <4>2
      <4>4. UpgradeInv'
        BY <2>1, <2>4, <3>1, <3>2, <4>1, <4>2 DEF UpgradeInv, Up
      <4> QED
        BY <4>3, <4>4
    <3> QED
      BY <2>10, <3>3, <3>4 DEF Removes
  <2>11. CASE Promotes(w)
    <3>1. Up.pc = "promote" /\ pin' = pin
      BY <2>4, <2>11 DEF Promotes, At, Up
    <3>2. Up.ver \in Versions /\ Up.ver \in Nat /\ base < Up.ver /\ UpgradeInv
      BY <2>2, <2>8, <3>1 DEF AtWork
    <3>3. CASE Fails(w) /\ tree' = tree
      <4>1. Others(w) /\ worker'[w].pc = "idle"
        BY <1>t, <2>4, <3>3, EndsStep DEF Fails
      <4> QED
        BY <2>7, <3>1, <3>3, <4>1 DEF Reloads
    <3>4. CASE Goto(w, "pin") /\ tree' = [tree EXCEPT ![Ver(w)] = "whole"]
      <4>1. Others(w) /\ worker'[w].pc = "pin" /\ worker'[w].ver = Up.ver
        BY <1>t, <2>4, <3>4, GotoStep DEF Pcs, Up
      <4>2. tree'[Up.ver] = "whole" /\ \A v \in Versions : v # Up.ver => tree'[v] = tree[v]
        BY <1>t, <2>4, <3>2, <3>4 DEF Ver, Up
      <4>3. Untouched'
        BY <2>u, <3>1, <3>2, <4>1, <4>2
      <4>4. UpgradeInv'
        BY <2>1, <2>4, <3>1, <3>2, <4>1, <4>2 DEF UpgradeInv, Up
      <4> QED
        BY <4>3, <4>4
    <3> QED
      BY <2>11, <3>3, <3>4 DEF Promotes
  <2>12. CASE PinTruncates(w) \/ PinWrites(w)
    <3>1. Up.pc \in {"pin", "write"} /\ tree' = tree /\ pin' \in {pin, Nothing} \cup
            {[ver |-> Up.ver, source |-> IF Up.op = "local" THEN "local" ELSE "market"]}
      BY <2>4, <2>12 DEF PinTruncates, PinWrites, At, Up, Ver
    <3>2. Up.ver \in Versions /\ Up.ver \in Nat /\ base < Up.ver /\ UpgradeInv
      BY <2>2, <2>8, <3>1 DEF AtWork
    <3>3. /\ Others(w) /\ worker'[w].pc \in {"write", "resolve"}
          /\ worker'[w].ver = Up.ver
      BY <1>t, <2>4, <2>12, GotoStep DEF PinTruncates, PinWrites, Pcs, Up
    <3>4. pin'.ver = pin.ver \/ pin'.ver = None \/ pin'.ver = Up.ver
      BY <1>t, <3>1
    <3>5. \A v \in Versions : tree[v] # "half"
      BY <3>1, <3>2 DEF UpgradeInv
    <3>6. Untouched'
      BY <1>t, <2>1, <2>2, <2>3, <2>6, <3>1, <3>2, <3>3, <3>4, <3>5
         DEF Untouched, HasManifest
    <3>7. UpgradeInv'
      BY <2>1, <2>4, <3>1, <3>2, <3>3 DEF UpgradeInv, Up
    <3> QED
      BY <3>6, <3>7
  <2>13. CASE UninstallRemoves(w) \/ UninstallEnds(w)
    BY <2>4, <2>5, <2>13 DEF UninstallRemoves, UninstallEnds, At, Up
  <2>14. CASE Resolves(w) \/ ReadsSource(w)
    <3>1. Others(w) /\ worker'[w].pc \in {"source", "swap"}
      BY <1>t, <2>4, <2>14, ResolvesStep, ReadsSourceStep DEF TypeInv
    <3>2. tree' = tree /\ pin' = pin
      BY <2>14 DEF Resolves, ReadsSource, disk
    <3> QED
      BY <2>7, <3>1, <3>2 DEF Reloads
  <2>15. CASE Swaps(w)
    <3>1. Others(w) /\ worker'[w].pc = "idle"
      BY <1>t, <2>4, <2>15, EndsStep DEF Swaps
    <3>2. tree' = tree /\ pin' = pin
      BY <2>15 DEF Swaps, disk
    <3> QED
      BY <2>7, <3>1, <3>2 DEF Reloads
  <2> QED
    BY <1>6, <2>9, <2>10, <2>11, <2>12, <2>13, <2>14, <2>15 DEF Continues
<1> QED
  BY <1>1, <1>2, <1>3, <1>4, <1>5, <1>6, <1>7, <1>8, <1>9, <1>w DEF Next

\* The resolution finds the version the upgrade started from, or a whole tree of a
\* newer one.
LEMMA RollbackHolds ==
  ASSUME TypeInv, Rollback
  PROVE  RollbackSurvives
<1> SUFFICES ASSUME base # None PROVE Loadable /\ Resolved >= base
  BY DEF RollbackSurvives
<1>1. Untouched /\ base \in Versions /\ HasManifest(base)
      /\ \A v \in Versions : v \in Nat /\ v # None
  BY InstallerAssumption DEF Rollback, Untouched, HasManifest, TypeInv, TypeOK
<1>2. CASE pin.ver \in Versions /\ HasManifest(pin.ver)
  <2>1. Resolved = pin.ver
    BY <1>2, ResolvedFinds DEF TypeInv
  <2>2. tree[pin.ver] = "whole"
    BY <1>1, <1>2 DEF Untouched, HasManifest
  <2> QED
    BY <1>1, <1>2, <2>1, <2>2 DEF Untouched, Loadable
<1>3. CASE ~(pin.ver \in Versions /\ HasManifest(pin.ver))
  <2>1. Resolved # None /\ base <= Resolved
    BY <1>1, <1>3, ResolvedFinds DEF TypeInv
  <2>2. Resolved \in Versions /\ HasManifest(Resolved)
    BY <2>1, ResolvedFinds DEF TypeInv
  <2>3. tree[Resolved] # "half"
    BY <1>1, <1>3, <2>2 DEF Untouched
  <2> QED
    BY <1>1, <2>1, <2>2, <2>3 DEF Loadable, HasManifest
<1> QED
  BY <1>2, <1>3

\* "A failed upgrade keeps the old version and pin, so the active install is the
\* natural rollback" (autoUpgradePlugins), for any versions: from the moment an
\* upgrade decides until a user acts, whatever fails and wherever the application
\* dies, the directory can be loaded, and never as an older version than before;
\* unless the archive holds another version than the registry says.
THEOREM RollbackAlwaysSurvives == Spec => []RollbackSurvives
<1>1. Init => TypeInv /\ Rollback
  BY TypeInvInit DEF Init, Rollback
<1>2. ASSUME TypeInv /\ Rollback, [Next]_vars PROVE (TypeInv /\ Rollback)'
  BY <1>2, TypeInvStep, RollbackStep
<1>3. TypeInv /\ Rollback => RollbackSurvives
  BY RollbackHolds
<1> HIDE DEF TypeInv, Rollback
<1> QED
  BY <1>1, <1>2, <1>3, PTL DEF Spec

=============================================================================
