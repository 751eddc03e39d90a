----------------------- MODULE PluginManager_proofs -----------------------
(***************************************************************************)
(* Proofs about PluginManager, for any number of plugins, prefixes,        *)
(* reload passes, toggles and searches.                                    *)
(***************************************************************************)
EXTENDS PluginManager, TLAPS, FiniteSetTheorems, WellFoundedInduction

Pass == [pc : {"idle", "loading", "retiring"}, todo : SUBSET Ids, fresh : [Ids -> Slot],
         off : SUBSET Ids, old : SUBSET Instances, sure : SUBSET Ids]

\* A set of numbers that is not empty has a least element: of the finite sets
\* {k : k < i} one is minimal by inclusion.
LEMMA HasLeast ==
  ASSUME NEW S, S \subseteq Nat, S # {}
  PROVE  \E i \in S : \A j \in S : i <= j
<1> DEFINE Below(i) == {k \in Nat : k < i}
           Order == StrictSubsetOrdering(Nat)
           T == {Below(i) : i \in S}
<1>1. \A i \in S : Below(i) \in FiniteSubsetsOf(Nat)
  <2> SUFFICES ASSUME NEW i \in S PROVE Below(i) \in FiniteSubsetsOf(Nat)
    OBVIOUS
  <2>1. IsFiniteSet(Below(i))
    <3>1. i \in Nat /\ Below(i) \in SUBSET Nat /\ \A s \in Below(i) : s <= i
      OBVIOUS
    <3> HIDE DEF Below
    <3> QED
      BY <3>1, FS_BoundedSetOfNaturals
  <2> QED
    BY <2>1 DEF FiniteSubsetsOf
<1>2. IsWellFoundedOn(Order, FiniteSubsetsOf(Nat))
  BY FS_StrictSubsetOrderingWellFounded
<1>3. T \subseteq FiniteSubsetsOf(Nat) /\ T # {}
  BY <1>1
<1>4. PICK D \in T : \A E \in T : <<E, D>> \notin Order
  <2> HIDE DEF Order, T
  <2> QED
    BY <1>2, <1>3, WFMin
<1>5. PICK i \in S : D = Below(i)
  BY <1>4
<1>6. ASSUME NEW j \in S, j < i PROVE FALSE
  <2>1. Below(j) \subseteq Below(i) /\ j \in Below(i) /\ j \notin Below(j)
    BY <1>6
  <2>2. <<Below(j), Below(i)>> \in Order
    <3>1. Below(j) \in SUBSET Nat /\ Below(i) \in SUBSET Nat
      OBVIOUS
    <3> HIDE DEF Below
    <3> QED
      BY <3>1, <2>1 DEF StrictSubsetOrdering
  <2> QED
    BY <2>2, <1>4, <1>5
<1> QED
  BY <1>6

\* The lowest enabled claimant of a prefix is a plugin.
LEMMA IndexType ==
  ASSUME NEW tab, NEW mod
  PROVE  IndexOf(tab, mod) \in [Prefixes -> Ids \cup {Nobody}]
<1> SUFFICES ASSUME NEW p \in Prefixes
             PROVE  IndexOf(tab, mod)[p] \in Ids \cup {Nobody}
  BY DEF IndexOf
<1> DEFINE claimants == {i \in Ids : tab[i] # Nobody /\ mod[i] = "on" /\ p \in Claims[i]}
<1>1. IndexOf(tab, mod)[p] = IF claimants = {} THEN Nobody
                             ELSE CHOOSE i \in claimants : \A j \in claimants : i <= j
  BY DEF IndexOf
<1>2. claimants \subseteq Ids /\ claimants \subseteq Nat
  BY ManagerAssumption
<1> HIDE DEF claimants
<1>3. claimants # {} => \E i \in claimants : \A j \in claimants : i <= j
  BY <1>2, HasLeast
<1> QED
  BY <1>1, <1>2, <1>3

----------------------------------------------------------------------------
(* What a step leaves of its goroutine, and the types that go with it.     *)

\* An idle pass has nothing in its hands.
LEMMA NoPassType ==
  /\ NoPass \in Pass
  /\ NoPass.pc = "idle" /\ NoPass.todo = {} /\ NoPass.old = {} /\ NoPass.sure = {}
  /\ \A i \in Ids : NoPass.fresh[i] = Nobody
BY DEF NoPass, Pass, Slot

\* A pass begins with an empty table and what is persisted and in no toggle's hands.
LEMMA BeginsStep ==
  ASSUME TypeOK, NEW l \in Loaders, PassBegins(l)
  PROVE  /\ loader' \in [Loaders -> Pass]
         /\ loader' = [loader EXCEPT ![l] = loader'[l]]
         /\ loader'[l].pc = "loading" /\ loader'[l].old = {} /\ loader'[l].off = {}
         /\ \A i \in Ids : loader'[l].fresh[i] = Nobody
         /\ loader'[l].sure = {i \in persisted : \A t \in Togglers : toggler[t].id # i}
<1> DEFINE sure == {i \in persisted : \A t \in Togglers : toggler[t].id # i}
           c == [NoPass EXCEPT !.pc = "loading", !.todo = disk, !.sure = sure]
<1>1. sure \in SUBSET Ids /\ disk \in SUBSET Ids
  BY DEF TypeOK
<1>2. loader' = [loader EXCEPT ![l] = c]
  BY DEF PassBegins
<1> HIDE DEF sure
<1>3. /\ c \in Pass /\ c.pc = "loading" /\ c.old = {} /\ c.off = {} /\ c.sure = sure
      /\ \A i \in Ids : c.fresh[i] = Nobody
  BY <1>1, NoPassType DEF NoPass, Pass
<1> HIDE DEF c
<1> QED
  BY <1>2, <1>3 DEF TypeOK, Pass, sure

\* A plugin is loaded into a runtime that is in nobody's hands, or skipped.
Loads(l, i, x) ==
  /\ ~Held(x)
  /\ inst' = [inst EXCEPT ![x] = [life |-> "live", strikes |-> 0,
                                  background |-> i \notin persisted]]
  /\ loader'[l].fresh = [loader[l].fresh EXCEPT ![i] = x]
  /\ loader'[l].off = loader[l].off \cup ({i} \cap persisted)
Skips(l) ==
  /\ inst' = inst
  /\ loader'[l].fresh = loader[l].fresh /\ loader'[l].off = loader[l].off

\* The entry loaded is one still to be loaded; the rest of the pass stays.
LEMMA LoadsStep ==
  ASSUME TypeOK, NEW l \in Loaders, PassLoads(l)
  PROVE  \E i \in loader[l].todo :
           /\ loader' \in [Loaders -> Pass]
           /\ loader' = [loader EXCEPT ![l] = loader'[l]]
           /\ loader'[l].pc = loader[l].pc /\ loader'[l].old = loader[l].old
           /\ loader'[l].sure = loader[l].sure
           /\ loader'[l].todo = loader[l].todo \ {i}
           /\ (\E x \in Instances : Loads(l, i, x)) \/ Skips(l)
<1>1. PICK i \in loader[l].todo :
        \/ \E x \in Instances :
             /\ ~Held(x)
             /\ inst' = [inst EXCEPT ![x] = [life |-> "live", strikes |-> 0,
                                            background |-> i \notin persisted]]
             /\ loader' = [loader EXCEPT ![l].todo = @ \ {i}, ![l].fresh[i] = x,
                                         ![l].off = @ \cup ({i} \cap persisted)]
        \/ /\ loader' = [loader EXCEPT ![l].todo = @ \ {i}]
           /\ inst' = inst
  BY DEF PassLoads
<1>2. loader \in [Loaders -> Pass] /\ loader[l] \in Pass /\ i \in Ids
  BY <1>1 DEF TypeOK, Pass
<1>3. CASE \E x \in Instances :
             /\ ~Held(x)
             /\ inst' = [inst EXCEPT ![x] = [life |-> "live", strikes |-> 0,
                                            background |-> i \notin persisted]]
             /\ loader' = [loader EXCEPT ![l].todo = @ \ {i}, ![l].fresh[i] = x,
                                         ![l].off = @ \cup ({i} \cap persisted)]
  <2>1. PICK x \in Instances :
             /\ ~Held(x)
             /\ inst' = [inst EXCEPT ![x] = [life |-> "live", strikes |-> 0,
                                            background |-> i \notin persisted]]
             /\ loader' = [loader EXCEPT ![l].todo = @ \ {i}, ![l].fresh[i] = x,
                                         ![l].off = @ \cup ({i} \cap persisted)]
    BY <1>3
  <2> DEFINE fresh == [loader[l].fresh EXCEPT ![i] = x]
             off == loader[l].off \cup ({i} \cap persisted)
             c == [loader[l] EXCEPT !.todo = @ \ {i}, !.fresh = fresh, !.off = off]
  <2>2. fresh \in [Ids -> Slot] /\ off \in SUBSET Ids
    BY <1>2 DEF Pass, Slot
  <2>3. loader' = [loader EXCEPT ![l] = c]
    BY <2>1
  <2> HIDE DEF fresh, off
  <2>4. /\ c \in Pass /\ c.pc = loader[l].pc /\ c.old = loader[l].old
        /\ c.sure = loader[l].sure /\ c.todo = loader[l].todo \ {i}
        /\ c.fresh = fresh /\ c.off = off
    BY <1>2, <2>2 DEF Pass
  <2> HIDE DEF c
  <2>5. loader'[l] = c /\ loader' \in [Loaders -> Pass]
    BY <1>2, <2>3, <2>4
  <2>6. Loads(l, i, x)
    BY <2>1, <2>4, <2>5 DEF Loads, fresh, off
  <2> QED
    BY <1>1, <2>3, <2>4, <2>5, <2>6
<1>4. CASE loader' = [loader EXCEPT ![l].todo = @ \ {i}] /\ inst' = inst
  <2> DEFINE c == [loader[l] EXCEPT !.todo = @ \ {i}]
  <2>1. /\ c \in Pass /\ c.pc = loader[l].pc /\ c.old = loader[l].old
        /\ c.sure = loader[l].sure /\ c.todo = loader[l].todo \ {i}
        /\ c.fresh = loader[l].fresh /\ c.off = loader[l].off
    BY <1>2 DEF Pass
  <2>2. loader' = [loader EXCEPT ![l] = c]
    BY <1>4
  <2> HIDE DEF c
  <2> QED
    BY <1>1, <1>2, <1>4, <2>1, <2>2 DEF Skips
<1> QED
  BY <1>1, <1>3, <1>4

\* The swap: what was in the table is to be retired.
LEMMA SwapsStep ==
  ASSUME TypeOK, NEW l \in Loaders, PassSwaps(l)
  PROVE  /\ loader' \in [Loaders -> Pass]
         /\ loader' = [loader EXCEPT ![l] = loader'[l]]
         /\ loader'[l].pc = "retiring" /\ loader'[l].todo = {} /\ loader'[l].sure = {}
         /\ loader'[l].old = {table[i] : i \in Ids} \ {Nobody}
         /\ \A i \in Ids : loader'[l].fresh[i] = Nobody
<1> DEFINE old == {table[i] : i \in Ids} \ {Nobody}
           c == [NoPass EXCEPT !.pc = "retiring", !.old = old]
<1>1. old \in SUBSET Instances
  BY DEF TypeOK, Slot
<1>2. loader' = [loader EXCEPT ![l] = c]
  BY DEF PassSwaps
<1> HIDE DEF old
<1>3. /\ c \in Pass /\ c.pc = "retiring" /\ c.todo = {} /\ c.sure = {} /\ c.old = old
      /\ \A i \in Ids : c.fresh[i] = Nobody
  BY <1>1, NoPassType DEF NoPass, Pass
<1> HIDE DEF c
<1> QED
  BY <1>2, <1>3 DEF TypeOK, Pass, old

\* Retiring takes one runtime off the list of its pass.
LEMMA RetiresStep ==
  ASSUME TypeOK, NEW l \in Loaders, NEW x \in loader[l].old,
         loader' = [loader EXCEPT ![l].old = @ \ {x}]
  PROVE  /\ loader' \in [Loaders -> Pass] /\ x \in Instances
         /\ loader' = [loader EXCEPT ![l] = loader'[l]]
         /\ loader'[l].pc = loader[l].pc /\ loader'[l].todo = loader[l].todo
         /\ loader'[l].fresh = loader[l].fresh /\ loader'[l].off = loader[l].off
         /\ loader'[l].sure = loader[l].sure /\ loader'[l].old = loader[l].old \ {x}
<1> DEFINE c == [loader[l] EXCEPT !.old = @ \ {x}]
<1>1. loader \in [Loaders -> Pass] /\ loader[l] \in Pass
  BY DEF TypeOK, Pass
<1>2. /\ c \in Pass /\ c.pc = loader[l].pc /\ c.todo = loader[l].todo
      /\ c.fresh = loader[l].fresh /\ c.off = loader[l].off
      /\ c.sure = loader[l].sure /\ c.old = loader[l].old \ {x} /\ x \in Instances
  BY <1>1 DEF Pass
<1>3. loader' = [loader EXCEPT ![l] = c]
  OBVIOUS
<1> HIDE DEF c
<1> QED
  BY <1>1, <1>2, <1>3

\* What the user touches is no longer sure; nothing else of a pass changes.
LEMMA TouchedStep ==
  ASSUME TypeOK, NEW i \in Ids, Touched(i)
  PROVE  /\ loader' \in [Loaders -> Pass]
         /\ \A l \in Loaders :
              /\ loader'[l].pc = loader[l].pc /\ loader'[l].todo = loader[l].todo
              /\ loader'[l].fresh = loader[l].fresh /\ loader'[l].off = loader[l].off
              /\ loader'[l].old = loader[l].old
              /\ loader'[l].sure = loader[l].sure \ {i}
<1> DEFINE c(l) == [loader[l] EXCEPT !.sure = @ \ {i}]
<1>1. ASSUME NEW l \in Loaders
      PROVE  /\ c(l) \in Pass /\ c(l).pc = loader[l].pc /\ c(l).todo = loader[l].todo
             /\ c(l).fresh = loader[l].fresh /\ c(l).off = loader[l].off
             /\ c(l).old = loader[l].old /\ c(l).sure = loader[l].sure \ {i}
  <2>1. loader[l] \in Pass
    BY DEF TypeOK, Pass
  <2> QED
    BY <2>1 DEF Pass
<1>2. loader' = [l \in Loaders |-> c(l)]
  BY DEF Touched
<1> HIDE DEF c
<1> QED
  BY <1>1, <1>2

\* Enabling or disabling: the mode, the timers, the command index.
LEMMA SetModeStep ==
  ASSUME TypeOK, NEW i \in Ids, NEW m \in Mode, table[i] # Nobody, SetMode(i, m)
  PROVE  /\ mode' \in [Ids -> Mode] /\ mode' = [mode EXCEPT ![i] = m]
         /\ inst' \in [Instances -> Runtime] /\ table[i] \in Instances
         /\ inst' = [inst EXCEPT ![table[i]] = inst'[table[i]]]
         /\ inst'[table[i]].life = inst[table[i]].life
         /\ inst'[table[i]].background = (m = "on")
         /\ index' \in [Prefixes -> Ids \cup {Nobody}]
<1>1. table[i] \in Instances /\ inst[table[i]] \in Runtime
  BY DEF TypeOK, Slot
<1> DEFINE x == table[i]
           r == [inst[x] EXCEPT !.background = (m = "on")]
<1>2. (m = "on") \in BOOLEAN
  OBVIOUS
<1>3. r \in Runtime /\ r.life = inst[x].life /\ r.background = (m = "on")
  BY <1>1, <1>2 DEF Runtime
<1>4. inst' = [inst EXCEPT ![x] = r]
  BY DEF SetMode
<1>5. mode' = [mode EXCEPT ![i] = m] /\ index' = IndexOf(table, mode')
  BY DEF SetMode
<1> HIDE DEF r
<1>6. inst' \in [Instances -> Runtime] /\ inst'[x] = r
  BY <1>1, <1>3, <1>4 DEF TypeOK
<1>7. mode' \in [Ids -> Mode]
  BY <1>5 DEF TypeOK
<1> QED
  BY <1>1, <1>3, <1>4, <1>5, <1>6, <1>7, IndexType

\* Stopping a runtime: it is shut and its timers are silent, unless it was shut before.
LEMMA ShutDownStep ==
  ASSUME TypeOK, NEW x \in Instances, ShutDown(x)
  PROVE  /\ inst' \in [Instances -> Runtime]
         /\ inst' = [inst EXCEPT ![x] = inst'[x]]
         /\ inst'[x].life = "shut"
         /\ inst[x].life # "shut" => ~inst'[x].background
         /\ inst[x].life = "shut" => inst'[x] = inst[x]
<1>1. inst \in [Instances -> Runtime] /\ inst[x] \in Runtime
  BY DEF TypeOK
<1>2. CASE inst[x].life = "shut"
  BY <1>1, <1>2 DEF ShutDown
<1>3. CASE inst[x].life # "shut"
  <2> DEFINE r == [inst[x] EXCEPT !.life = "shut", !.background = FALSE]
  <2>1. r \in Runtime /\ r.life = "shut" /\ ~r.background
    BY <1>1 DEF Runtime
  <2>2. inst' = [inst EXCEPT ![x] = r]
    BY <1>3 DEF ShutDown
  <2> HIDE DEF r
  <2> QED
    BY <1>1, <1>3, <2>1, <2>2
<1> QED
  BY <1>2, <1>3

\* The strike counter changes, and nothing else of a runtime.
SameButStrikes ==
  /\ inst' \in [Instances -> Runtime]
  /\ \A x \in Instances : /\ inst'[x].life = inst[x].life
                          /\ inst'[x].background = inst[x].background

\* A strike or its reset, on whatever runtime, keeps the rest and the types.
LEMMA StrikesStep ==
  ASSUME TypeOK, NEW x, inst' \in {inst, [inst EXCEPT ![x].strikes = 0], Strike(x)}
  PROVE  SameButStrikes
<1>1. inst \in [Instances -> Runtime] /\ \A y \in Instances : inst[y] \in Runtime
  BY DEF TypeOK
<1>2. DisableStrikes \in Nat /\ DisableStrikes > 0
  BY ManagerAssumption
<1>3. CASE inst' = inst
  BY <1>1, <1>3 DEF SameButStrikes
<1>4. CASE \E n \in 0..DisableStrikes : inst' = [inst EXCEPT ![x].strikes = n]
  <2>1. PICK n \in 0..DisableStrikes : inst' = [inst EXCEPT ![x].strikes = n]
    BY <1>4
  <2> DEFINE r == [inst[x] EXCEPT !.strikes = n]
  <2>2. inst' = [inst EXCEPT ![x] = r]
    BY <2>1
  <2>3. x \in Instances => /\ r \in Runtime /\ r.life = inst[x].life
                           /\ r.background = inst[x].background
    BY <1>1 DEF Runtime
  <2> HIDE DEF r
  <2> QED
    BY <1>1, <2>2, <2>3 DEF SameButStrikes
<1>5. CASE inst' = Strike(x) /\ x \in Instances
  <2>1. inst[x].strikes \in 0..DisableStrikes
    BY <1>1, <1>5 DEF Runtime
  <2> DEFINE n == IF inst[x].strikes < DisableStrikes THEN inst[x].strikes + 1
                                                      ELSE inst[x].strikes
  <2>2. n \in 0..DisableStrikes
    BY <1>2, <2>1
  <2>3. inst' = [inst EXCEPT ![x].strikes = n]
    BY <1>5 DEF Strike
  <2> QED
    BY <1>4, <2>2, <2>3
<1>6. CASE inst' = Strike(x) /\ x \notin Instances
  BY <1>1, <1>6 DEF SameButStrikes, Strike
<1> QED
  BY <1>2, <1>3, <1>4, <1>5, <1>6

----------------------------------------------------------------------------
(* Types.                                                                  *)

Toggles == [pc : {"idle", "reset", "store"}, id : Ids \cup {Nobody},
            on : BOOLEAN, inst : Slot]
Searches == [pc : {"idle", "calling", "judging", "condemning"},
             id : Ids \cup {Nobody}, inst : Slot]

\* TypeOK is not inductive by itself: a toggle that stores and a search that
\* disables have a plugin.
TogglesPlugins == \A t \in Togglers : toggler[t].pc # "idle" => toggler[t].id \in Ids
SearchesPlugins == \A s \in Searchers : searcher[s].pc # "idle" => searcher[s].id \in Ids

\* Idle toggles and searches.
LEMMA IdleTypes == NoToggle \in Toggles /\ NoSearch \in Searches
BY DEF NoToggle, NoSearch, Toggles, Searches, Slot

\* The steps of a search keep the types of the searches.
LEMMA SearchTypes ==
  ASSUME TypeOK, NEW s \in Searchers,
         \/ SearchStep(s) \/ \E p \in Prefixes : SearchBegins(s, p)
  PROVE  searcher' \in [Searchers -> Searches]
<1>1. searcher \in [Searchers -> Searches] /\ searcher[s] \in Searches
  BY DEF TypeOK, Searches
<1> SUFFICES \E c \in Searches : searcher' = [searcher EXCEPT ![s] = c]
  BY <1>1
<1>2. CASE SearchTimesOut(s)
  <2> DEFINE c == [searcher[s] EXCEPT !.pc = "judging"]
  <2>1. c \in Searches
    BY <1>1 DEF Searches
  <2>2. searcher' = [searcher EXCEPT ![s] = c]
    BY <1>2 DEF SearchTimesOut
  <2> HIDE DEF c
  <2> QED
    BY <2>1, <2>2
<1>3. CASE SearchJudges(s)
  <2> DEFINE c == [searcher[s] EXCEPT !.pc = "condemning"]
             d == IF inst[searcher[s].inst].strikes >= DisableStrikes THEN c ELSE NoSearch
  <2>1. c \in Searches
    BY <1>1 DEF Searches
  <2>2. searcher' = [searcher EXCEPT ![s] = d]
    BY <1>3 DEF SearchJudges
  <2>3. d \in Searches
    BY <2>1, IdleTypes
  <2> HIDE DEF d
  <2> QED
    BY <2>2, <2>3
<1>4. CASE \E p \in Prefixes : SearchBegins(s, p)
  <2>1. PICK p \in Prefixes : SearchBegins(s, p)
    BY <1>4
  <2> DEFINE c == [pc |-> "calling", id |-> index[p], inst |-> table[index[p]]]
  <2>2. index[p] \in Ids /\ table[index[p]] \in Slot
    BY <2>1 DEF TypeOK, SearchBegins
  <2>3. c \in Searches /\ searcher' = [searcher EXCEPT ![s] = c]
    BY <2>1, <2>2 DEF SearchBegins, Searches
  <2> QED
    BY <2>3
<1>5. CASE SearchAnswers(s) \/ Disable(s)
  BY <1>5, IdleTypes DEF SearchAnswers, Disable
<1> QED
  BY <1>2, <1>3, <1>4, <1>5 DEF SearchStep

\* Initial states are well typed.
LEMMA InitTypes == Init => TypeOK
<1> SUFFICES ASSUME Init PROVE TypeOK
  OBVIOUS
<1>1. \A x \in Instances : inst[x] \in Runtime
  BY ManagerAssumption DEF Init, Runtime
<1>2. inst \in [Instances -> Runtime]
  BY <1>1 DEF Init
<1>3. loader \in [Loaders -> Pass]
  BY NoPassType DEF Init
<1>4. toggler \in [Togglers -> Toggles] /\ searcher \in [Searchers -> Searches]
  BY IdleTypes DEF Init
<1>5. closing \in [called : BOOLEAN, todo : SUBSET Instances]
  BY DEF Init
<1> QED
  BY <1>2, <1>3, <1>4, <1>5 DEF Init, TypeOK, Pass, Toggles, Searches, Slot, Mode

\* A step of a reload pass keeps the types.
LEMMA PassTypes ==
  ASSUME TypeOK, NEW l \in Loaders, PassBegins(l) \/ PassStep(l)
  PROVE  TypeOK'
<1>1. CASE PassBegins(l)
  BY <1>1, BeginsStep DEF PassBegins, TypeOK, Pass, lists
<1>2. CASE PassLoads(l)
  <2>1. PICK i \in loader[l].todo :
          /\ loader' \in [Loaders -> Pass]
          /\ (\E x \in Instances : Loads(l, i, x)) \/ Skips(l)
    BY <1>2, LoadsStep
  <2>2. inst' \in [Instances -> Runtime]
    <3>1. \A b \in BOOLEAN : [life |-> "live", strikes |-> 0, background |-> b] \in Runtime
      BY ManagerAssumption DEF Runtime
    <3>2. (i \notin persisted) \in BOOLEAN
      OBVIOUS
    <3> QED
      BY <2>1, <3>1, <3>2 DEF Loads, Skips, TypeOK
  <2> QED
    BY <1>2, <2>1, <2>2 DEF PassLoads, TypeOK, Pass, lists
<1>3. CASE PassSwaps(l)
  <2>1. table' \in [Ids -> Slot]
    BY <1>3 DEF PassSwaps, TypeOK
  <2>2. mode' \in [Ids -> Mode]
    BY <1>3 DEF PassSwaps, Mode
  <2>3. index' \in [Prefixes -> Ids \cup {Nobody}]
    BY <1>3, IndexType DEF PassSwaps
  <2>4. loader' \in [Loaders -> Pass]
    BY <1>3, SwapsStep
  <2> QED
    BY <1>3, <2>1, <2>2, <2>3, <2>4 DEF PassSwaps, TypeOK, Pass
<1>4. CASE PassRetires(l)
  <2>1. PICK x \in loader[l].old : ShutDown(x) /\ loader' = [loader EXCEPT ![l].old = @ \ {x}]
    BY <1>4 DEF PassRetires
  <2>2. loader' \in [Loaders -> Pass] /\ x \in Instances
    BY <2>1, RetiresStep
  <2>3. inst' \in [Instances -> Runtime]
    BY <2>1, <2>2, ShutDownStep
  <2> QED
    BY <1>4, <2>2, <2>3 DEF PassRetires, TypeOK, Pass, lists
<1>5. CASE PassEnds(l)
  <2>1. loader' \in [Loaders -> Pass]
    BY <1>5, NoPassType DEF PassEnds, TypeOK, Pass
  <2> QED
    BY <1>5, <2>1 DEF PassEnds, TypeOK, Pass, lists
<1> QED
  BY <1>1, <1>2, <1>3, <1>4, <1>5 DEF PassStep

\* So does what the user does.
LEMMA ToggleTypes ==
  ASSUME TypeOK, TogglesPlugins,
         \/ \E t \in Togglers : ToggleStep(t) \/ \E i \in Ids, on \in BOOLEAN : SetEnabled(t, i, on)
         \/ \E i \in Ids : ClearDisabledState(i)
  PROVE  TypeOK'
<1>1. CASE \E t \in Togglers, i \in Ids, on \in BOOLEAN : SetEnabled(t, i, on)
  <2>1. PICK t \in Togglers, i \in Ids, on \in BOOLEAN : SetEnabled(t, i, on)
    BY <1>1
  <2> DEFINE m == IF on THEN "on" ELSE "user"
             c == [pc |-> IF on THEN "reset" ELSE "store", id |-> i, on |-> on,
                   inst |-> table[i]]
  <2>2. m \in Mode /\ table[i] # Nobody /\ SetMode(i, m)
    BY <2>1 DEF SetEnabled, Mode
  <2>3. c \in Toggles /\ toggler' = [toggler EXCEPT ![t] = c]
    BY <2>1 DEF SetEnabled, Toggles, TypeOK
  <2>4. toggler' \in [Togglers -> Toggles]
    BY <2>3 DEF TypeOK, Toggles
  <2> HIDE DEF m, c
  <2>5. /\ mode' \in [Ids -> Mode] /\ inst' \in [Instances -> Runtime]
        /\ index' \in [Prefixes -> Ids \cup {Nobody}]
    BY <2>2, SetModeStep
  <2>6. loader' \in [Loaders -> Pass]
    BY <2>1, TouchedStep DEF SetEnabled
  <2> QED
    BY <2>1, <2>4, <2>5, <2>6 DEF SetEnabled, TypeOK, Pass, Toggles
<1>2. CASE \E t \in Togglers : ToggleResets(t)
  <2>1. PICK t \in Togglers : ToggleResets(t)
    BY <1>2
  <2> DEFINE c == [toggler[t] EXCEPT !.pc = "store"]
  <2>2. c \in Toggles /\ toggler' = [toggler EXCEPT ![t] = c]
    BY <2>1 DEF ToggleResets, Toggles, TypeOK
  <2> HIDE DEF c
  <2>3. toggler' \in [Togglers -> Toggles]
    BY <2>2 DEF TypeOK, Toggles
  <2>4. inst' \in [Instances -> Runtime]
    <3> DEFINE x == toggler[t].inst
    <3>1. inst' \in {inst, [inst EXCEPT ![x].strikes = 0], Strike(x)}
      BY <2>1 DEF ToggleResets
    <3> QED
      BY <3>1, StrikesStep DEF SameButStrikes
  <2> QED
    BY <2>1, <2>3, <2>4 DEF ToggleResets, TypeOK, Toggles, lists
<1>3. CASE \E t \in Togglers : ToggleStores(t)
  <2>1. PICK t \in Togglers : ToggleStores(t)
    BY <1>3
  <2>2. toggler' \in [Togglers -> Toggles]
    BY <2>1, IdleTypes DEF ToggleStores, TypeOK, Toggles
  <2>3. persisted' \subseteq Ids
    <3>1. toggler[t].id \in Ids
      BY <2>1 DEF ToggleStores, TogglesPlugins
    <3> QED
      BY <2>1, <3>1 DEF ToggleStores, TypeOK
  <2> QED
    BY <2>1, <2>2, <2>3 DEF ToggleStores, TypeOK, Toggles
<1>4. CASE \E i \in Ids : ClearDisabledState(i)
  <2>1. PICK i \in Ids : ClearDisabledState(i)
    BY <1>4
  <2>2. loader' \in [Loaders -> Pass]
    BY <2>1, TouchedStep DEF ClearDisabledState
  <2> QED
    BY <2>1, <2>2 DEF ClearDisabledState, TypeOK, Pass
<1> QED
  BY <1>1, <1>2, <1>3, <1>4 DEF ToggleStep

\* So do searches, other calls, the shutdown and the plugins directory.
LEMMA OtherTypes ==
  ASSUME TypeOK, SearchesPlugins,
         \/ \E s \in Searchers : SearchStep(s) \/ \E p \in Prefixes : SearchBegins(s, p)
         \/ \E x \in Instances : OtherCall(x)
         \/ \E i \in Ids : DiskChanges(i)
         \/ ShutdownBegins \/ ShutdownStops
  PROVE  TypeOK'
<1>1. CASE \E s \in Searchers : SearchStep(s) \/ \E p \in Prefixes : SearchBegins(s, p)
  <2>1. PICK s \in Searchers : SearchStep(s) \/ \E p \in Prefixes : SearchBegins(s, p)
    BY <1>1
  <2>2. searcher' \in [Searchers -> Searches]
    BY <2>1, SearchTypes
  <2>3. CASE SearchAnswers(s) \/ SearchTimesOut(s)
    <3> DEFINE x == searcher[s].inst
    <3>1. inst' \in {inst, [inst EXCEPT ![x].strikes = 0], Strike(x)}
      BY <2>3 DEF SearchAnswers, SearchTimesOut
    <3>2. inst' \in [Instances -> Runtime]
      BY <3>1, StrikesStep DEF SameButStrikes
    <3> QED
      BY <2>2, <2>3, <3>2 DEF SearchAnswers, SearchTimesOut, TypeOK, Searches, lists
  <2>4. CASE SearchJudges(s) \/ \E p \in Prefixes : SearchBegins(s, p)
    BY <2>2, <2>4 DEF SearchJudges, SearchBegins, TypeOK, Searches, lists
  <2>5. CASE Disable(s)
    <3> DEFINE i == searcher[s].id
    <3>1. CASE table[i] # Nobody /\ mode[i] = "on" /\ SetMode(i, "rule")
      <4>1. CASE i \in Ids
        BY <2>2, <2>5, <3>1, <4>1, SetModeStep DEF Disable, TypeOK, Searches, Mode
      <4>2. CASE i \notin Ids
        <5>1. searcher[s].pc = "condemning"
          BY <2>5 DEF Disable
        <5> QED
          BY <4>2, <5>1 DEF SearchesPlugins
      <4> QED
        BY <4>1, <4>2
    <3>2. CASE UNCHANGED <<mode, index, inst>>
      BY <2>2, <2>5, <3>2 DEF Disable, TypeOK, Searches
    <3> QED
      BY <2>5, <3>1, <3>2 DEF Disable
  <2> QED
    BY <2>1, <2>3, <2>4, <2>5 DEF SearchStep
<1>2. CASE \E x \in Instances : OtherCall(x)
  <2>1. PICK x \in Instances : OtherCall(x)
    BY <1>2
  <2>2. inst' \in {inst, [inst EXCEPT ![x].strikes = 0], Strike(x)}
    BY <2>1 DEF OtherCall
  <2>3. inst' \in [Instances -> Runtime]
    BY <2>2, StrikesStep DEF SameButStrikes
  <2> QED
    BY <2>1, <2>3 DEF OtherCall, TypeOK, lists, procs
<1>3. CASE \E i \in Ids : DiskChanges(i)
  BY <1>3 DEF DiskChanges, TypeOK, procs
<1>4. CASE ShutdownBegins
  <2>1. {table[i] : i \in Ids} \ {Nobody} \subseteq Instances
    BY DEF TypeOK, Slot
  <2>2. closing' \in [called : BOOLEAN, todo : SUBSET Instances]
    BY <1>4, <2>1 DEF ShutdownBegins
  <2> QED
    BY <1>4, <2>2 DEF ShutdownBegins, TypeOK, lists, procs
<1>5. CASE ShutdownStops
  <2>1. PICK x \in closing.todo : ShutDown(x) /\ closing' = [closing EXCEPT !.todo = @ \ {x}]
    BY <1>5 DEF ShutdownStops
  <2>2. x \in Instances /\ closing' \in [called : BOOLEAN, todo : SUBSET Instances]
    BY <2>1 DEF TypeOK
  <2>3. inst' \in [Instances -> Runtime]
    BY <2>1, <2>2, ShutDownStep
  <2> QED
    BY <1>5, <2>2, <2>3 DEF ShutdownStops, TypeOK, lists, procs
<1> QED
  BY <1>1, <1>2, <1>3, <1>4, <1>5

\* Toggles and searches that are not idle keep their plugin.
LEMMA ActorsStep ==
  ASSUME TypeOK, TogglesPlugins, SearchesPlugins, [Next]_vars
  PROVE  TogglesPlugins' /\ SearchesPlugins'
<1>1. CASE \E t \in Togglers, i \in Ids, on \in BOOLEAN : SetEnabled(t, i, on)
  BY <1>1 DEF SetEnabled, TypeOK, TogglesPlugins, SearchesPlugins
<1>2. CASE \E t \in Togglers : ToggleStep(t)
  <2>1. PICK t \in Togglers : ToggleResets(t) \/ ToggleStores(t)
    BY <1>2 DEF ToggleStep
  <2>2. \A u \in Togglers : u # t => toggler'[u] = toggler[u]
    BY <2>1 DEF ToggleResets, ToggleStores, TypeOK
  <2>3. CASE ToggleResets(t)
    <3>1. toggler[t].pc # "idle" /\ toggler'[t].id = toggler[t].id
      BY <2>3 DEF ToggleResets, TypeOK
    <3> QED
      BY <2>2, <2>3, <3>1 DEF ToggleResets, TogglesPlugins, SearchesPlugins
  <2>4. CASE ToggleStores(t)
    <3>1. toggler'[t].pc = "idle"
      BY <2>4 DEF ToggleStores, TypeOK, NoToggle
    <3> QED
      BY <2>2, <2>4, <3>1 DEF ToggleStores, TogglesPlugins, SearchesPlugins
  <2> QED
    BY <2>1, <2>3, <2>4
<1>3. CASE \E s \in Searchers, p \in Prefixes : SearchBegins(s, p)
  BY <1>3 DEF SearchBegins, TypeOK, TogglesPlugins, SearchesPlugins
<1>4. CASE \E s \in Searchers : SearchStep(s)
  <2>1. PICK s \in Searchers : SearchStep(s)
    BY <1>4
  <2>2. \A u \in Searchers : u # s => searcher'[u] = searcher[u]
    BY <2>1 DEF SearchStep, SearchAnswers, SearchTimesOut, SearchJudges, Disable, TypeOK
  <2>3. UNCHANGED toggler
    BY <2>1 DEF SearchStep, SearchAnswers, SearchTimesOut, SearchJudges, Disable
  <2> DEFINE c(pc) == [searcher[s] EXCEPT !.pc = pc]
  <2>4. NoSearch.pc = "idle" /\ \A pc : c(pc).id = searcher[s].id
    <3>1. searcher[s] \in Searches
      BY DEF TypeOK, Searches
    <3>2. NoSearch.pc = "idle"
      BY DEF NoSearch
    <3>3. ASSUME NEW pc PROVE c(pc).id = searcher[s].id
      BY <3>1 DEF Searches
    <3> QED
      BY <3>2, <3>3
  <2>5. searcher'[s].pc # "idle" =>
          searcher[s].pc # "idle" /\ searcher'[s].id = searcher[s].id
    <3>1. CASE SearchAnswers(s) \/ Disable(s)
      BY <2>4, <3>1 DEF SearchAnswers, Disable, TypeOK
    <3>2. CASE SearchTimesOut(s)
      <4>1. searcher'[s] = c("judging")
        BY <3>2 DEF SearchTimesOut, TypeOK
      <4>2. searcher[s].pc # "idle"
        BY <3>2 DEF SearchTimesOut
      <4> HIDE DEF c
      <4> QED
        BY <2>4, <4>1, <4>2
    <3>3. CASE SearchJudges(s)
      <4>1. searcher'[s] = IF inst[searcher[s].inst].strikes >= DisableStrikes
                           THEN c("condemning") ELSE NoSearch
        BY <3>3 DEF SearchJudges, TypeOK
      <4>2. searcher[s].pc # "idle"
        BY <3>3 DEF SearchJudges
      <4> HIDE DEF c
      <4> QED
        BY <2>4, <4>1, <4>2
    <3> QED
      BY <2>1, <3>1, <3>2, <3>3 DEF SearchStep
  <2> QED
    BY <2>2, <2>3, <2>5 DEF TogglesPlugins, SearchesPlugins
<1>5. CASE UNCHANGED <<toggler, searcher>>
  BY <1>5 DEF TogglesPlugins, SearchesPlugins
<1> QED
  BY <1>1, <1>2, <1>3, <1>4, <1>5
  DEF Next, vars, procs, PassStep, PassBegins, PassLoads, PassSwaps, PassRetires, PassEnds,
      DiskChanges, ClearDisabledState, OtherCall, ShutdownBegins, ShutdownStops

Types == TypeOK /\ TogglesPlugins /\ SearchesPlugins

\* Typing, with the plugin of every toggle and search, is inductive.
LEMMA TypesInductive ==
  /\ Init => Types
  /\ Types /\ [Next]_vars => Types'
<1>1. Init => Types
  BY InitTypes DEF Init, Types, TogglesPlugins, SearchesPlugins, NoToggle, NoSearch
<1>2. ASSUME Types, [Next]_vars PROVE Types'
  <2>1. CASE UNCHANGED vars
    <3>1. TypeOK'
      BY <1>2, <2>1 DEF Types, TypeOK, vars, lists, procs
    <3> QED
      BY <1>2, <3>1, ActorsStep DEF Types
  <2>2. CASE Next
    <3>1. TypeOK'
      BY <1>2, <2>2, PassTypes, ToggleTypes, OtherTypes DEF Next, Types
    <3> QED
      BY <1>2, <3>1, ActorsStep DEF Types
  <2> QED
    BY <1>2, <2>1, <2>2
<1> QED
  BY <1>1, <1>2

\* The plugin table, the passes, toggles and searches hold what they are meant to.
THEOREM TypeCorrect == Spec => []TypeOK
<1>1. Types => TypeOK
  BY DEF Types
<1> QED
  BY <1>1, TypesInductive, PTL DEF Spec

----------------------------------------------------------------------------
(* The command index: every change of the table or of a mode rebuilds it   *)
(* before the lock is released, so the property is inductive.              *)

\* No prefix leads to a plugin that is gone or disabled, none of an enabled
\* plugin is missing: rebuildCommandsLocked is called wherever it has to be.
THEOREM IndexCorrect == Spec => []IndexFollowsTable
<1>1. Init => IndexFollowsTable
  BY DEF Init, IndexFollowsTable, IndexOf
<1>2. ASSUME IndexFollowsTable, [Next]_vars PROVE IndexFollowsTable'
  <2>1. CASE \E l \in Loaders : PassSwaps(l)
    BY <2>1 DEF PassSwaps, IndexFollowsTable
  <2>2. CASE \E t \in Togglers, i \in Ids, on \in BOOLEAN : SetEnabled(t, i, on)
    BY <2>2 DEF SetEnabled, SetMode, IndexFollowsTable
  <2>3. CASE \E s \in Searchers : Disable(s)
    BY <1>2, <2>3 DEF Disable, SetMode, IndexFollowsTable
  <2>4. CASE UNCHANGED <<table, mode, index>>
    BY <1>2, <2>4 DEF IndexFollowsTable, IndexOf
  <2> QED
    BY <1>2, <2>1, <2>2, <2>3, <2>4
    DEF Next, vars, lists, PassStep, PassBegins, PassLoads, PassRetires, PassEnds,
        ToggleStep, ToggleResets, ToggleStores, SearchStep, SearchBegins, SearchAnswers,
        SearchTimesOut, SearchJudges, DiskChanges, ClearDisabledState, OtherCall,
        ShutdownBegins, ShutdownStops
<1> QED
  BY <1>1, <1>2, PTL DEF Spec

----------------------------------------------------------------------------
(* The user's choice. A pass reads it for each plugin when it loads it.    *)

\* Only a pass that loads has entries and fresh runtimes, only one that retires
\* has runtimes to shut down; nothing is decided of an entry still to be loaded.
PassShape == \A l \in Loaders :
  /\ loader[l].pc # "loading" =>
       loader[l].todo = {} /\ \A i \in Ids : loader[l].fresh[i] = Nobody
  /\ loader[l].pc # "retiring" => loader[l].old = {}
  /\ \A i \in loader[l].todo : loader[l].fresh[i] = Nobody /\ i \notin loader[l].off

\* What a pass must load disabled is persisted, in no toggle's hands, and if it
\* is loaded already then it is loaded disabled.
ChoiceKept == \A l \in Loaders :
  /\ loader[l].sure \subseteq persisted
  /\ \A t \in Togglers : toggler[t].id \notin loader[l].sure
  /\ \A i \in loader[l].sure :
       i \in loader[l].todo \/ loader[l].fresh[i] = Nobody \/ i \in loader[l].off

\* PassShape is inductive.
LEMMA ShapeStep ==
  ASSUME TypeOK, PassShape, [Next]_vars
  PROVE  PassShape'
<1>1. CASE \E l \in Loaders : PassBegins(l)
  <2>1. PICK l \in Loaders : PassBegins(l)
    BY <1>1
  <2>2. PICK c : loader' = [loader EXCEPT ![l] = c] /\ c = loader'[l]
    BY <2>1, BeginsStep
  <2> QED
    BY <2>1, <2>2, BeginsStep DEF PassShape, Pass, TypeOK
<1>2. CASE \E l \in Loaders : PassLoads(l)
  <2>1. PICK l \in Loaders : PassLoads(l)
    BY <1>2
  <2>2. PICK i \in loader[l].todo :
           /\ loader' = [loader EXCEPT ![l] = loader'[l]]
           /\ loader'[l].pc = loader[l].pc /\ loader'[l].old = loader[l].old
           /\ loader'[l].todo = loader[l].todo \ {i}
           /\ (\E x \in Instances : Loads(l, i, x)) \/ Skips(l)
    BY <2>1, LoadsStep
  <2>3. loader[l].pc = "loading"
    BY <2>2 DEF PassShape
  <2>4. loader[l] \in Pass /\ i \in Ids
    BY <2>2 DEF TypeOK, Pass
  <2>5. \A j \in Ids \ {i} : /\ loader'[l].fresh[j] = loader[l].fresh[j]
                             /\ j \in loader'[l].off <=> j \in loader[l].off
    BY <2>2, <2>4 DEF Loads, Skips, Pass
  <2>6. loader[l].todo \subseteq Ids
    BY <2>4 DEF Pass
  <2>7. \A k \in Loaders : k # l => loader'[k] = loader[k]
    BY <2>2 DEF TypeOK
  <2> QED
    BY <2>2, <2>3, <2>5, <2>6, <2>7 DEF PassShape
<1>3. CASE \E l \in Loaders : PassSwaps(l)
  <2>1. PICK l \in Loaders : PassSwaps(l)
    BY <1>3
  <2>2. \A k \in Loaders : k # l => loader'[k] = loader[k]
    BY <2>1, SwapsStep DEF TypeOK
  <2> QED
    BY <2>1, <2>2, SwapsStep DEF PassShape
<1>4. CASE \E l \in Loaders : PassRetires(l)
  <2> PICK l \in Loaders : PassRetires(l)
    BY <1>4
  <2>1. PICK x \in loader[l].old : loader' = [loader EXCEPT ![l].old = @ \ {x}]
    BY DEF PassRetires
  <2>2. \A k \in Loaders : k # l => loader'[k] = loader[k]
    BY <2>1, RetiresStep DEF TypeOK
  <2> QED
    BY <2>1, <2>2, RetiresStep DEF PassShape
<1>5. CASE \E l \in Loaders : PassEnds(l)
  BY <1>5, NoPassType DEF PassEnds, PassShape, TypeOK
<1>6. CASE \E i \in Ids : Touched(i)
  BY <1>6, TouchedStep DEF PassShape
<1>7. CASE UNCHANGED loader
  BY <1>7 DEF PassShape
<1> QED
  BY <1>1, <1>2, <1>3, <1>4, <1>5, <1>6, <1>7
  DEF Next, vars, procs, PassStep, SetEnabled, ToggleStep, ToggleResets, ToggleStores,
      SearchStep, SearchBegins, SearchAnswers, SearchTimesOut, SearchJudges, Disable,
      DiskChanges, ClearDisabledState, OtherCall, ShutdownBegins, ShutdownStops

\* So is ChoiceKept: every way to change what is persisted makes the plugin unsure
\* or spares what is sure.
LEMMA ChoiceStep ==
  ASSUME TypeOK, PassShape, ChoiceKept, [Next]_vars
  PROVE  ChoiceKept'
<1>1. CASE \E l \in Loaders : PassBegins(l)
  <2>1. PICK l \in Loaders : PassBegins(l)
    BY <1>1
  <2>2. \A k \in Loaders : k # l => loader'[k] = loader[k]
    BY <2>1, BeginsStep DEF TypeOK
  <2>3. \A i \in loader'[l].sure : loader'[l].fresh[i] = Nobody /\ i \in persisted
    BY <2>1, BeginsStep DEF TypeOK
  <2>4. \A t \in Togglers : toggler[t].id \notin loader'[l].sure
    BY <2>1, BeginsStep
  <2>5. UNCHANGED <<persisted, toggler>>
    BY <2>1 DEF PassBegins, lists
  <2> QED
    BY <2>2, <2>3, <2>4, <2>5 DEF ChoiceKept
<1>2. CASE \E l \in Loaders : PassLoads(l)
  <2>1. PICK l \in Loaders : PassLoads(l)
    BY <1>2
  <2>2. PICK i \in loader[l].todo :
           /\ loader' = [loader EXCEPT ![l] = loader'[l]]
           /\ loader'[l].sure = loader[l].sure
           /\ loader'[l].todo = loader[l].todo \ {i}
           /\ (\E x \in Instances : Loads(l, i, x)) \/ Skips(l)
    BY <2>1, LoadsStep
  <2>3. loader[l] \in Pass /\ i \in Ids /\ loader[l].fresh[i] = Nobody
    BY <2>2 DEF TypeOK, Pass, PassShape
  <2>4. \A k \in Loaders : k # l => loader'[k] = loader[k]
    BY <2>2 DEF TypeOK
  <2>5. UNCHANGED <<persisted, toggler>>
    BY <2>1 DEF PassLoads, lists
  <2>6. \A j \in loader[l].sure :
          j \in loader'[l].todo \/ loader'[l].fresh[j] = Nobody \/ j \in loader'[l].off
    <3> SUFFICES ASSUME NEW j \in loader[l].sure
                 PROVE  \/ j \in loader'[l].todo
                        \/ loader'[l].fresh[j] = Nobody \/ j \in loader'[l].off
      OBVIOUS
    <3>1. j \in persisted /\ j \in Ids
      BY <2>3 DEF ChoiceKept, Pass
    <3>2. j \in loader[l].todo \/ loader[l].fresh[j] = Nobody \/ j \in loader[l].off
      BY DEF ChoiceKept
    <3>3. CASE j = i
      BY <2>2, <2>3, <3>1, <3>3 DEF Loads, Skips
    <3>4. CASE j # i
      BY <2>2, <2>3, <3>1, <3>2, <3>4 DEF Loads, Skips, Pass
    <3> QED
      BY <3>3, <3>4
  <2> QED
    BY <2>2, <2>4, <2>5, <2>6 DEF ChoiceKept
<1>3. CASE \E l \in Loaders : PassSwaps(l)
  <2>1. PICK l \in Loaders : PassSwaps(l)
    BY <1>3
  <2>2. \A k \in Loaders : k # l => loader'[k] = loader[k]
    BY <2>1, SwapsStep DEF TypeOK
  <2>3. loader'[l].sure = {} /\ UNCHANGED <<persisted, toggler>>
    BY <2>1, SwapsStep DEF PassSwaps
  <2> QED
    BY <2>2, <2>3 DEF ChoiceKept
<1>4. CASE \E l \in Loaders : PassRetires(l)
  <2> PICK l \in Loaders : PassRetires(l)
    BY <1>4
  <2>1. PICK x \in loader[l].old : loader' = [loader EXCEPT ![l].old = @ \ {x}]
    BY DEF PassRetires
  <2>2. \A k \in Loaders : k # l => loader'[k] = loader[k]
    BY <2>1, RetiresStep DEF TypeOK
  <2>3. UNCHANGED <<persisted, toggler>>
    BY DEF PassRetires, lists
  <2> QED
    BY <2>1, <2>2, <2>3, RetiresStep DEF ChoiceKept
<1>5. CASE \E l \in Loaders : PassEnds(l)
  BY <1>5, NoPassType DEF PassEnds, ChoiceKept, TypeOK, lists
<1>6. CASE \E t \in Togglers, i \in Ids, on \in BOOLEAN : SetEnabled(t, i, on)
  <2>1. PICK t \in Togglers, i \in Ids, on \in BOOLEAN : SetEnabled(t, i, on)
    BY <1>6
  <2>2. /\ UNCHANGED persisted /\ Touched(i)
        /\ \A u \in Togglers : toggler'[u].id \in {toggler[u].id, i}
    BY <2>1 DEF SetEnabled, TypeOK
  <2> QED
    BY <2>2, TouchedStep DEF ChoiceKept
<1>7. CASE \E t \in Togglers : ToggleResets(t)
  <2>1. PICK t \in Togglers : ToggleResets(t)
    BY <1>7
  <2>2. \A u \in Togglers : toggler'[u].id = toggler[u].id
    BY <2>1 DEF ToggleResets, TypeOK
  <2> QED
    BY <2>1, <2>2 DEF ToggleResets, ChoiceKept, lists
<1>8. CASE \E t \in Togglers : ToggleStores(t)
  <2>1. PICK t \in Togglers : ToggleStores(t)
    BY <1>8
  <2>2. \A u \in Togglers : toggler'[u].id \in {toggler[u].id, Nobody}
    BY <2>1 DEF ToggleStores, NoToggle, TypeOK
  <2>3. \A l \in Loaders : Nobody \notin loader[l].sure
    BY ManagerAssumption DEF ChoiceKept, TypeOK
  <2>4. persisted \ {toggler[t].id} \subseteq persisted'
    BY <2>1 DEF ToggleStores
  <2>5. UNCHANGED loader
    BY <2>1 DEF ToggleStores
  <2> QED
    BY <2>2, <2>3, <2>4, <2>5 DEF ChoiceKept
<1>9. CASE \E i \in Ids : ClearDisabledState(i)
  <2>1. PICK i \in Ids : ClearDisabledState(i)
    BY <1>9
  <2>2. persisted' = persisted \ {i} /\ UNCHANGED toggler /\ Touched(i)
    BY <2>1 DEF ClearDisabledState
  <2> QED
    BY <2>2, TouchedStep DEF ChoiceKept
<1>10. CASE UNCHANGED <<persisted, toggler, loader>>
  BY <1>10 DEF ChoiceKept
<1> QED
  BY <1>1, <1>2, <1>3, <1>4, <1>5, <1>6, <1>7, <1>8, <1>9, <1>10
  DEF Next, vars, lists, procs, PassStep, ToggleStep, SearchStep, SearchBegins, SearchAnswers,
      SearchTimesOut, SearchJudges, Disable, DiskChanges, OtherCall,
      ShutdownBegins, ShutdownStops

\* Initially no pass has begun.
LEMMA InitPasses == Init => PassShape /\ ChoiceKept
BY NoPassType DEF Init, PassShape, ChoiceKept

\* Only its swap takes a pass from loading to retiring.
LEMMA OnlySwaps ==
  ASSUME TypeOK, [Next]_vars, NEW l \in Loaders,
         loader[l].pc = "loading", loader'[l].pc = "retiring"
  PROVE  PassSwaps(l)
<1>1. CASE \E k \in Loaders : PassBegins(k)
  BY <1>1, BeginsStep DEF TypeOK
<1>2. CASE \E k \in Loaders : PassLoads(k)
  <2>1. PICK k \in Loaders : PassLoads(k)
    BY <1>2
  <2>2. loader' = [loader EXCEPT ![k] = loader'[k]] /\ loader'[k].pc = loader[k].pc
    BY <2>1, LoadsStep
  <2> QED
    BY <2>2 DEF TypeOK
<1>3. CASE \E k \in Loaders : PassSwaps(k)
  <2>1. PICK k \in Loaders : PassSwaps(k)
    BY <1>3
  <2>2. k # l => loader'[l] = loader[l]
    BY <2>1, SwapsStep DEF TypeOK
  <2> QED
    BY <2>1, <2>2
<1>4. CASE \E k \in Loaders : PassRetires(k)
  <2> PICK k \in Loaders : PassRetires(k)
    BY <1>4
  <2>1. PICK x \in loader[k].old : loader' = [loader EXCEPT ![k].old = @ \ {x}]
    BY DEF PassRetires
  <2> QED
    BY <2>1, RetiresStep DEF TypeOK
<1>5. CASE \E k \in Loaders : PassEnds(k)
  BY <1>5, NoPassType DEF PassEnds, TypeOK
<1>6. CASE \E i \in Ids : Touched(i)
  BY <1>6, TouchedStep
<1>7. CASE UNCHANGED loader
  BY <1>7
<1> QED
  BY <1>1, <1>2, <1>3, <1>4, <1>5, <1>6, <1>7
  DEF Next, vars, procs, PassStep, SetEnabled, ToggleStep, ToggleResets, ToggleStores,
      SearchStep, SearchBegins, SearchAnswers, SearchTimesOut, SearchJudges, Disable,
      DiskChanges, ClearDisabledState, OtherCall, ShutdownBegins, ShutdownStops

\* A reload keeps a plugin disabled that the user had disabled, and whose choice
\* was persisted, before the pass began and did not touch during it: LoadAll
\* reads the store for each plugin as it loads it.
THEOREM ChoiceSurvivesReload == Spec => ReloadKeepsUserChoice
<1> DEFINE Inv == Types /\ PassShape /\ ChoiceKept
<1>1. Init => Inv
  BY InitPasses, TypesInductive
<1>2. Inv /\ [Next]_vars => Inv'
  BY TypesInductive, ShapeStep, ChoiceStep DEF Types
<1>3. ASSUME Inv, [Next]_vars, NEW l \in Loaders,
             loader[l].pc = "loading", loader'[l].pc = "retiring",
             NEW i \in loader[l].sure, table'[i] # Nobody
      PROVE  mode'[i] # "on"
  <2>1. PassSwaps(l)
    BY <1>3, OnlySwaps DEF Types
  <2>2. loader[l].todo = {} /\ table' = loader[l].fresh
    BY <2>1 DEF PassSwaps
  <2>3. i \in loader[l].off /\ i \in Ids
    BY <1>3, <2>2 DEF ChoiceKept, Types, TypeOK
  <2> QED
    BY <2>1, <2>3 DEF PassSwaps
<1>4. ASSUME Inv, [Next]_vars
      PROVE  \A l \in Loaders : loader[l].pc = "loading" /\ loader'[l].pc = "retiring" =>
               \A i \in loader[l].sure : table'[i] # Nobody => mode'[i] # "on"
  BY <1>3, <1>4
<1> HIDE DEF Inv
<1> QED
  BY <1>1, <1>2, <1>4, PTL DEF Spec, ReloadKeepsUserChoice

----------------------------------------------------------------------------
(* The runtimes: no leak, and timers that follow the mode. Both need to    *)
(* know who holds which runtime.                                           *)

\* A runtime is in one pair of hands: of one entry of the table, or of one pass
\* that has it in its fresh table or is to shut it down. Shutdown's list shares
\* runtimes with the table and with passes that retire it, not with fresh ones.
Owners ==
  /\ \A i, j \in Ids : table[i] = table[j] /\ table[i] # Nobody => i = j
  /\ \A l \in Loaders, i \in Ids : loader[l].fresh[i] # Nobody =>
       /\ \A j \in Ids : table[j] # loader[l].fresh[i]
       /\ \A k \in Loaders : loader[l].fresh[i] \notin loader[k].old
       /\ \A k \in Loaders, j \in Ids :
            loader[k].fresh[j] = loader[l].fresh[i] => k = l /\ j = i
       /\ loader[l].fresh[i] \notin closing.todo
  /\ \A l \in Loaders : \A x \in loader[l].old :
       /\ \A i \in Ids : table[i] # x
       /\ \A k \in Loaders : x \in loader[k].old => k = l

\* A fresh runtime is live and its timers obey the choice the pass has read; the
\* table's are live until Shutdown.
Alive ==
  /\ \A l \in Loaders, i \in Ids : loader[l].fresh[i] # Nobody =>
       /\ inst[loader[l].fresh[i]].life = "live"
       /\ inst[loader[l].fresh[i]].background = (i \notin loader[l].off)
  /\ ~closing.called =>
       closing.todo = {} /\ \A i \in Ids : table[i] # Nobody => inst[table[i]].life = "live"

RuntimeInv == Owners /\ Alive /\ NoRuntimeLeaks /\ BackgroundFollowsMode

\* Nobody's hands change.
SameHands ==
  /\ UNCHANGED <<table, closing>>
  /\ \A l \in Loaders : /\ loader'[l].fresh = loader[l].fresh
                        /\ loader'[l].off = loader[l].off
                        /\ loader'[l].old = loader[l].old

\* The types of what is held.
LEMMA HandTypes ==
  ASSUME TypeOK
  PROVE  /\ \A i \in Ids : table[i] \in Slot
         /\ \A l \in Loaders : /\ loader[l].old \subseteq Instances
                               /\ loader[l].fresh \in [Ids -> Slot]
                               /\ loader[l].off \subseteq Ids /\ loader[l].todo \subseteq Ids
         /\ closing.todo \subseteq Instances
         /\ Nobody \notin Instances
BY ManagerAssumption DEF TypeOK

\* Strikes, stores and the disk move no runtime.
LEMMA CalmStep ==
  ASSUME TypeOK, RuntimeInv, SameHands, SameButStrikes, UNCHANGED mode
  PROVE  RuntimeInv'
<1>1. Owners'
  BY DEF RuntimeInv, Owners, SameHands
<1>2. Alive'
  BY HandTypes DEF RuntimeInv, Alive, SameHands, SameButStrikes, Slot
<1>3. NoRuntimeLeaks'
  BY DEF RuntimeInv, NoRuntimeLeaks, InTable, SameHands, SameButStrikes
<1>4. BackgroundFollowsMode'
  BY HandTypes DEF RuntimeInv, BackgroundFollowsMode, InTable, SameHands, SameButStrikes, Slot
<1> QED
  BY <1>1, <1>2, <1>3, <1>4 DEF RuntimeInv

\* Enabling or disabling a plugin of the table tells the timers of its runtime,
\* and those of no other.
LEMMA ModeStep ==
  ASSUME TypeOK, RuntimeInv, SameHands,
         NEW i \in Ids, NEW m \in Mode, table[i] # Nobody, SetMode(i, m)
  PROVE  RuntimeInv'
<1>1. /\ mode' = [mode EXCEPT ![i] = m] /\ table[i] \in Instances
      /\ inst' = [inst EXCEPT ![table[i]] = inst'[table[i]]]
      /\ inst'[table[i]].life = inst[table[i]].life
      /\ inst'[table[i]].background = (m = "on")
  BY SetModeStep
<1>2. /\ \A x \in Instances : x # table[i] => inst'[x] = inst[x]
      /\ \A x \in Instances : inst'[x].life = inst[x].life
  BY <1>1 DEF TypeOK
<1>3. Owners'
  BY DEF RuntimeInv, Owners, SameHands
<1>4. Alive'
  <2>1. \A l \in Loaders, j \in Ids : loader[l].fresh[j] # Nobody =>
          loader[l].fresh[j] # table[i] /\ loader[l].fresh[j] \in Instances
    BY HandTypes DEF RuntimeInv, Owners, Slot
  <2>2. \A j \in Ids : table[j] # Nobody => table[j] \in Instances
    BY HandTypes DEF Slot
  <2> QED
    BY <1>2, <2>1, <2>2 DEF RuntimeInv, Alive, SameHands
<1>5. NoRuntimeLeaks'
  BY <1>2 DEF RuntimeInv, NoRuntimeLeaks, InTable, SameHands
<1>6. BackgroundFollowsMode'
  <2>1. \A j \in Ids : j # i => mode'[j] = mode[j]
    BY <1>1 DEF TypeOK
  <2>2. mode'[i] = m
    BY <1>1 DEF TypeOK
  <2>3. ASSUME NEW j \in Ids, table[j] # Nobody, inst'[table[j]].life = "live"
        PROVE  inst'[table[j]].background = (mode'[j] = "on")
    <3>1. CASE j = i
      BY <1>1, <2>2, <3>1
    <3>2. CASE j # i
      <4>1. table[j] # table[i] /\ table[j] \in Instances
        BY <2>3, <3>2, HandTypes DEF RuntimeInv, Owners, Slot
      <4> QED
        BY <1>2, <2>1, <2>3, <3>2, <4>1 DEF RuntimeInv, BackgroundFollowsMode
    <3> QED
      BY <3>1, <3>2
  <2>4. ASSUME NEW x \in Instances, ~InTable(x), inst'[x].life = "shut", ~closing.called
        PROVE  ~inst'[x].background
    <3>1. x # table[i]
      BY <2>4 DEF InTable
    <3> QED
      BY <1>2, <2>4, <3>1 DEF RuntimeInv, BackgroundFollowsMode
  <2> QED
    BY <2>3, <2>4 DEF SameHands, BackgroundFollowsMode, InTable
<1> QED
  BY <1>3, <1>4, <1>5, <1>6 DEF RuntimeInv

\* A plugin is loaded into a runtime nobody holds; no fresh one is overwritten.
LEMMA LoadsRuntime ==
  ASSUME TypeOK, PassShape, RuntimeInv, NEW l \in Loaders, PassLoads(l)
  PROVE  RuntimeInv'
<1>1. PICK i \in loader[l].todo :
         /\ loader' = [loader EXCEPT ![l] = loader'[l]]
         /\ loader'[l].old = loader[l].old
         /\ (\E x \in Instances : Loads(l, i, x)) \/ Skips(l)
  BY LoadsStep
<1>2. UNCHANGED <<table, mode, closing>>
  BY DEF PassLoads, lists
<1>3. \A k \in Loaders : k # l => loader'[k] = loader[k]
  BY <1>1 DEF TypeOK
<1>4. CASE Skips(l)
  <2>1. SameHands
    BY <1>1, <1>2, <1>3, <1>4 DEF SameHands, Skips
  <2>2. SameButStrikes
    BY <1>4 DEF SameButStrikes, Skips, TypeOK
  <2> QED
    BY <1>2, <2>1, <2>2, CalmStep
<1>5. CASE \E x \in Instances : Loads(l, i, x)
  <2>1. PICK x \in Instances : Loads(l, i, x)
    BY <1>5
  <2>2. i \in Ids /\ loader[l].fresh[i] = Nobody
    BY HandTypes DEF PassShape
  <2>3. /\ loader'[l].fresh[i] = x
        /\ \A j \in Ids : j # i => loader'[l].fresh[j] = loader[l].fresh[j]
        /\ \A j \in Ids : j # i => (j \in loader'[l].off <=> j \in loader[l].off)
    BY <2>1, <2>2, HandTypes DEF Loads
  <2>4. /\ inst'[x].life = "live" /\ inst'[x].background = (i \notin persisted)
        /\ \A y \in Instances : y # x => inst'[y] = inst[y]
    BY <2>1 DEF Loads, TypeOK
  <2>5. /\ \A j \in Ids : table[j] # x
        /\ \A k \in Loaders : x \notin loader[k].old /\ \A j \in Ids : loader[k].fresh[j] # x
        /\ x \notin closing.todo
    BY <2>1 DEF Loads, Held, InTable
  <2>6. x # Nobody /\ \A k \in Loaders : loader'[k].old = loader[k].old
    BY <1>1, <1>3, HandTypes
  <2>7. Owners'
    <3>1. ASSUME NEW k \in Loaders, NEW j \in Ids
          PROVE  loader'[k].fresh[j] = IF k = l /\ j = i THEN x ELSE loader[k].fresh[j]
      BY <1>3, <2>3
    <3> QED
      BY <1>2, <2>5, <2>6, <3>1 DEF RuntimeInv, Owners
  <2>8. Alive'
    <3>1. ASSUME NEW k \in Loaders, NEW j \in Ids, loader'[k].fresh[j] # Nobody
          PROVE  /\ inst'[loader'[k].fresh[j]].life = "live"
                 /\ inst'[loader'[k].fresh[j]].background = (j \notin loader'[k].off)
      <4>1. CASE k = l /\ j = i
        <5>1. i \in loader'[l].off <=> i \in persisted
          BY <2>1 DEF Loads, PassShape
        <5> QED
          BY <2>3, <2>4, <4>1, <5>1
      <4>2. CASE ~(k = l /\ j = i)
        <5>1. /\ loader'[k].fresh[j] = loader[k].fresh[j]
              /\ j \in loader'[k].off <=> j \in loader[k].off
          BY <1>3, <2>3, <4>2
        <5>2. loader[k].fresh[j] \in Instances /\ loader[k].fresh[j] # x
          BY <2>5, <3>1, <5>1, HandTypes DEF Slot
        <5> QED
          BY <2>4, <3>1, <5>1, <5>2 DEF RuntimeInv, Alive
      <4> QED
        BY <4>1, <4>2
    <3>2. \A j \in Ids : table[j] # Nobody => table[j] \in Instances /\ table[j] # x
      BY <2>5, HandTypes DEF Slot
    <3> QED
      BY <1>2, <2>4, <3>1, <3>2 DEF RuntimeInv, Alive
  <2>9. NoRuntimeLeaks'
    <3> SUFFICES ASSUME NEW y \in Instances, inst'[y].life = "live"
                 PROVE  InTable(y)' \/ \E k \in Loaders : \/ y \in loader'[k].old
                                                          \/ \E j \in Ids : loader'[k].fresh[j] = y
      BY DEF NoRuntimeLeaks
    <3>1. CASE y = x
      BY <2>2, <2>3, <3>1
    <3>2. CASE y # x
      <4>1. \/ InTable(y)
            \/ \E k \in Loaders : y \in loader[k].old \/ \E j \in Ids : loader[k].fresh[j] = y
        BY <2>4, <3>2 DEF RuntimeInv, NoRuntimeLeaks
      <4>2. \A k \in Loaders, j \in Ids : loader[k].fresh[j] = y => loader'[k].fresh[j] = y
        BY <1>3, <2>2, <2>3, HandTypes
      <4> QED
        BY <1>2, <2>6, <4>1, <4>2 DEF InTable
    <3> QED
      BY <3>1, <3>2
  <2>10. BackgroundFollowsMode'
    <3>1. \A j \in Ids : table[j] # Nobody => table[j] \in Instances /\ table[j] # x
      BY <2>5, HandTypes DEF Slot
    <3> QED
      BY <1>2, <2>4, <3>1 DEF RuntimeInv, BackgroundFollowsMode, InTable
  <2> QED
    BY <2>7, <2>8, <2>9, <2>10 DEF RuntimeInv
<1> QED
  BY <1>1, <1>4, <1>5

\* A pass that begins or ends holds nothing.
LEMMA EdgeRuntime ==
  ASSUME TypeOK, PassShape, RuntimeInv, NEW l \in Loaders, PassBegins(l) \/ PassEnds(l)
  PROVE  RuntimeInv'
<1>1. /\ \A k \in Loaders : k # l => loader'[k] = loader[k]
      /\ loader'[l].old = {} /\ \A i \in Ids : loader'[l].fresh[i] = Nobody
  BY BeginsStep, NoPassType DEF PassEnds, TypeOK
<1>2. loader[l].old = {} /\ \A i \in Ids : loader[l].fresh[i] = Nobody
  BY DEF PassBegins, PassEnds, PassShape
<1>3. UNCHANGED <<table, mode, inst, closing>>
  BY DEF PassBegins, PassEnds, lists
<1>4. Owners'
  BY <1>1, <1>3 DEF RuntimeInv, Owners
<1>5. Alive'
  BY <1>1, <1>3 DEF RuntimeInv, Alive
<1>6. NoRuntimeLeaks'
  <2>1. \A k \in Loaders : /\ loader'[k].old = loader[k].old
                           /\ \A i \in Ids : loader'[k].fresh[i] = loader[k].fresh[i]
    BY <1>1, <1>2
  <2> QED
    BY <1>3, <2>1 DEF RuntimeInv, NoRuntimeLeaks, InTable
<1>7. BackgroundFollowsMode'
  BY <1>3 DEF RuntimeInv, BackgroundFollowsMode, InTable
<1> QED
  BY <1>4, <1>5, <1>6, <1>7 DEF RuntimeInv

\* The swap hands the fresh runtimes to the table and the table's to the pass.
LEMMA SwapsRuntime ==
  ASSUME TypeOK, PassShape, RuntimeInv, NEW l \in Loaders, PassSwaps(l)
  PROVE  RuntimeInv'
<1>1. /\ \A k \in Loaders : k # l => loader'[k] = loader[k]
      /\ loader'[l].old = {table[i] : i \in Ids} \ {Nobody}
      /\ \A i \in Ids : loader'[l].fresh[i] = Nobody
  BY SwapsStep DEF TypeOK
<1>2. /\ UNCHANGED <<inst, closing>> /\ table' = loader[l].fresh
      /\ \A i \in Ids : mode'[i] = IF i \in loader[l].off THEN "user" ELSE "on"
  BY DEF PassSwaps
<1>3. loader[l].old = {}
  BY DEF PassSwaps, PassShape
<1>4. Owners'
  <2>1. \A i, j \in Ids : table'[i] = table'[j] /\ table'[i] # Nobody => i = j
    BY <1>2 DEF RuntimeInv, Owners
  <2>2. ASSUME NEW k \in Loaders, NEW i \in Ids, loader'[k].fresh[i] # Nobody
        PROVE  /\ \A j \in Ids : table'[j] # loader'[k].fresh[i]
               /\ \A h \in Loaders : loader'[k].fresh[i] \notin loader'[h].old
               /\ \A h \in Loaders, j \in Ids :
                    loader'[h].fresh[j] = loader'[k].fresh[i] => h = k /\ j = i
               /\ loader'[k].fresh[i] \notin closing.todo
    <3>1. k # l /\ loader'[k].fresh[i] = loader[k].fresh[i]
      BY <1>1, <2>2
    <3> QED
      BY <1>1, <1>2, <2>2, <3>1 DEF RuntimeInv, Owners
  <2>3. ASSUME NEW k \in Loaders, NEW x \in loader'[k].old
        PROVE  /\ \A i \in Ids : table'[i] # x
               /\ \A h \in Loaders : x \in loader'[h].old => h = k
    <3>1. x # Nobody
      BY <1>1, HandTypes
    <3> QED
      BY <1>1, <1>2, <3>1 DEF RuntimeInv, Owners
  <2> QED
    BY <1>2, <2>1, <2>2, <2>3 DEF Owners
<1>5. Alive'
  BY <1>1, <1>2 DEF RuntimeInv, Alive
<1>6. NoRuntimeLeaks'
  <2> SUFFICES ASSUME NEW y \in Instances, inst[y].life = "live"
               PROVE  \/ \E j \in Ids : loader[l].fresh[j] = y
                      \/ \E k \in Loaders : \/ y \in loader'[k].old
                                            \/ \E j \in Ids : loader'[k].fresh[j] = y
    BY <1>2 DEF NoRuntimeLeaks, InTable
  <2>1. y # Nobody
    BY HandTypes
  <2>2. CASE InTable(y)
    BY <1>1, <2>1, <2>2 DEF InTable
  <2>3. CASE \E k \in Loaders : y \in loader[k].old \/ \E j \in Ids : loader[k].fresh[j] = y
    BY <1>1, <1>3, <2>3
  <2> QED
    BY <2>2, <2>3 DEF RuntimeInv, NoRuntimeLeaks
<1>7. BackgroundFollowsMode'
  <2>1. ASSUME NEW i \in Ids, table'[i] # Nobody
        PROVE  inst[table'[i]].background = (mode'[i] = "on")
    BY <1>2, <2>1 DEF RuntimeInv, Alive
  <2>2. ASSUME NEW x \in Instances, inst[x].life = "shut", ~closing.called
        PROVE  ~InTable(x)
    BY <2>2, HandTypes DEF RuntimeInv, Alive, InTable
  <2>3. \A x \in Instances : inst[x].life = "shut" /\ ~closing.called => ~inst[x].background
    BY <2>2 DEF RuntimeInv, BackgroundFollowsMode
  <2> QED
    BY <1>2, <2>1, <2>3 DEF BackgroundFollowsMode
<1> QED
  BY <1>4, <1>5, <1>6, <1>7 DEF RuntimeInv

\* Shutting down a runtime that is no fresh one, and is in the table only once
\* Shutdown was called.
LEMMA StopsRuntime ==
  ASSUME TypeOK, RuntimeInv, NEW x \in Instances, ShutDown(x),
         \A l \in Loaders, i \in Ids : loader[l].fresh[i] # x,
         InTable(x) => closing.called,
         UNCHANGED <<table, mode>>, closing'.called = closing.called,
         closing'.todo \subseteq closing.todo,
         \A l \in Loaders : /\ loader'[l].fresh = loader[l].fresh
                            /\ loader'[l].off = loader[l].off
                            /\ loader'[l].old \in {loader[l].old, loader[l].old \ {x}}
  PROVE  RuntimeInv'
<1>1. /\ \A y \in Instances : y # x => inst'[y] = inst[y]
      /\ inst'[x].life = "shut"
      /\ inst[x].life # "shut" => ~inst'[x].background
      /\ inst[x].life = "shut" => inst'[x] = inst[x]
  BY ShutDownStep DEF TypeOK
<1>2. Owners'
  BY DEF RuntimeInv, Owners
<1>3. Alive'
  <2>1. \A l \in Loaders, i \in Ids : loader[l].fresh[i] # Nobody =>
          loader[l].fresh[i] \in Instances /\ loader[l].fresh[i] # x
    BY HandTypes DEF Slot
  <2>2. ~closing.called => \A i \in Ids : table[i] # Nobody =>
          table[i] \in Instances /\ table[i] # x
    BY HandTypes DEF Slot, InTable
  <2> QED
    BY <1>1, <2>1, <2>2 DEF RuntimeInv, Alive
<1>4. NoRuntimeLeaks'
  BY <1>1 DEF RuntimeInv, NoRuntimeLeaks, InTable
<1>5. BackgroundFollowsMode'
  <2>1. ASSUME NEW i \in Ids, table[i] # Nobody, inst'[table[i]].life = "live"
        PROVE  inst'[table[i]].background = (mode[i] = "on")
    BY <1>1, <2>1, HandTypes DEF RuntimeInv, BackgroundFollowsMode, Slot
  <2>2. ASSUME NEW y \in Instances, ~InTable(y), inst'[y].life = "shut", ~closing.called
        PROVE  ~inst'[y].background
    BY <1>1, <2>2 DEF RuntimeInv, BackgroundFollowsMode
  <2> QED
    BY <2>1, <2>2 DEF BackgroundFollowsMode, InTable
<1> QED
  BY <1>2, <1>3, <1>4, <1>5 DEF RuntimeInv

\* What a pass retires is neither fresh nor in the table.
LEMMA RetiresRuntime ==
  ASSUME TypeOK, RuntimeInv, NEW l \in Loaders, PassRetires(l)
  PROVE  RuntimeInv'
<1>1. PICK x \in loader[l].old : ShutDown(x) /\ loader' = [loader EXCEPT ![l].old = @ \ {x}]
  BY DEF PassRetires
<1>2. x \in Instances /\ x # Nobody
  BY HandTypes
<1>3. /\ \A k \in Loaders, i \in Ids : loader[k].fresh[i] # x
      /\ ~InTable(x)
  BY <1>2 DEF RuntimeInv, Owners, InTable
<1>4. UNCHANGED <<table, mode, closing>>
  BY DEF PassRetires, lists
<1>5. \A k \in Loaders : /\ loader'[k].fresh = loader[k].fresh
                         /\ loader'[k].off = loader[k].off
                         /\ loader'[k].old \in {loader[k].old, loader[k].old \ {x}}
  <2>1. \A k \in Loaders : k # l => loader'[k] = loader[k]
    BY <1>1, RetiresStep DEF TypeOK
  <2> QED
    BY <1>1, <2>1, RetiresStep
<1> QED
  BY <1>1, <1>2, <1>3, <1>4, <1>5, StopsRuntime

\* What Shutdown stops is no fresh runtime, and it has been called.
LEMMA ShutdownRuntime ==
  ASSUME TypeOK, RuntimeInv, ShutdownBegins \/ ShutdownStops
  PROVE  RuntimeInv'
<1>1. CASE ShutdownBegins
  <2>1. /\ closing'.called /\ closing'.todo = {table[i] : i \in Ids} \ {Nobody}
        /\ UNCHANGED <<table, mode, inst, loader>>
    BY <1>1 DEF ShutdownBegins, lists, procs
  <2>2. Owners'
    BY <2>1 DEF RuntimeInv, Owners
  <2>3. Alive' /\ NoRuntimeLeaks' /\ BackgroundFollowsMode'
    BY <2>1 DEF RuntimeInv, Alive, NoRuntimeLeaks, BackgroundFollowsMode, InTable
  <2> QED
    BY <2>2, <2>3 DEF RuntimeInv
<1>2. CASE ShutdownStops
  <2>1. PICK x \in closing.todo : ShutDown(x) /\ closing' = [closing EXCEPT !.todo = @ \ {x}]
    BY <1>2 DEF ShutdownStops
  <2>2. x \in Instances /\ x # Nobody
    BY HandTypes
  <2>3. /\ closing.called
        /\ \A l \in Loaders, i \in Ids : loader[l].fresh[i] # x
    BY <2>2 DEF RuntimeInv, Alive, Owners
  <2>4. closing'.called = closing.called /\ closing'.todo \subseteq closing.todo
    BY <2>1 DEF TypeOK
  <2>5. UNCHANGED <<table, mode, loader>>
    BY <1>2 DEF ShutdownStops, lists, procs
  <2> QED
    BY <2>1, <2>2, <2>3, <2>4, <2>5, StopsRuntime
<1> QED
  BY <1>1, <1>2

\* Every step of the specification keeps the hands, the leak freedom and the timers.
LEMMA RuntimeStep ==
  ASSUME Types, PassShape, RuntimeInv, [Next]_vars
  PROVE  RuntimeInv'
<1> USE DEF Types
<1>1. CASE \E l \in Loaders : PassBegins(l) \/ PassStep(l)
  BY <1>1, EdgeRuntime, LoadsRuntime, SwapsRuntime, RetiresRuntime DEF PassStep
<1>2. CASE ShutdownBegins \/ ShutdownStops
  BY <1>2, ShutdownRuntime
<1>3. CASE \E t \in Togglers, i \in Ids, on \in BOOLEAN : SetEnabled(t, i, on)
  <2>1. PICK t \in Togglers, i \in Ids, on \in BOOLEAN : SetEnabled(t, i, on)
    BY <1>3
  <2>2. PICK m \in Mode : SetMode(i, m)
    BY <2>1 DEF SetEnabled, Mode
  <2>3. SameHands /\ table[i] # Nobody
    BY <2>1, TouchedStep DEF SetEnabled, SameHands
  <2> QED
    BY <2>2, <2>3, ModeStep
<1>4. CASE \E s \in Searchers : Disable(s)
  <2>1. PICK s \in Searchers : Disable(s)
    BY <1>4
  <2>2. SameHands /\ searcher[s].id \in Ids
    BY <2>1 DEF Disable, SameHands, SearchesPlugins
  <2>3. CASE table[searcher[s].id] # Nobody /\ SetMode(searcher[s].id, "rule")
    BY <2>2, <2>3, ModeStep DEF Mode
  <2>4. CASE UNCHANGED <<mode, inst>>
    BY <2>2, <2>4, CalmStep DEF SameButStrikes, TypeOK
  <2> QED
    BY <2>1, <2>3, <2>4 DEF Disable
<1>5. CASE \E t \in Togglers : ToggleResets(t)
  <2>1. PICK t \in Togglers : ToggleResets(t)
    BY <1>5
  <2> DEFINE x == toggler[t].inst
  <2>2. inst' \in {inst, [inst EXCEPT ![x].strikes = 0], Strike(x)}
    BY <2>1 DEF ToggleResets
  <2>3. SameHands /\ UNCHANGED mode
    BY <2>1 DEF ToggleResets, SameHands, lists
  <2> QED
    BY <2>2, <2>3, StrikesStep, CalmStep
<1>6. CASE \E s \in Searchers : SearchAnswers(s) \/ SearchTimesOut(s)
  <2>1. PICK s \in Searchers : SearchAnswers(s) \/ SearchTimesOut(s)
    BY <1>6
  <2> DEFINE x == searcher[s].inst
  <2>2. inst' \in {inst, [inst EXCEPT ![x].strikes = 0], Strike(x)}
    BY <2>1 DEF SearchAnswers, SearchTimesOut
  <2>3. SameHands /\ UNCHANGED mode
    BY <2>1 DEF SearchAnswers, SearchTimesOut, SameHands, lists
  <2> QED
    BY <2>2, <2>3, StrikesStep, CalmStep
<1>7. CASE \E x \in Instances : OtherCall(x)
  <2>1. PICK x \in Instances : OtherCall(x)
    BY <1>7
  <2>2. inst' \in {inst, [inst EXCEPT ![x].strikes = 0], Strike(x)}
    BY <2>1 DEF OtherCall
  <2>3. SameHands /\ UNCHANGED mode
    BY <2>1 DEF OtherCall, SameHands, lists, procs
  <2> QED
    BY <2>2, <2>3, StrikesStep, CalmStep
<1>8. CASE \E i \in Ids : ClearDisabledState(i)
  <2>1. SameHands
    BY <1>8, TouchedStep DEF ClearDisabledState, SameHands
  <2>2. UNCHANGED <<mode, inst>>
    BY <1>8 DEF ClearDisabledState
  <2> QED
    BY <2>1, <2>2, CalmStep DEF SameButStrikes, TypeOK
<1>9. CASE UNCHANGED <<table, mode, inst, loader, closing>>
  <2>1. SameHands /\ SameButStrikes
    BY <1>9 DEF SameHands, SameButStrikes, TypeOK
  <2> QED
    BY <1>9, <2>1, CalmStep
<1> QED
  BY <1>1, <1>2, <1>3, <1>4, <1>5, <1>6, <1>7, <1>8, <1>9
  DEF Next, vars, lists, procs, ToggleStep, ToggleStores, SearchStep, SearchBegins,
      SearchJudges, DiskChanges

\* Initially no runtime is held or live.
LEMMA InitRuntime == Init => RuntimeInv
<1> SUFFICES ASSUME Init PROVE RuntimeInv
  OBVIOUS
<1>1. \A l \in Loaders : loader[l].old = {} /\ \A i \in Ids : loader[l].fresh[i] = Nobody
  BY NoPassType DEF Init
<1>2. \A x \in Instances : inst[x].life = "free" /\ ~inst[x].background
  BY DEF Init
<1>3. /\ \A i \in Ids : table[i] = Nobody
      /\ closing.todo = {} /\ ~closing.called
  BY DEF Init
<1> QED
  BY <1>1, <1>2, <1>3 DEF RuntimeInv, Owners, Alive, NoRuntimeLeaks, BackgroundFollowsMode

\* The inductive invariant of the runtimes holds throughout.
LEMMA RuntimesInductive == Spec => []RuntimeInv
<1> DEFINE Inv == Types /\ PassShape /\ RuntimeInv
<1>1. Init => Inv
  BY TypesInductive, InitPasses, InitRuntime
<1>2. Inv /\ [Next]_vars => Inv'
  BY TypesInductive, ShapeStep, RuntimeStep DEF Types
<1>3. Inv => RuntimeInv
  OBVIOUS
<1> HIDE DEF Inv
<1> QED
  BY <1>1, <1>2, <1>3, PTL DEF Spec

\* However reloads overlap, and whatever toggles, searches and Shutdown do
\* meanwhile, LoadAll leaves no live runtime out of everybody's hands.
THEOREM NoLeaks == Spec => []NoRuntimeLeaks
<1>1. RuntimeInv => NoRuntimeLeaks
  BY DEF RuntimeInv
<1> QED
  BY <1>1, RuntimesInductive, PTL

\* Background timers fire for the enabled plugins of the table, for no other,
\* and never again for a runtime a reload has retired.
THEOREM TimersFollowMode == Spec => []BackgroundFollowsMode
<1>1. RuntimeInv => BackgroundFollowsMode
  BY DEF RuntimeInv
<1> QED
  BY <1>1, RuntimesInductive, PTL

=============================================================================
