---------------------------- MODULE SearchEngine ----------------------------
(***************************************************************************)
(* The search engine: Engine.Search of internal/core/engine.go over the    *)
(* providers it consults in order (internal/providers/calc, apps and web,  *)
(* internal/folders, internal/plugin/provider.go), with the usage records  *)
(* of internal/core/store.go. Every keystroke is a call on a goroutine of  *)
(* its own, so that searches overlap, and they share one snapshot of the   *)
(* usage, which each replaces when it starts and reads row by row.         *)
(*                                                                         *)
(* What the providers have indexed stands still here: AppIndex,            *)
(* FolderController and PluginManager are about its changes. The age of a  *)
(* use is left out of the score: for one result both its count and its     *)
(* last use only grow, so that a later record never lowers its boost.      *)
(***************************************************************************)
EXTENDS Calculator, SequencesExt

CONSTANTS
  Searches,    \* searches under way at a time, each one call of Search after another
  Typed,       \* sets of queries, of which a behaviour is about one
  Apps,        \* indexed applications, a sequence of [id, title, keys]
  Folders,     \* indexed folder entries
  Fuzzy,       \* score of a <<key, query>> that matches
  Commands,    \* rows the plugin command of each prefix answers with
  Activated,   \* results that the user activates
  Limit,       \* Engine.limit
  Boost,       \* Frecency of a usage count
  MaxRecords,  \* bound: activations recorded
  MaxFaults    \* bound: reads of the usage records that fail

ASSUME SearchEngineAssumption ==
  /\ Limit \in Nat \ {0} /\ MaxRecords \in Nat /\ MaxFaults \in Nat
  /\ Boost \in [0..MaxRecords -> Nat]
  /\ \A n \in 1..MaxRecords : Boost[n - 1] <= Boost[n]

\* Titles are compared as their numbers are.
ASSUME ProvidersAssumption ==
  /\ \A items \in {Apps, Folders} :
       items \in Seq(ToSet(items)) /\ \A item \in ToSet(items) : item.title \in Int
  /\ IsFiniteSet(DOMAIN Fuzzy) /\ \A h \in DOMAIN Fuzzy : Fuzzy[h] \in Int
  /\ \A prefix \in DOMAIN Commands :
       /\ Commands[prefix] \in Seq(ToSet(Commands[prefix]))
       /\ \A r \in ToSet(Commands[prefix]) : r.title \in Int /\ r.score \in Int
  /\ \A queries \in Typed : \A query \in queries : query \in Seq(ToSet(query))

VARIABLES
  usage,     \* the bucket "usage" of the store: counts by result
  snapshot,  \* Engine.usageSnapshot
  search,    \* calls of Engine.Search
  typed,     \* the queries that the user types
  faults

vars == <<usage, snapshot, search, typed, faults>>

Count(u, id) == IF id \in DOMAIN u THEN u[id] ELSE 0

\* got: what store.All returned; k: providers consulted; rows: what the last
\* one answered, of which "scored" have their boost; since: history, the usage
\* when the search began; floor: history, what its ranking must know of.
NotCalled == [pc |-> "idle", query |-> <<>>, got |-> <<>>, k |-> 0, rows |-> <<>>,
              scored |-> <<>>, out |-> <<>>, since |-> <<>>, floor |-> <<>>]

Usages == UNION {[D -> 0..MaxRecords] : D \in SUBSET Activated}

TypeOK ==
  /\ {usage, snapshot} \subseteq Usages
  /\ \A id \in DOMAIN snapshot : snapshot[id] <= Count(usage, id)
  /\ DOMAIN search = Searches
  /\ \A s \in Searches :
       /\ search[s].pc \in {"idle", "begun", "got", "ask", "score", "done"}
       /\ search[s].k \in 0..5
       /\ Len(search[s].scored) <= Len(search[s].rows)
       /\ Len(search[s].out) <= Limit
  /\ faults \in 0..MaxFaults

Init ==
  /\ usage = <<>> /\ snapshot = <<>>
  /\ search = [s \in Searches |-> NotCalled]
  /\ typed \in Typed /\ faults = 0

----------------------------------------------------------------------------
(* What the providers answer: rows [id, title, score].                     *)

\* A stable sort of the rows that stand at some positions.
Sorted(rows, Before(_, _)) ==
  LET Place(i) == Cardinality({j \in DOMAIN rows :
                                 \/ Before(rows[j], rows[i])
                                 \/ j <= i /\ ~Before(rows[i], rows[j])})
  IN [p \in 1..Cardinality(DOMAIN rows) |-> rows[CHOOSE i \in DOMAIN rows : Place(i) = p]]

\* SearchIndex.Find: an item counts with its best key, unless that is negative,
\* which fuzzy.Find gives to scattered matches in long keys.
Find(items, query) ==
  LET Best(item) == Max({-1} \cup {Fuzzy[h] : h \in {h \in DOMAIN Fuzzy :
                                     h[1] \in item.keys /\ h[2] = query}})
      hits == {i \in DOMAIN items : Best(items[i]) >= 0}
      rows == [i \in hits |-> [id |-> items[i].id, title |-> items[i].title,
                               score |-> Best(items[i])]]
  IN Sorted(rows, LAMBDA r, q : r.score > q.score)

\* apps and folders: everything when nothing is typed.
Listed(items, query) ==
  IF query = <<>>
  THEN [i \in DOMAIN items |-> [id |-> items[i].id, title |-> items[i].title, score |-> 0]]
  ELSE Find(items, query)

CalcRows(query) ==
  IF Evaluate(query) = {} THEN <<>>
  ELSE <<[id |-> <<"calc", Normalise(query)>>, title |-> 0, score |-> 0]>>

WebRows(query) ==
  IF query = <<>> THEN <<>> ELSE <<[id |-> <<"web", query>>, title |-> 0, score |-> 0]>>

\* commandIndex.match: the longest prefix that the query is, or that a space
\* follows.
Match(query) ==
  LET lengths == {l \in DOMAIN query : /\ SubSeq(query, 1, l) \in DOMAIN Commands
                                       /\ l = Len(query) \/ query[l + 1] = " "}
  IN IF lengths = {} THEN <<>> ELSE SubSeq(query, 1, Max(lengths))

\* liveSearch: the plugin's rows, or nothing when it fails or its time is up.
PluginAnswers(query) ==
  IF Match(query) = <<>> THEN {<<>>} ELSE {<<>>, Commands[Match(query)]}

\* What each provider, in the order of the engine, may answer.
Answers(query) ==
  << {CalcRows(query)}, {Listed(Apps, query)}, {Listed(Folders, query)},
     PluginAnswers(query), {WebRows(query)} >>

----------------------------------------------------------------------------
(* Ranking.                                                                *)

Score(r) == r.score + Boost[r.used]

\* sortResults.
Above(r, q) == Score(r) > Score(q) \/ (Score(r) = Score(q) /\ r.title < q.title)

\* Faulty Merge: the first copy of a result is kept, not the best one.
MergeBeforeSorting(out, rows) ==
  LET first == FoldLeft(LAMBDA acc, r : IF \E q \in ToSet(out \o acc) : q.id = r.id
                                        THEN acc ELSE Append(acc, r), <<>>, rows)
      new == Sorted(first, Above)
  IN out \o SubSeq(new, 1, Min({Limit - Len(out), Len(new)}))

\* Faulty Merge: the limit is the next provider's affair.
MergeUnlimited(out, rows) ==
  FoldLeft(LAMBDA acc, r : IF \E i \in DOMAIN acc : acc[i].id = r.id
                           THEN acc ELSE Append(acc, r), out, Sorted(rows, Above))

\* A provider's rows go below those of the providers before it, best first,
\* each result once, as many as the limit leaves room for.
Merge(out, rows) ==
  FoldLeft(LAMBDA acc, r : IF Len(acc) = Limit \/ \E i \in DOMAIN acc : acc[i].id = r.id
                           THEN acc ELSE Append(acc, r), out, Sorted(rows, Above))

----------------------------------------------------------------------------
Stands(s, pc) == search[s].pc = pc
Running == {s \in Searches : search[s].pc \notin {"idle", "done"}}

\* The least that the searches under way knew of when they began.
Oldest(us) ==
  [id \in UNION {DOMAIN u : u \in us} |-> Min({Count(u, id) : u \in us})]

Begin(s, query) ==
  /\ Stands(s, "idle") \/ Stands(s, "done")
  /\ search' = [search EXCEPT ![s] =
       [NotCalled EXCEPT !.pc = "begun", !.query = query, !.since = usage,
                         !.floor = Oldest({usage} \cup {search[t].since : t \in Running})]]
  /\ UNCHANGED <<usage, snapshot, typed, faults>>

\* refresh: store.All in a transaction, then the snapshot under Engine.mu. When
\* the read fails the ranking goes by the snapshot that is there.
ReadsUsage(s) ==
  /\ Stands(s, "begun")
  /\ \/ /\ search' = [search EXCEPT ![s].pc = "got", ![s].got = usage]
        /\ UNCHANGED faults
     \/ /\ faults < MaxFaults /\ faults' = faults + 1
        /\ search' = [search EXCEPT ![s].pc = "ask", ![s].floor = <<>>]
  /\ UNCHANGED <<usage, snapshot, typed>>

\* Faulty Refreshes: the snapshot is taken once.
RefreshesOnce(s) ==
  /\ Stands(s, "got")
  /\ snapshot' = IF snapshot = <<>> THEN search[s].got ELSE snapshot
  /\ search' = [search EXCEPT ![s].pc = "ask", ![s].got = <<>>]
  /\ UNCHANGED <<usage, typed, faults>>

Refreshes(s) ==
  /\ Stands(s, "got")
  /\ snapshot' = search[s].got
  /\ search' = [search EXCEPT ![s].pc = "ask", ![s].got = <<>>]
  /\ UNCHANGED <<usage, typed, faults>>

\* The loop of Search up to the next provider that answers with rows, or to
\* its end.
Asks(s) ==
  LET me == search[s]
      answers == Answers(me.query)
      Silent(ks) == \A k \in ks : <<>> \in answers[k]
  IN /\ Stands(s, "ask")
     /\ \/ /\ Len(me.out) < Limit
           /\ \E k \in (me.k + 1)..5 :
                /\ Silent((me.k + 1)..(k - 1))
                /\ \E rows \in answers[k] \ {<<>>} :
                     search' = [search EXCEPT ![s].pc = "score", ![s].k = k, ![s].rows = rows,
                                              ![s].scored = <<>>]
        \/ /\ Len(me.out) = Limit \/ Silent((me.k + 1)..5)
           /\ search' = [search EXCEPT ![s].pc = "done", ![s].k = 5]
     /\ UNCHANGED <<usage, snapshot, typed, faults>>

\* Engine.usage, once for each row; the rows are merged after the last one.
Scores(s) ==
  LET me == search[s]
      row == me.rows[Len(me.scored) + 1]
      scored == Append(me.scored, [id |-> row.id, title |-> row.title, score |-> row.score,
                                   used |-> Count(snapshot, row.id), from |-> me.k])
  IN /\ Stands(s, "score")
     /\ search' =
          IF Len(scored) < Len(me.rows) THEN [search EXCEPT ![s].scored = scored]
          ELSE [search EXCEPT ![s].pc = "ask", ![s].rows = <<>>, ![s].scored = <<>>,
                              ![s].out = Merge(me.out, scored)]
     /\ UNCHANGED <<usage, snapshot, typed, faults>>

\* recordUsage: Store.Record for a row of any provider that an earlier page showed.
Record(id) ==
  /\ Count(usage, id) < MaxRecords
  /\ usage' = [n \in DOMAIN usage \cup {id} |-> Count(usage, n) + IF n = id THEN 1 ELSE 0]
  /\ UNCHANGED <<snapshot, search, typed, faults>>

Next ==
  \/ \E s \in Searches :
       \/ \E query \in typed : Begin(s, query)
       \/ ReadsUsage(s) \/ Refreshes(s) \/ Asks(s) \/ Scores(s)
  \/ \E id \in Activated : Record(id)

Spec == Init /\ [][Next]_vars

----------------------------------------------------------------------------
(* Properties.                                                             *)

\* The least score that a row of a search may have been ranked with.
AtLeast(s, r) == r.score + Boost[Count(search[s].floor, r.id)]

Shown(s) == search[s].out
Rank(s, i) == Shown(s)[i].from

\* The page of a search (engine.go:66-123) is the merge of its providers: no
\* result comes twice, a provider's rows stay below those of the providers
\* before it and in the order of their scores, and a row that some provider
\* answered is missing only for a reason: an earlier provider shows the result,
\* a copy at least as good is shown, or the page is full of rows that an
\* up-to-date ranking could put above it.
OutIsMerge ==
  \A s \in Searches : search[s].pc = "done" =>
    /\ \A i, j \in DOMAIN Shown(s) : i < j =>
         /\ Shown(s)[i].id # Shown(s)[j].id
         /\ \/ Rank(s, i) < Rank(s, j)
            \/ Rank(s, i) = Rank(s, j) /\ ~Above(Shown(s)[j], Shown(s)[i])
    /\ \A k \in 1..5 : \A rows \in Answers(search[s].query)[k] :
         LET Mine(i) == Rank(s, i) = k
             answered == \/ <<>> \notin Answers(search[s].query)[k]
                         \/ \E i \in DOMAIN Shown(s) : Mine(i)
         IN answered => \A r \in ToSet(rows) :
              \/ \E i \in DOMAIN Shown(s) :
                   /\ Shown(s)[i].id = r.id
                   /\ Rank(s, i) < k \/ (Mine(i) /\ Score(Shown(s)[i]) >= AtLeast(s, r))
              \/ /\ Len(Shown(s)) = Limit
                 /\ \A i \in DOMAIN Shown(s) :
                      Rank(s, i) < k \/ (Mine(i) /\ Score(Shown(s)[i]) >= AtLeast(s, r))

\* Every row of a page was ranked knowing each activation recorded before the
\* search began and before any search that was then under way began
\* (engine.go:46-64). The overlap matters: such a search may put its older
\* snapshot back between two rows. A search whose own read of the store failed
\* is left out.
RankSeesUsage ==
  \A s \in Searches : \A i \in DOMAIN Shown(s) :
    Shown(s)[i].used >= Count(search[s].floor, Shown(s)[i].id)

\* The calculator (calc.go:50-240) answers a query exactly when, read without
\* blanks and separators, it has an operator further on than its first character
\* and a finite value, and then with that value: the last operator applied is the
\* last of the weakest, powers group to the right, a sign binds tighter than a
\* power, nothing is divided by zero on the way. "At least one binary operator"
\* (docs/features.md:59, calc.go:26-28 and 46-48) is more than the code asks for:
\* the operator may be a sign, and (-2) or --2 is answered.
CalcReads ==
  \A s \in Searches : search[s].pc = "begun" =>
    LET expr == Normalise(search[s].query)
    IN Evaluate(search[s].query) =
         IF LooksArithmetic(expr) THEN Meaning(Tokens(expr)) \cap Finites ELSE {}
=============================================================================
