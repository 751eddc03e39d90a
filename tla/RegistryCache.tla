--------------------------- MODULE RegistryCache ---------------------------
(***************************************************************************)
(* The registry client of internal/plugin/registry.go and its cache, two   *)
(* files that are written one after the other: list.json and lastUpdated,  *)
(* the stamp of the list. FetchPlugins runs on the goroutine of the        *)
(* auto-upgrade at each start and on one per visit to the marketplace; no  *)
(* lock keeps them apart.                                                  *)
(*                                                                         *)
(* A published list is a number; a cached list is the number it has, or    *)
(* Torn where its bytes do not decode. A stamp is the number of its list,  *)
(* or 0 when it equals the stamp of none: absent, empty, or written in     *)
(* another notation than the registry's.                                   *)
(***************************************************************************)
EXTENDS Naturals, Sequences

CONSTANTS
  Fetchers,    \* calls of FetchPlugins
  MaxList,     \* bound: lists the registry publishes
  Readable,    \* those of the schema this client supports
  Canonical,   \* those whose lastUpdated reads as Format would write it
  Catalogue,   \* the plugins of each list
  HostVersion, \* the version of Kyvro
  MaxFaults,   \* bound: requests and writes that fail
  MaxRestarts  \* bound: restarts, at any moment

\* A plugin's versions, ascending where the list is well formed; 0 stands for
\* a text that is no version.
Entries == [versions : Seq(Nat), minVersions : Seq(Nat)]

Torn == 0
Lists == 1..MaxList
NoAnswer == 0

ASSUME RegistryAssumption ==
  /\ MaxList \in Nat \ {0}
  /\ Readable \subseteq Lists /\ Canonical \subseteq Lists
  /\ Catalogue \in [Lists -> SUBSET Entries]
  /\ {HostVersion, MaxFaults, MaxRestarts} \subseteq Nat

\* Faulty SelectVersion: the last version that fits.
SelectLastVersion(e) ==
  LET Fits(i) == /\ e.versions[i] # 0 /\ e.minVersions[i] # 0
                 /\ HostVersion >= e.minVersions[i]
      best[i \in Nat] == IF i = 0 THEN 0
                         ELSE IF Fits(i) THEN e.versions[i] ELSE best[i - 1]
  IN IF Len(e.minVersions) # Len(e.versions) THEN 0 ELSE best[Len(e.versions)]

\* SelectVersion, with its loop: 0 where no version can be offered.
SelectVersion(e) ==
  LET Fits(i) == /\ e.versions[i] # 0 /\ e.minVersions[i] # 0
                 /\ HostVersion >= e.minVersions[i]
      best[i \in Nat] == IF i = 0 THEN 0
                         ELSE IF Fits(i) /\ (best[i - 1] = 0 \/ e.versions[i] > best[i - 1])
                              THEN e.versions[i] ELSE best[i - 1]
  IN IF Len(e.minVersions) # Len(e.versions) THEN 0 ELSE best[Len(e.versions)]

VARIABLES
  remote,    \* what the registry serves: list.json and lastUpdated
  list,      \* the cached list.json
  stamp,     \* the cached lastUpdated
  fetch,     \* calls in progress, and what the last one answered
  faults, restarts,
  overlapped \* history: have two calls ever run at the same time

cache == <<list, stamp>>
history == <<faults, restarts, overlapped>>
vars == <<remote, cache, fetch, history>>

\* A call: the remote stamp it was told, the list it downloaded, its answer;
\* and, to compare with the answer, what was published when it began.
Idle == [pc |-> "idle", told |-> 0, got |-> 0, answer |-> NoAnswer, since |-> 0]
Calls == [pc : {"idle", "told", "cached", "full", "truncate", "write", "unstamp", "stamp", "done"},
          told : 0..MaxList, got : 0..MaxList, answer : 0..MaxList, since : 0..MaxList]

TypeOK ==
  /\ remote \in [list : Lists, stamp : 0..MaxList]
  /\ list \in 0..MaxList /\ stamp \in 0..MaxList
  /\ fetch \in [Fetchers -> Calls]
  /\ faults \in 0..MaxFaults /\ restarts \in 0..MaxRestarts
  /\ overlapped \in BOOLEAN

Init ==
  /\ remote = [list |-> 1, stamp |-> 1]
  /\ list = Torn /\ stamp = 0
  /\ fetch = [f \in Fetchers |-> Idle]
  /\ faults = 0 /\ restarts = 0 /\ overlapped = FALSE

----------------------------------------------------------------------------
At(f, pc) == fetch[f].pc = pc
Running(f) == fetch[f].pc \notin {"idle", "done"}
Goto(f, pc) == fetch' = [fetch EXCEPT ![f].pc = pc]
Gets(f, l) == fetch' = [fetch EXCEPT ![f] = [@ EXCEPT !.pc = "truncate", !.got = l]]
Answers(f, l) ==
  fetch' = [fetch EXCEPT ![f] = [@ EXCEPT !.pc = "done", !.told = 0, !.got = 0, !.answer = l]]

Fails ==
  /\ faults < MaxFaults
  /\ faults' = faults + 1
  /\ UNCHANGED <<restarts, overlapped>>

\* The registry publishes a list and its stamp, which reach the client one
\* after the other, in either order.
Publish ==
  /\ \/ /\ remote.list < MaxList /\ remote.list <= remote.stamp
        /\ remote' = [remote EXCEPT !.list = @ + 1]
     \/ /\ remote.stamp < MaxList /\ remote.stamp <= remote.list
        /\ remote' = [remote EXCEPT !.stamp = @ + 1]
  /\ UNCHANGED <<cache, fetch, history>>

\* FetchPlugins asks for the remote stamp; without an answer it fetches the
\* whole list.
Begins(f) ==
  /\ ~Running(f)
  /\ \E told \in {remote.stamp, 0} :
       /\ told = 0 => faults < MaxFaults
       /\ faults' = faults + (IF told = 0 THEN 1 ELSE 0)
       /\ fetch' = [fetch EXCEPT ![f] =
            [Idle EXCEPT !.pc = IF told = 0 THEN "full" ELSE "told", !.told = told,
                         !.since = IF remote.list < remote.stamp
                                   THEN remote.list ELSE remote.stamp]]
  /\ overlapped' = (overlapped \/ \E g \in Fetchers : Running(g))
  /\ UNCHANGED <<remote, cache, restarts>>

\* Faulty Compares: any cached stamp is taken for the remote one.
ComparesNothing(f) ==
  /\ At(f, "told")
  /\ Goto(f, IF stamp # 0 THEN "cached" ELSE "full")
  /\ UNCHANGED <<remote, cache, history>>

\* getLocalCachedLastUpdated, and the comparison of the two texts.
Compares(f) ==
  /\ At(f, "told")
  /\ Goto(f, IF stamp # 0 /\ stamp = fetch[f].told THEN "cached" ELSE "full")
  /\ UNCHANGED <<remote, cache, history>>

\* getCachedList; a list that does not decode is fetched again.
ReadsCache(f) ==
  /\ At(f, "cached")
  /\ IF list = Torn THEN Goto(f, "full") ELSE Answers(f, list)
  /\ UNCHANGED <<remote, cache, history>>

\* fetchFullList: the list is downloaded and decoded, or the call answers from
\* a developer's local tree, or fails.
Downloads(f) ==
  /\ At(f, "full")
  /\ \/ /\ remote.list \in Readable
        /\ Gets(f, remote.list)
        /\ UNCHANGED history
     \/ remote.list \notin Readable /\ Answers(f, NoAnswer) /\ UNCHANGED history
     \/ Answers(f, NoAnswer) /\ Fails
  /\ UNCHANGED <<remote, cache>>

\* cacheList fails: the downloaded list is the answer all the same.
CachingFails(f) ==
  /\ fetch[f].pc \in {"truncate", "write", "unstamp", "stamp"}
  /\ Answers(f, fetch[f].got)
  /\ Fails
  /\ UNCHANGED <<remote, cache>>

\* cacheList: WriteFile truncates list.json ...
TruncatesList(f) ==
  /\ At(f, "truncate")
  /\ list' = Torn
  /\ Goto(f, "write")
  /\ UNCHANGED <<remote, stamp, history>>

\* ... and writes it. Over the bytes of another call's list the result may not
\* decode.
WritesList(f) ==
  /\ At(f, "write")
  /\ list' \in IF list \in {Torn, fetch[f].got} THEN {fetch[f].got} ELSE {fetch[f].got, Torn}
  /\ Goto(f, "unstamp")
  /\ UNCHANGED <<remote, stamp, history>>

\* Then lastUpdated, whose texts are all of one length.
TruncatesStamp(f) ==
  /\ At(f, "unstamp")
  /\ stamp' = 0
  /\ Goto(f, "stamp")
  /\ UNCHANGED <<remote, list, history>>

\* Faulty Stamp: a stamp in another notation is a text of its own.
StampVerbatim(l) == IF l \in Canonical THEN l ELSE MaxList + l

\* Format normalises the notation of the time in the list.
Stamp(l) == IF l \in Canonical THEN l ELSE 0

\* Faulty WritesStamp: the stamp is the one the registry told.
WritesToldStamp(f) ==
  /\ At(f, "stamp")
  /\ stamp' = fetch[f].told
  /\ Answers(f, fetch[f].got)
  /\ UNCHANGED <<remote, list, history>>

\* Faulty WritesStamp: the stamp stays empty.
WritesNoStamp(f) ==
  /\ At(f, "stamp")
  /\ Answers(f, fetch[f].got)
  /\ UNCHANGED <<remote, cache, history>>

WritesStamp(f) ==
  /\ At(f, "stamp")
  /\ stamp' = Stamp(fetch[f].got)
  /\ Answers(f, fetch[f].got)
  /\ UNCHANGED <<remote, list, history>>

\* Kyvro dies and starts again; the files stay as they are.
Restart ==
  /\ restarts < MaxRestarts
  /\ restarts' = restarts + 1
  /\ fetch' = [f \in Fetchers |-> Idle]
  /\ UNCHANGED <<remote, cache, faults, overlapped>>

FetchStep(f) ==
  \/ Compares(f) \/ ReadsCache(f) \/ Downloads(f) \/ CachingFails(f)
  \/ TruncatesList(f) \/ WritesList(f) \/ TruncatesStamp(f) \/ WritesStamp(f)

Next == Publish \/ Restart \/ \E f \in Fetchers : Begins(f) \/ FetchStep(f)

Spec == Init /\ [][Next]_vars

\* Calls go on, and there will always be another one.
FairSpec == Spec /\ \A f \in Fetchers : WF_vars(Begins(f)) /\ WF_vars(FetchStep(f))

----------------------------------------------------------------------------
\* The cached stamp never stands for a list newer than the cached one, after
\* any failure or crash between the two files, unless calls have overlapped:
\* else FetchPlugins would go on answering the old list as if it were new.
StampVouches == ~overlapped => stamp = 0 \/ list = Torn \/ list >= stamp

\* An answer contains what the registry had published, list and stamp, when
\* the call began, even when it comes from the cache -- unless calls have
\* overlapped.
AnswersRecent ==
  \A f \in Fetchers :
    At(f, "done") /\ fetch[f].answer # NoAnswer /\ ~overlapped
      => fetch[f].answer >= fetch[f].since

\* Every plugin of the answer is offered in its highest version that declares
\* a minimum this host satisfies, whatever the order of the list and whatever
\* is malformed in it.
OffersBest ==
  \A f \in Fetchers : At(f, "done") /\ fetch[f].answer # NoAnswer =>
    \A e \in Catalogue[fetch[f].answer] :
      LET fit == {e.versions[i] : i \in {j \in DOMAIN e.versions \cap DOMAIN e.minVersions :
                    e.versions[j] # 0 /\ e.minVersions[j] \in 1..HostVersion}}
          offered == SelectVersion(e)
      IN IF Len(e.versions) # Len(e.minVersions) \/ fit = {}
           THEN offered = 0
           ELSE offered \in fit /\ \A v \in fit : v <= offered

\* Once the registry rests on a list this client reads and whose stamp is
\* written as it would write it, the cache comes to hold that list and stamp
\* for good, and nothing is downloaded again -- unless calls have overlapped.
CacheSettles ==
  <>[](\/ list = remote.list /\ stamp = remote.stamp
       \/ remote.list # remote.stamp \/ remote.list \notin Readable \cap Canonical
       \/ overlapped)

=============================================================================
