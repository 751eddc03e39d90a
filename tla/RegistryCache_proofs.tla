------------------------ MODULE RegistryCache_proofs ------------------------
(***************************************************************************)
(* Proofs about RegistryCache, for any number of calls, lists, failures    *)
(* and restarts. As long as no two calls have run at the same time, the    *)
(* stamp in the cache vouches for the list and answers are recent.         *)
(***************************************************************************)
EXTENDS RegistryCache, TLAPS, WellFoundedInduction

\* Nobody else runs beside a running call.
Alone == \A f, g \in Fetchers : Running(f) /\ Running(g) => f = g

\* The cache never is ahead of the registry, nor the stamp of the list.
CacheBehind ==
  /\ list <= remote.list /\ stamp <= remote.list
  /\ stamp = 0 \/ list = Torn \/ list >= stamp

\* How far a call has got: the stamp it is told, the list it has downloaded
\* and what it has written of it.
Progress(f) ==
  /\ fetch[f].pc \in {"told", "cached", "full"} => fetch[f].since <= remote.list
  /\ fetch[f].pc \in {"told", "cached"} => fetch[f].told >= fetch[f].since
  /\ At(f, "cached") => stamp = fetch[f].told /\ stamp # 0
  /\ fetch[f].pc \in {"truncate", "write", "unstamp", "stamp"} =>
       /\ fetch[f].got >= fetch[f].since /\ fetch[f].got >= stamp
       /\ fetch[f].got <= remote.list
  /\ At(f, "write") => list = Torn
  /\ fetch[f].pc \in {"unstamp", "stamp"} => list = fetch[f].got
  /\ At(f, "done") /\ fetch[f].answer # NoAnswer => fetch[f].answer >= fetch[f].since

\* The inductive invariant. StampVouches is not inductive by itself: that the
\* next stamp is not ahead of the list in the file needs what the call that
\* writes it has downloaded, and that no other call has written since.
RegistryInv ==
  ~overlapped => Alone /\ CacheBehind /\ \A f \in Fetchers : Progress(f)

\* Induction over the numbers, for a set of them.
LEMMA SetInduction ==
  ASSUME NEW T, 0 \in T, \A n \in Nat : n \in T => n + 1 \in T
  PROVE  \A n \in Nat : n \in T
<1> DEFINE R == {ss \in Nat \X Nat : ss[1] < ss[2]}
           D == Nat \ T
<1>1. IsWellFoundedOn(R, Nat)
  BY NatLessThanWellFounded DEF OpToRel
<1> SUFFICES ASSUME D # {} PROVE FALSE
  OBVIOUS
<1>2. PICK x \in D : \A y \in D : <<y, x>> \notin R
  <2>1. D \subseteq Nat
    OBVIOUS
  <2> HIDE DEF D, R
  <2> QED
    BY <1>1, <2>1, WFMin
<1>3. x - 1 \in Nat /\ x - 1 + 1 = x /\ <<x - 1, x>> \in R
  BY <1>2
<1> QED
  BY <1>2, <1>3

LEMMA Bounds ==
  /\ MaxList \in Nat /\ MaxList >= 1 /\ MaxFaults \in Nat /\ MaxRestarts \in Nat
  /\ 0 \in 0..MaxList
<1>1. /\ MaxFaults \in {HostVersion, MaxFaults, MaxRestarts}
      /\ MaxRestarts \in {HostVersion, MaxFaults, MaxRestarts}
  OBVIOUS
<1>2. MaxFaults \in Nat /\ MaxRestarts \in Nat
  BY <1>1, RegistryAssumption
<1> QED
  BY <1>2, RegistryAssumption DEF Lists

\* The fields of a call, one by one.
Pcs == {"idle", "told", "cached", "full", "truncate", "write", "unstamp", "stamp", "done"}
LEMMA FetchTypes ==
  ASSUME TypeOK, NEW f \in Fetchers
  PROVE  /\ fetch[f].pc \in Pcs
         /\ fetch[f].told \in 0..MaxList /\ fetch[f].got \in 0..MaxList
         /\ fetch[f].answer \in 0..MaxList /\ fetch[f].since \in 0..MaxList
         /\ fetch[f].got \in Nat /\ fetch[f].since \in Nat
<1>1. fetch[f] \in Calls
  BY DEF TypeOK
<1> QED
  BY <1>1, Bounds DEF Calls, Pcs

\* What the registry serves.
LEMMA RemoteTypes ==
  ASSUME TypeOK
  PROVE  /\ remote.list \in 1..MaxList /\ remote.stamp \in 0..MaxList
         /\ remote.list \in Nat
BY Bounds DEF TypeOK, Lists

\* A call that goes to its next step keeps all but its place.
LEMMA GotoStep ==
  ASSUME TypeOK, NEW f \in Fetchers, NEW pc \in Pcs, Goto(f, pc)
  PROVE  /\ fetch' \in [Fetchers -> Calls]
         /\ fetch' = [fetch EXCEPT ![f] = fetch'[f]]
         /\ fetch'[f].pc = pc
         /\ fetch'[f].told = fetch[f].told /\ fetch'[f].got = fetch[f].got
         /\ fetch'[f].since = fetch[f].since
<1> DEFINE c == [fetch[f] EXCEPT !.pc = pc]
<1>1. fetch[f] \in Calls
  BY DEF TypeOK
<1>2. /\ c \in Calls /\ c.pc = pc
      /\ c.told = fetch[f].told /\ c.got = fetch[f].got /\ c.since = fetch[f].since
  BY <1>1 DEF Calls, Pcs
<1>3. fetch' = [fetch EXCEPT ![f] = c]
  BY DEF Goto
<1> HIDE DEF c
<1> QED
  BY <1>2, <1>3 DEF TypeOK

\* A call that answers forgets what it was told and has downloaded.
LEMMA AnswersStep ==
  ASSUME TypeOK, NEW f \in Fetchers, NEW l \in 0..MaxList, Answers(f, l)
  PROVE  /\ fetch' \in [Fetchers -> Calls]
         /\ fetch' = [fetch EXCEPT ![f] = fetch'[f]]
         /\ fetch'[f].pc = "done"
         /\ fetch'[f].answer = l /\ fetch'[f].since = fetch[f].since
<1> DEFINE c == [fetch[f] EXCEPT !.pc = "done", !.told = 0, !.got = 0, !.answer = l]
<1>1. fetch[f] \in Calls
  BY DEF TypeOK
<1>2. 0 \in 0..MaxList
  BY Bounds
<1>3. c \in Calls /\ c.pc = "done" /\ c.answer = l /\ c.since = fetch[f].since
  BY <1>1, <1>2 DEF Calls
<1>4. fetch' = [fetch EXCEPT ![f] = c]
  BY DEF Answers
<1> HIDE DEF c
<1> QED
  BY <1>3, <1>4 DEF TypeOK

\* A call that downloads keeps when it began.
LEMMA DownloadStep ==
  ASSUME TypeOK, NEW f \in Fetchers, NEW l \in 0..MaxList, Gets(f, l)
  PROVE  /\ fetch' \in [Fetchers -> Calls]
         /\ fetch' = [fetch EXCEPT ![f] = fetch'[f]]
         /\ fetch'[f].pc = "truncate" /\ fetch'[f].got = l
         /\ fetch'[f].since = fetch[f].since
<1> DEFINE c == [fetch[f] EXCEPT !.pc = "truncate", !.got = l]
<1>1. fetch[f] \in Calls
  BY DEF TypeOK
<1>2. c \in Calls /\ c.pc = "truncate" /\ c.got = l /\ c.since = fetch[f].since
  BY <1>1 DEF Calls
<1>3. fetch' = [fetch EXCEPT ![f] = c]
  BY DEF Gets
<1> HIDE DEF c
<1> QED
  BY <1>2, <1>3 DEF TypeOK

\* A call begins with what it was told and what has been published.
LEMMA BeginStep ==
  ASSUME TypeOK, NEW f \in Fetchers, Begins(f)
  PROVE  /\ fetch' \in [Fetchers -> Calls]
         /\ fetch' = [fetch EXCEPT ![f] = fetch'[f]]
         /\ fetch'[f].pc \in {"told", "full"}
         /\ fetch'[f].since <= remote.list
         /\ At(f, "told")' => fetch'[f].told >= fetch'[f].since
         /\ faults' \in 0..MaxFaults
<1>1. PICK told \in {remote.stamp, 0} :
        /\ told = 0 => faults < MaxFaults
        /\ faults' = faults + (IF told = 0 THEN 1 ELSE 0)
        /\ fetch' = [fetch EXCEPT ![f] =
             [Idle EXCEPT !.pc = IF told = 0 THEN "full" ELSE "told", !.told = told,
                          !.since = IF remote.list < remote.stamp
                                    THEN remote.list ELSE remote.stamp]]
  BY DEF Begins
<1> DEFINE pc == IF told = 0 THEN "full" ELSE "told"
           since == IF remote.list < remote.stamp THEN remote.list ELSE remote.stamp
           c == [Idle EXCEPT !.pc = pc, !.told = told, !.since = since]
<1>2. c.pc = pc /\ c.told = told /\ c.since = since
  BY DEF Idle
<1>3. fetch' = [fetch EXCEPT ![f] = c] /\ fetch'[f] = c
  BY <1>1 DEF TypeOK
<1>4. /\ told \in 0..MaxList /\ since \in 0..MaxList /\ since <= remote.list
      /\ told # 0 => told >= since
  BY <1>1, RemoteTypes, Bounds
<1>5. c \in Calls
  <2>1. Idle \in Calls
    BY Bounds DEF Idle, Calls, NoAnswer
  <2>2. pc \in {"told", "full"}
    OBVIOUS
  <2> QED
    BY <1>4, <2>1, <2>2 DEF Calls
<1>6. faults' \in 0..MaxFaults
  BY <1>1, Bounds DEF TypeOK
<1> HIDE DEF c
<1>7. fetch' \in [Fetchers -> Calls] /\ fetch' = [fetch EXCEPT ![f] = fetch'[f]]
  BY <1>3, <1>5 DEF TypeOK
<1>8. fetch'[f].pc \in {"told", "full"} /\ fetch'[f].since = since /\ fetch'[f].told = told
      /\ (fetch'[f].pc = "told" => told # 0)
  BY <1>2, <1>3
<1> QED
  BY <1>4, <1>6, <1>7, <1>8 DEF At

\* The stamp of a list is that list or 0.
LEMMA StampOf ==
  ASSUME NEW l \in 0..MaxList
  PROVE  Stamp(l) \in 0..MaxList /\ Stamp(l) <= l
BY Bounds DEF Stamp

\* Every reachable state of the registry client is well typed.
THEOREM TypeCorrect == Spec => []TypeOK
<1>1. Init => TypeOK
  <2> SUFFICES ASSUME Init PROVE TypeOK
    OBVIOUS
  <2>1. Idle \in Calls
    BY Bounds DEF Idle, Calls, NoAnswer
  <2>2. remote \in [list : Lists, stamp : 0..MaxList]
    BY Bounds DEF Init, Lists
  <2>3. fetch \in [Fetchers -> Calls]
    BY <2>1 DEF Init
  <2>4. list \in 0..MaxList /\ stamp \in 0..MaxList
    BY Bounds DEF Init, Torn
  <2>5. faults \in 0..MaxFaults /\ restarts \in 0..MaxRestarts
    BY Bounds DEF Init
  <2>6. overlapped \in BOOLEAN
    BY DEF Init
  <2> QED
    BY <2>2, <2>3, <2>4, <2>5, <2>6 DEF TypeOK
<1>2. TypeOK /\ [Next]_vars => TypeOK'
  <2> SUFFICES ASSUME TypeOK, [Next]_vars PROVE TypeOK'
    OBVIOUS
  <2> USE Bounds
  <2>1. CASE Publish
    <3>1. remote' \in [list : Lists, stamp : 0..MaxList]
      <4>0. remote \in [list : Lists, stamp : 0..MaxList]
        BY DEF TypeOK
      <4>1. CASE remote.list < MaxList /\ remote' = [remote EXCEPT !.list = @ + 1]
        <5>1. remote.list + 1 \in Lists
          BY <4>1, RemoteTypes DEF Lists
        <5> QED
          BY <4>0, <4>1, <5>1
      <4>2. CASE remote.stamp < MaxList /\ remote' = [remote EXCEPT !.stamp = @ + 1]
        <5>1. remote.stamp + 1 \in 0..MaxList
          BY <4>2, RemoteTypes
        <5> QED
          BY <4>0, <4>2, <5>1
      <4> QED
        BY <2>1, <4>1, <4>2 DEF Publish
    <3> QED
      BY <2>1, <3>1 DEF Publish, cache, history, TypeOK
  <2>2. CASE Restart
    <3>1. Idle \in Calls
      BY DEF Idle, Calls, NoAnswer
    <3> QED
      BY <2>2, <3>1 DEF Restart, cache, TypeOK
  <2>3. ASSUME NEW f \in Fetchers, Begins(f) PROVE TypeOK'
    <3>1. fetch' \in [Fetchers -> Calls] /\ faults' \in 0..MaxFaults
      BY <2>3, BeginStep
    <3> QED
      BY <2>3, <3>1 DEF Begins, cache, TypeOK
  <2>4. ASSUME NEW f \in Fetchers, FetchStep(f) PROVE TypeOK'
    <3> USE FetchTypes DEF TypeOK
    <3>1. CASE Compares(f)
      BY <3>1, GotoStep DEF Compares, Pcs, cache, history
    <3>2. CASE ReadsCache(f)
      BY <3>2, GotoStep, AnswersStep DEF ReadsCache, Pcs, cache, history
    <3>3. CASE Downloads(f)
      BY <3>3, RemoteTypes, DownloadStep, AnswersStep DEF Downloads, Fails, cache, history, NoAnswer
    <3>4. CASE CachingFails(f)
      BY <3>4, AnswersStep DEF CachingFails, Fails, cache
    <3>5. CASE TruncatesList(f)
      BY <3>5, GotoStep DEF TruncatesList, Pcs, history, Torn
    <3>6. CASE WritesList(f)
      BY <3>6, GotoStep DEF WritesList, Pcs, history, Torn
    <3>7. CASE TruncatesStamp(f)
      BY <3>7, GotoStep DEF TruncatesStamp, Pcs, history
    <3>8. CASE WritesStamp(f)
      BY <3>8, AnswersStep, StampOf DEF WritesStamp, history
    <3> QED
      BY <2>4, <3>1, <3>2, <3>3, <3>4, <3>5, <3>6, <3>7, <3>8 DEF FetchStep
  <2>5. CASE UNCHANGED vars
    BY <2>5 DEF vars, cache, history, TypeOK
  <2> QED
    BY <2>1, <2>2, <2>3, <2>4, <2>5 DEF Next
<1> QED
  BY <1>1, <1>2, PTL DEF Spec

----------------------------------------------------------------------------
\* A step of a running call that leaves the registry and the other calls alone:
\* if it keeps the cache in order and makes progress itself, the invariant
\* holds after it, for the others do not run and keep their answers.
LEMMA CallKeepsInv ==
  ASSUME TypeOK, RegistryInv, NEW f \in Fetchers, Running(f),
         remote' = remote, overlapped' = overlapped,
         fetch' = [fetch EXCEPT ![f] = fetch'[f]],
         ~overlapped /\ CacheBehind /\ Progress(f) => CacheBehind' /\ Progress(f)'
  PROVE  RegistryInv'
<1> SUFFICES ASSUME ~overlapped
             PROVE  Alone' /\ CacheBehind' /\ \A g \in Fetchers : Progress(g)'
  BY DEF RegistryInv
<1>1. Alone /\ CacheBehind /\ \A g \in Fetchers : Progress(g)
  BY DEF RegistryInv
<1>2. ASSUME NEW g \in Fetchers, g # f PROVE fetch'[g] = fetch[g] /\ ~Running(g)
  BY <1>1, <1>2 DEF Alone, TypeOK
<1>3. Alone'
  BY <1>2 DEF Alone, Running
<1>4. ASSUME NEW g \in Fetchers, g # f PROVE Progress(g)'
  <2>1. fetch'[g] = fetch[g] /\ fetch[g].pc \in {"idle", "done"} /\ Progress(g)
    BY <1>1, <1>2, <1>4 DEF Running
  <2> QED
    BY <2>1 DEF Progress, At
<1> QED
  BY <1>1, <1>3, <1>4

\* Without overlapping calls the cache and the calls stay in order.
THEOREM InvCorrect == Spec => []RegistryInv
<1>1. Init => RegistryInv
  BY RegistryAssumption
  DEF Init, RegistryInv, Alone, CacheBehind, Progress, Running, At, Idle, Torn, NoAnswer
<1>2. TypeOK /\ TypeOK' /\ RegistryInv /\ [Next]_vars => RegistryInv'
  <2> SUFFICES ASSUME TypeOK, TypeOK', RegistryInv, [Next]_vars PROVE RegistryInv'
    OBVIOUS
  <2>1. CASE Publish
    <3> SUFFICES ASSUME ~overlapped
                 PROVE  Alone' /\ CacheBehind' /\ \A g \in Fetchers : Progress(g)'
      BY <2>1 DEF Publish, RegistryInv, history
    <3>1. Alone /\ CacheBehind /\ \A g \in Fetchers : Progress(g)
      BY <2>1 DEF Publish, RegistryInv, history
    <3>2. /\ remote.list \in Nat /\ remote'.list \in Nat /\ remote'.list >= remote.list
          /\ list' = list /\ stamp' = stamp /\ fetch' = fetch
          /\ list \in Nat /\ stamp \in Nat
      BY <2>1, RemoteTypes DEF Publish, TypeOK, cache
    <3>3. Alone' /\ CacheBehind'
      BY <3>1, <3>2 DEF Alone, CacheBehind, Running
    <3>4. ASSUME NEW g \in Fetchers PROVE Progress(g)'
      <4>1. Progress(g) /\ fetch[g].since \in Nat /\ fetch[g].got \in Nat
        BY <3>1, FetchTypes
      <4> QED
        BY <3>2, <4>1 DEF Progress, At
    <3> QED
      BY <3>3, <3>4
  <2>2. CASE Restart
    <3>1. \A f \in Fetchers : fetch'[f].pc = "idle"
      BY <2>2 DEF Restart, Idle
    <3> QED
      BY <2>2, <3>1 DEF Restart, RegistryInv, cache, Alone, CacheBehind, Progress, Running, At
  <2>3. ASSUME NEW f \in Fetchers, Begins(f) PROVE RegistryInv'
    <3> SUFFICES ASSUME ~overlapped'
                 PROVE  Alone' /\ CacheBehind' /\ \A g \in Fetchers : Progress(g)'
      BY DEF RegistryInv
    <3>1. /\ ~overlapped /\ \A g \in Fetchers : ~Running(g)
          /\ Alone /\ CacheBehind /\ \A g \in Fetchers : Progress(g)
      BY <2>3 DEF Begins, RegistryInv
    <3>2. /\ fetch' = [fetch EXCEPT ![f] = fetch'[f]]
          /\ fetch'[f].pc \in {"told", "full"}
          /\ fetch'[f].since <= remote.list
          /\ At(f, "told")' => fetch'[f].told >= fetch'[f].since
      BY <2>3, BeginStep
    <3>3. remote' = remote /\ list' = list /\ stamp' = stamp
      BY <2>3 DEF Begins, cache
    <3>4. ASSUME NEW g \in Fetchers, g # f PROVE fetch'[g] = fetch[g]
      BY <3>2, <3>4 DEF TypeOK
    <3>5. Alone' /\ CacheBehind'
      BY <3>1, <3>3, <3>4 DEF Alone, CacheBehind, Running
    <3>6. ASSUME NEW g \in Fetchers, g # f PROVE Progress(g)'
      BY <3>1, <3>3, <3>4, <3>6 DEF Progress, At
    <3>7. Progress(f)'
      BY <3>2, <3>3 DEF Progress, At
    <3> QED
      BY <3>5, <3>6, <3>7
  <2>4. ASSUME NEW f \in Fetchers, FetchStep(f) PROVE RegistryInv'
    <3>1. CASE Compares(f)
      <4>1. /\ fetch' = [fetch EXCEPT ![f] = fetch'[f]]
            /\ fetch'[f].pc = IF stamp # 0 /\ stamp = fetch[f].told THEN "cached" ELSE "full"
            /\ fetch'[f].told = fetch[f].told /\ fetch'[f].since = fetch[f].since
        BY <3>1, GotoStep DEF Compares, Pcs
      <4>2. remote' = remote /\ list' = list /\ stamp' = stamp /\ overlapped' = overlapped
        BY <3>1 DEF Compares, cache, history
      <4>3. CacheBehind /\ Progress(f) => CacheBehind' /\ Progress(f)'
        BY <3>1, <4>1, <4>2 DEF Compares, At, CacheBehind, Progress
      <4> QED
        BY <3>1, <4>1, <4>2, <4>3, CallKeepsInv DEF Compares, At, Running
    <3>2. CASE ReadsCache(f)
      <4>1. /\ fetch' = [fetch EXCEPT ![f] = fetch'[f]]
            /\ fetch'[f].since = fetch[f].since
            /\ IF list = Torn THEN fetch'[f].pc = "full"
               ELSE fetch'[f].pc = "done" /\ fetch'[f].answer = list
        BY <3>2, GotoStep, AnswersStep DEF ReadsCache, Pcs, TypeOK
      <4>2. remote' = remote /\ list' = list /\ stamp' = stamp /\ overlapped' = overlapped
        BY <3>2 DEF ReadsCache, cache, history
      <4>3. list \in Nat /\ stamp \in Nat /\ fetch[f].since \in Nat
        BY FetchTypes DEF TypeOK
      <4>4. CacheBehind /\ Progress(f) => CacheBehind' /\ Progress(f)'
        BY <3>2, <4>1, <4>2, <4>3 DEF ReadsCache, At, CacheBehind, Progress
      <4> QED
        BY <3>2, <4>1, <4>2, <4>4, CallKeepsInv DEF ReadsCache, At, Running
    <3>3. CASE Downloads(f)
      <4>1. remote' = remote /\ list' = list /\ stamp' = stamp /\ overlapped' = overlapped
        BY <3>3 DEF Downloads, Fails, cache, history
      <4>2. fetch' = [fetch EXCEPT ![f] = fetch'[f]]
        BY <3>3, DownloadStep, AnswersStep, RemoteTypes, Bounds DEF Downloads, NoAnswer
      <4>3. /\ fetch'[f].since = fetch[f].since
            /\ \/ fetch'[f].pc = "truncate" /\ fetch'[f].got = remote.list
               \/ fetch'[f].pc = "done" /\ fetch'[f].answer = NoAnswer
        BY <3>3, DownloadStep, AnswersStep, RemoteTypes, Bounds DEF Downloads, NoAnswer
      <4>4. remote.list \in Nat
        BY RemoteTypes
      <4>5. CacheBehind /\ Progress(f) => CacheBehind' /\ Progress(f)'
        BY <3>3, <4>1, <4>3, <4>4 DEF Downloads, At, CacheBehind, Progress
      <4> QED
        BY <3>3, <4>1, <4>2, <4>5, CallKeepsInv DEF Downloads, At, Running
    <3>4. CASE CachingFails(f)
      <4>1. /\ fetch' = [fetch EXCEPT ![f] = fetch'[f]]
            /\ fetch'[f].pc = "done" /\ fetch'[f].answer = fetch[f].got
            /\ fetch'[f].since = fetch[f].since
        BY <3>4, AnswersStep, FetchTypes DEF CachingFails
      <4>2. remote' = remote /\ list' = list /\ stamp' = stamp /\ overlapped' = overlapped
        BY <3>4 DEF CachingFails, Fails, cache
      <4>3. CacheBehind /\ Progress(f) => CacheBehind' /\ Progress(f)'
        BY <3>4, <4>1, <4>2 DEF CachingFails, At, CacheBehind, Progress
      <4> QED
        BY <3>4, <4>1, <4>2, <4>3, CallKeepsInv DEF CachingFails, Running
    <3>5. CASE TruncatesList(f)
      <4>1. /\ fetch' = [fetch EXCEPT ![f] = fetch'[f]] /\ fetch'[f].pc = "write"
            /\ fetch'[f].got = fetch[f].got /\ fetch'[f].since = fetch[f].since
        BY <3>5, GotoStep DEF TruncatesList, Pcs
      <4>2. remote' = remote /\ list' = Torn /\ stamp' = stamp /\ overlapped' = overlapped
        BY <3>5 DEF TruncatesList, history
      <4>3. remote.list \in Nat
        BY RemoteTypes
      <4>4. CacheBehind /\ Progress(f) => CacheBehind' /\ Progress(f)'
        BY <3>5, <4>1, <4>2, <4>3 DEF TruncatesList, At, CacheBehind, Progress, Torn
      <4> QED
        BY <3>5, <4>1, <4>2, <4>4, CallKeepsInv DEF TruncatesList, At, Running
    <3>6. CASE WritesList(f)
      <4>1. /\ fetch' = [fetch EXCEPT ![f] = fetch'[f]] /\ fetch'[f].pc = "unstamp"
            /\ fetch'[f].got = fetch[f].got /\ fetch'[f].since = fetch[f].since
        BY <3>6, GotoStep DEF WritesList, Pcs
      <4>2. /\ remote' = remote /\ list' \in {fetch[f].got, Torn}
            /\ stamp' = stamp /\ overlapped' = overlapped
        BY <3>6 DEF WritesList, history
      <4>3. CacheBehind /\ Progress(f) => CacheBehind' /\ Progress(f)'
        BY <3>6, <4>1, <4>2 DEF WritesList, At, CacheBehind, Progress, Torn
      <4> QED
        BY <3>6, <4>1, <4>2, <4>3, CallKeepsInv DEF WritesList, At, Running
    <3>7. CASE TruncatesStamp(f)
      <4>1. /\ fetch' = [fetch EXCEPT ![f] = fetch'[f]] /\ fetch'[f].pc = "stamp"
            /\ fetch'[f].got = fetch[f].got /\ fetch'[f].since = fetch[f].since
        BY <3>7, GotoStep DEF TruncatesStamp, Pcs
      <4>2. remote' = remote /\ list' = list /\ stamp' = 0 /\ overlapped' = overlapped
        BY <3>7 DEF TruncatesStamp, history
      <4>3. remote.list \in Nat /\ fetch[f].got \in Nat
        BY RemoteTypes, FetchTypes
      <4>4. CacheBehind /\ Progress(f) => CacheBehind' /\ Progress(f)'
        BY <3>7, <4>1, <4>2, <4>3 DEF TruncatesStamp, At, CacheBehind, Progress
      <4> QED
        BY <3>7, <4>1, <4>2, <4>4, CallKeepsInv DEF TruncatesStamp, At, Running
    <3>8. CASE WritesStamp(f)
      <4>1. /\ fetch' = [fetch EXCEPT ![f] = fetch'[f]]
            /\ fetch'[f].pc = "done" /\ fetch'[f].answer = fetch[f].got
            /\ fetch'[f].since = fetch[f].since
        BY <3>8, AnswersStep, FetchTypes DEF WritesStamp
      <4>2. /\ remote' = remote /\ list' = list
            /\ stamp' = Stamp(fetch[f].got) /\ overlapped' = overlapped
        BY <3>8 DEF WritesStamp, history
      <4>3. /\ stamp' <= fetch[f].got /\ stamp' \in Nat
            /\ remote.list \in Nat /\ fetch[f].got \in Nat
        BY <4>2, StampOf, RemoteTypes, FetchTypes
      <4>4. CacheBehind /\ Progress(f) => CacheBehind' /\ Progress(f)'
        BY <3>8, <4>1, <4>2, <4>3 DEF WritesStamp, At, CacheBehind, Progress
      <4> QED
        BY <3>8, <4>1, <4>2, <4>4, CallKeepsInv DEF WritesStamp, At, Running
    <3> QED
      BY <2>4, <3>1, <3>2, <3>3, <3>4, <3>5, <3>6, <3>7, <3>8 DEF FetchStep
  <2>5. CASE UNCHANGED vars
    BY <2>5 DEF vars, cache, history, RegistryInv, Alone, CacheBehind, Progress, Running, At
  <2> QED
    BY <2>1, <2>2, <2>3, <2>4, <2>5 DEF Next
<1> QED
  BY <1>1, <1>2, TypeCorrect, PTL DEF Spec

\* The stamp in the cache never stands for a list newer than the cached one,
\* whatever fails and whenever Kyvro dies, unless calls have overlapped.
THEOREM StampAlwaysVouches == Spec => []StampVouches
<1>1. RegistryInv => StampVouches
  BY DEF RegistryInv, CacheBehind, StampVouches
<1> QED
  BY <1>1, InvCorrect, PTL

\* An answer contains all that had been published when the call began, unless
\* calls have overlapped.
THEOREM AnswersAreRecent == Spec => []AnswersRecent
<1>1. RegistryInv => AnswersRecent
  BY DEF RegistryInv, Progress, AnswersRecent, At
<1> QED
  BY <1>1, InvCorrect, PTL

----------------------------------------------------------------------------
(* SelectVersion. Its loop is a recursive function: that there is one, and *)
(* what it computes, is proved by induction over its passes.               *)

FitsHost(e, i) == /\ e.versions[i] # 0 /\ e.minVersions[i] # 0
                  /\ HostVersion >= e.minVersions[i]
Better(e, i, b) ==
  IF FitsHost(e, i) /\ (b = 0 \/ e.versions[i] > b) THEN e.versions[i] ELSE b
Loop(e, g, i) == IF i = 0 THEN 0 ELSE Better(e, i, g[i - 1])

\* The first n passes of the loop.
Passes(e, g, n) == g = [i \in 0..n |-> Loop(e, g, i)]

\* Each pass goes by the one before it.
LEMMA PassesAre ==
  ASSUME NEW e, NEW g, NEW n \in Nat, Passes(e, g, n)
  PROVE  \A i \in 0..n : g[i] = Loop(e, g, i)
<1> DEFINE h == [i \in 0..n |-> Loop(e, g, i)]
<1>1. \A i \in 0..n : h[i] = Loop(e, g, i)
  OBVIOUS
<1>2. g = h
  BY Zenon DEF Passes
<1> HIDE DEF h
<1> QED
  BY <1>1, <1>2, Zenon

\* Two runs of the loop agree as far as both have gone.
LEMMA PassesAgree ==
  ASSUME NEW e, NEW g, NEW h, NEW m \in Nat, NEW n \in Nat, Passes(e, g, m), Passes(e, h, n)
  PROVE  \A i \in Nat : i <= m /\ i <= n => g[i] = h[i]
<1> DEFINE T == {i \in Nat : i <= m /\ i <= n => g[i] = h[i]}
<1>0. /\ \A i \in 0..m : g[i] = Loop(e, g, i)
      /\ \A i \in 0..n : h[i] = Loop(e, h, i)
  BY PassesAre
<1>1. 0 \in T
  BY <1>0 DEF Loop
<1>2. ASSUME NEW i \in Nat, i \in T PROVE i + 1 \in T
  <2> SUFFICES ASSUME i + 1 <= m, i + 1 <= n PROVE g[i + 1] = h[i + 1]
    OBVIOUS
  <2>1. g[i] = h[i] /\ i + 1 # 0 /\ (i + 1) - 1 = i
    BY <1>2
  <2>2. g[i + 1] = Loop(e, g, i + 1) /\ h[i + 1] = Loop(e, h, i + 1)
    BY <1>0
  <2>3. Loop(e, g, i + 1) = Better(e, i + 1, g[i]) /\ Loop(e, h, i + 1) = Better(e, i + 1, h[i])
    BY <2>1, Zenon DEF Loop
  <2> QED
    BY <2>1, <2>2, <2>3
<1>3. \A i \in Nat : i \in T
  <2> HIDE DEF T
  <2> QED
    BY <1>1, <1>2, SetInduction
<1> QED
  BY <1>3

\* The loop can make any number of passes.
LEMMA PassesExist ==
  ASSUME NEW e
  PROVE  \A n \in Nat : \E g : Passes(e, g, n)
<1> DEFINE T == {n \in Nat : \E g : Passes(e, g, n)}
<1>1. 0 \in T
  <2> DEFINE g == [i \in 0..0 |-> 0]
  <2>1. g = [i \in 0..0 |-> Loop(e, g, i)]
    BY DEF Loop
  <2> QED
    BY <2>1 DEF Passes
<1>2. ASSUME NEW n \in Nat, n \in T PROVE n + 1 \in T
  <2>1. PICK g : Passes(e, g, n)
    BY <1>2
  <2> DEFINE h == [i \in 0..(n + 1) |-> IF i = n + 1 THEN Better(e, n + 1, g[n]) ELSE g[i]]
  <2>2. \A i \in 0..n : g[i] = Loop(e, g, i)
    BY <2>1, PassesAre
  <2>3. ASSUME NEW i \in 0..(n + 1) PROVE h[i] = Loop(e, h, i)
    <3>1. CASE i = 0
      <4>1. h[i] = g[0] /\ Loop(e, h, i) = 0 /\ g[0] = 0
        BY <2>2, <3>1 DEF Loop
      <4> QED
        BY <4>1
    <3>2. CASE i # 0
      <4>1. i - 1 \in 0..n /\ h[i - 1] = g[i - 1]
        BY <3>2
      <4>2. Loop(e, h, i) = Better(e, i, g[i - 1])
        BY <3>2, <4>1 DEF Loop
      <4>3. CASE i = n + 1
        <5>1. i - 1 = n /\ h[i] = Better(e, n + 1, g[n])
          BY <4>3
        <5> QED
          BY <4>2, <4>3, <5>1
      <4>4. CASE i # n + 1
        <5>1. i \in 0..n /\ h[i] = g[i]
          BY <4>4
        <5>2. g[i] = Better(e, i, g[i - 1])
          BY <2>2, <3>2, <5>1 DEF Loop
        <5> QED
          BY <4>2, <5>1, <5>2
      <4> QED
        BY <4>3, <4>4
    <3> QED
      BY <3>1, <3>2
  <2>4. h = [i \in 0..(n + 1) |-> Loop(e, h, i)]
    BY <2>3
  <2> HIDE DEF h
  <2>5. \E k : Passes(e, k, n + 1)
    BY <2>4, Zenon DEF Passes
  <2> QED
    BY <2>5
<1>3. \A n \in Nat : n \in T
  <2> HIDE DEF T
  <2> QED
    BY <1>1, <1>2, SetInduction
<1> QED
  BY <1>3

\* The loop is well defined, whatever the entry.
LEMMA LoopExists ==
  ASSUME NEW e
  PROVE  \E g : g = [i \in Nat |-> Loop(e, g, i)]
<1> DEFINE chain(n) == CHOOSE g : Passes(e, g, n)
           f == [i \in Nat |-> chain(i)[i]]
<1>1. \A n \in Nat : Passes(e, chain(n), n)
  BY PassesExist, Zenon
<1> HIDE DEF chain
<1>2. ASSUME NEW i \in Nat PROVE f[i] = Loop(e, f, i)
  <2>1. chain(i)[i] = Loop(e, chain(i), i) /\ f[i] = chain(i)[i]
    BY <1>1, PassesAre
  <2>2. CASE i = 0
    BY <2>1, <2>2 DEF Loop
  <2>3. CASE i # 0
    <3>1. i - 1 \in Nat /\ f[i - 1] = chain(i - 1)[i - 1]
      BY <2>3
    <3>2. chain(i)[i - 1] = chain(i - 1)[i - 1]
      BY <1>1, <3>1, PassesAgree
    <3>3. chain(i)[i - 1] = f[i - 1]
      BY <3>1, <3>2
    <3> HIDE DEF f
    <3> QED
      BY <2>1, <2>3, <3>3 DEF Loop
  <2> QED
    BY <2>2, <2>3
<1>3. f = [i \in Nat |-> Loop(e, f, i)]
  BY <1>2
<1> QED
  BY <1>3


\* SelectVersion is what the loop has after the last version.
LEMMA SelectVersionIsLoop ==
  ASSUME NEW e
  PROVE  \E g : /\ g = [i \in Nat |-> Loop(e, g, i)]
                /\ SelectVersion(e) = IF Len(e.minVersions) # Len(e.versions) THEN 0
                                      ELSE g[Len(e.versions)]
<1> DEFINE best[i \in Nat] == IF i = 0 THEN 0
                         ELSE IF FitsHost(e, i) /\ (best[i - 1] = 0 \/ e.versions[i] > best[i - 1])
                              THEN e.versions[i] ELSE best[i - 1]
<1>1. \A g, i : Loop(e, g, i) =
         IF i = 0 THEN 0
         ELSE IF FitsHost(e, i) /\ (g[i - 1] = 0 \/ e.versions[i] > g[i - 1])
              THEN e.versions[i] ELSE g[i - 1]
  BY Zenon DEF Loop, Better
<1>2. \E g : g = [i \in Nat |-> IF i = 0 THEN 0
                         ELSE IF FitsHost(e, i) /\ (g[i - 1] = 0 \/ e.versions[i] > g[i - 1])
                              THEN e.versions[i] ELSE g[i - 1]]
  BY <1>1, LoopExists
<1>3. best = [i \in Nat |-> IF i = 0 THEN 0
                         ELSE IF FitsHost(e, i) /\ (best[i - 1] = 0 \/ e.versions[i] > best[i - 1])
                              THEN e.versions[i] ELSE best[i - 1]]
  BY <1>2, Zenon
<1>4. SelectVersion(e) = IF Len(e.minVersions) # Len(e.versions) THEN 0 ELSE best[Len(e.versions)]
  BY Zenon DEF SelectVersion, FitsHost
<1> HIDE DEF best
<1>5. best = [i \in Nat |-> Loop(e, best, i)]
  BY <1>1, <1>3
<1> QED
  BY <1>4, <1>5

\* After n passes the loop holds the highest of the first n versions that fit, or 0.
BestOf(e, n, b) ==
  /\ b \in Nat
  /\ b = 0 \/ \E i \in 1..n : FitsHost(e, i) /\ b = e.versions[i]
  /\ \A i \in 1..n : FitsHost(e, i) => b # 0 /\ e.versions[i] <= b

\* By induction over the passes, the loop ends with the highest version that fits.
LEMMA LoopFindsBest ==
  ASSUME NEW e \in Entries, Len(e.minVersions) = Len(e.versions),
         NEW g, g = [i \in Nat |-> Loop(e, g, i)]
  PROVE  BestOf(e, Len(e.versions), g[Len(e.versions)])
<1> DEFINE len == Len(e.versions)
           T == {n \in Nat : n <= len => BestOf(e, n, g[n])}
<1>0. /\ len \in Nat
      /\ \A i \in 1..len : e.versions[i] \in Nat /\ e.minVersions[i] \in Nat
  BY DEF Entries
<1>l. \A i \in Nat : g[i] = Loop(e, g, i)
  <2> DEFINE h == [i \in Nat |-> Loop(e, g, i)]
  <2>1. g = h /\ \A i \in Nat : h[i] = Loop(e, g, i)
    BY Zenon
  <2> HIDE DEF h
  <2> QED
    BY <2>1, Zenon
<1> HIDE DEF len
<1>1. 0 \in T
  <2>1. g[0] = 0
    BY <1>l DEF Loop
  <2> QED
    BY <2>1 DEF BestOf
<1>2. ASSUME NEW n \in Nat, n \in T PROVE n + 1 \in T
  <2> SUFFICES ASSUME n + 1 <= len PROVE BestOf(e, n + 1, g[n + 1])
    OBVIOUS
  <2>1. BestOf(e, n, g[n])
    BY <1>0, <1>2
  <2>2. g[n + 1] = Better(e, n + 1, g[n])
    <3>1. g[n + 1] = Loop(e, g, n + 1) /\ n + 1 # 0 /\ (n + 1) - 1 = n
      BY <1>l
    <3> QED
      BY <3>1 DEF Loop
  <2>3. e.versions[n + 1] \in Nat
    BY <1>0
  <2>4. \A i \in 1..n : e.versions[i] \in Nat
    BY <1>0
  <2>5. CASE FitsHost(e, n + 1) /\ (g[n] = 0 \/ e.versions[n + 1] > g[n])
    <3>1. g[n + 1] = e.versions[n + 1] /\ e.versions[n + 1] # 0
      BY <2>2, <2>5 DEF Better, FitsHost
    <3>2. \A i \in 1..(n + 1) : FitsHost(e, i) => e.versions[i] <= g[n + 1]
      BY <2>1, <2>3, <2>4, <2>5, <3>1 DEF BestOf
    <3> QED
      BY <2>3, <2>5, <3>1, <3>2 DEF BestOf
  <2>6. CASE ~(FitsHost(e, n + 1) /\ (g[n] = 0 \/ e.versions[n + 1] > g[n]))
    <3>1. g[n + 1] = g[n]
      BY <2>2, <2>6 DEF Better
    <3>2. FitsHost(e, n + 1) => g[n] # 0 /\ e.versions[n + 1] <= g[n]
      BY <2>1, <2>3, <2>6 DEF BestOf
    <3>3. \A i \in 1..(n + 1) : i = n + 1 \/ i \in 1..n
      OBVIOUS
    <3>4. \A i \in 1..n : i \in 1..(n + 1)
      OBVIOUS
    <3> QED
      BY <2>1, <3>1, <3>2, <3>3, <3>4 DEF BestOf
  <2> QED
    BY <2>5, <2>6
<1>3. \A n \in Nat : n \in T
  <2> HIDE DEF T
  <2> QED
    BY <1>1, <1>2, SetInduction
<1> QED
  BY <1>0, <1>3 DEF len

\* What OffersBest says of one plugin.
Offered(e) ==
  LET fit == {e.versions[i] : i \in {j \in DOMAIN e.versions \cap DOMAIN e.minVersions :
                e.versions[j] # 0 /\ e.minVersions[j] \in 1..HostVersion}}
      offered == SelectVersion(e)
  IN IF Len(e.versions) # Len(e.minVersions) \/ fit = {}
       THEN offered = 0
       ELSE offered \in fit /\ \A v \in fit : v <= offered

\* Whatever a list holds, in whatever order: SelectVersion offers the highest version
\* of a plugin that declares a minimum this host satisfies, and none where there is
\* none or the two lists do not match (registry.go).
THEOREM SelectsBest == \A e \in Entries : Offered(e)
<1> SUFFICES ASSUME NEW e \in Entries PROVE Offered(e)
  OBVIOUS
<1> DEFINE fit == {e.versions[i] : i \in {j \in DOMAIN e.versions \cap DOMAIN e.minVersions :
                     e.versions[j] # 0 /\ e.minVersions[j] \in 1..HostVersion}}
           len == Len(e.versions)
<1>1. CASE Len(e.minVersions) # len
  <2>1. SelectVersion(e) = 0
    BY <1>1, SelectVersionIsLoop
  <2> QED
    BY <1>1, <2>1, Zenon DEF Offered
<1>2. CASE Len(e.minVersions) = len
  <2>1. PICK g : g = [i \in Nat |-> Loop(e, g, i)] /\ SelectVersion(e) = g[len]
    BY <1>2, SelectVersionIsLoop, Zenon
  <2>2. BestOf(e, len, SelectVersion(e))
    BY <1>2, <2>1, LoopFindsBest
  <2>3. /\ DOMAIN e.versions \cap DOMAIN e.minVersions = 1..len
        /\ \A i \in 1..len : e.minVersions[i] \in Nat
    BY <1>2 DEF Entries
  <2>4. \A i \in 1..len :
          FitsHost(e, i) <=> e.versions[i] # 0 /\ e.minVersions[i] \in 1..HostVersion
    BY <2>3, RegistryAssumption DEF FitsHost
  <2>5. /\ \A v : v \in fit => \E i \in 1..len : FitsHost(e, i) /\ v = e.versions[i]
        /\ \A i \in 1..len : FitsHost(e, i) => e.versions[i] \in fit
    BY <2>3, <2>4
  <2> HIDE DEF fit, len
  <2>6. CASE fit = {}
    <3>1. SelectVersion(e) = 0
      BY <2>2, <2>5, <2>6 DEF BestOf
    <3> QED
      BY <2>6, <3>1, Zenon DEF Offered, fit
  <2>7. CASE fit # {}
    <3>1. SelectVersion(e) \in fit /\ \A v \in fit : v <= SelectVersion(e)
      BY <2>2, <2>5, <2>7 DEF BestOf
    <3> QED
      BY <1>2, <2>7, <3>1, Zenon DEF Offered, fit, len
  <2> QED
    BY <2>6, <2>7
<1> QED
  BY <1>1, <1>2

\* Every answer of every call, from the registry or from the cache: each of its plugins
\* is offered in the highest version that this host satisfies.
THEOREM OffersAreBest == Spec => []OffersBest
<1>1. TypeOK => OffersBest
  <2> SUFFICES ASSUME TypeOK, NEW f \in Fetchers, fetch[f].answer # NoAnswer,
                      NEW e \in Catalogue[fetch[f].answer]
               PROVE  Offered(e)
    BY Zenon DEF OffersBest, Offered
  <2>1. fetch[f].answer \in Lists
    BY FetchTypes DEF Lists, NoAnswer
  <2>2. e \in Entries
    BY <2>1, RegistryAssumption
  <2> QED
    BY <2>2, SelectsBest
<1> QED
  BY <1>1, TypeCorrect, PTL

=============================================================================
