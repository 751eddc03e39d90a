--------------------------- MODULE FolderSources ---------------------------
(***************************************************************************)
(* What folder sources are to the user, without goroutines, locks and      *)
(* copies: each is configured, toggled and removed for good; its entries   *)
(* are cached as a scan of its own folder found them; and in one step      *)
(* search takes over what the cache has of it, or nothing when it is off.  *)
(* A lapse is what the controller does not exclude: two operations on one  *)
(* source at once, or two rebuilds of the search index.                    *)
(***************************************************************************)
CONSTANTS Sources, Trees, Nothing

VARIABLES
  conf,    \* of each source: none, on or off
  over,    \* the sources that will never be configured again
  cached,  \* what the cache has of each, or Nothing
  saved,   \* what it will have of each after a restart
  shown,   \* what search finds of each, or Nothing
  lapses   \* the kinds of lapses since the start

config == <<conf, over>>
cache == <<cached, saved>>
vars == <<config, cache, shown, lapses>>

Nowhere == [s \in Sources |-> Nothing]
ToShow(c, s) == IF conf[s] = "on" THEN c[s] ELSE Nothing

Init ==
  /\ conf = [s \in Sources |-> "none"] /\ over = {}
  /\ cached = Nowhere /\ saved = Nowhere /\ shown = Nowhere
  /\ lapses = {}

Configure(s) ==
  /\ conf[s] = "none" /\ conf' = [conf EXCEPT ![s] = "on"]
  /\ s \notin over
  /\ UNCHANGED <<over, cache, shown>>

Toggle(s, state) ==
  /\ conf[s] # "none"
  /\ conf' = [conf EXCEPT ![s] = state]
  /\ UNCHANGED <<over, cache, shown>>

\* Also a source that could not be saved is over.
Remove(s) ==
  /\ conf' = [conf EXCEPT ![s] = "none"] /\ over' = over \cup {s}
  /\ UNCHANGED <<cache, shown>>

\* Writing the file may fail.
Keep(s, v) ==
  /\ cached' = [cached EXCEPT ![s] = v] /\ saved' \in {cached', saved}
  /\ UNCHANGED <<config, shown>>

Scan(s) == conf[s] = "on" /\ \E v \in Trees[s] : Keep(s, v)
Forget(s) == conf[s] = "none" /\ Keep(s, Nothing)

Show(s) ==
  /\ shown' = [shown EXCEPT ![s] = ToShow(cached, s)]
  /\ UNCHANGED <<config, cache>>

\* A rebuild that overlaps another may bring anything back.
ShowAny == "provider" \in lapses /\ UNCHANGED <<config, cache>>

Operate ==
  /\ UNCHANGED lapses
  /\ \E s \in Sources : \/ Toggle(s, "on") \/ Toggle(s, "off") \/ Configure(s) \/ Remove(s)
                        \/ Show(s) \/ Scan(s) \/ Forget(s)

RebuildTwice ==
  /\ lapses' = lapses \cup {"provider"}
  /\ UNCHANGED <<config, cache, shown>>

Restart ==
  /\ lapses' = {}
  /\ cached' = saved
  /\ shown' = [s \in Sources |-> ToShow(saved, s)]
  /\ over \subseteq over' /\ \A s \in over' : conf[s] = "none"
  /\ UNCHANGED <<conf, saved>>

Next ==
  \/ "source" \in lapses'
  \/ Operate \/ RebuildTwice \/ Restart
  \/ ShowAny /\ UNCHANGED lapses

Spec == Init /\ [][Next]_vars

=============================================================================
