-------------------------- MODULE MCPluginManager --------------------------
(* Small instances of PluginManager for TLC: two plugins contend for one   *)
(* prefix, the second declares another one as well.                        *)
EXTENDS PluginManager, TLC

MCPrefixes == {"p", "q"}
MCClaims == [i \in Ids |-> IF i = 1 THEN {"p"} ELSE MCPrefixes]

ManagerSymmetry ==
  Permutations(Instances) \cup Permutations(Loaders) \cup Permutations(Searchers)

\* Two scenarios in one instance: one plugin with everything that can happen to
\* it but a live search, or both plugins, with a search and one reload at a time.
OnePlugin ==
  /\ disk \subseteq {1} /\ table[2] = Nobody
  /\ \A l \in Loaders : loader[l].fresh[2] = Nobody
  /\ \A s \in Searchers : searcher[s] = NoSearch
  /\ \A x \in Instances : inst[x].strikes = 0
  /\ mode[1] # "rule"
OneReload ==
  /\ \A t \in Togglers : toggler[t] = NoToggle
  /\ persisted = {} /\ \A i \in Ids : mode[i] # "user"
  /\ Cardinality({l \in Loaders : loader[l] # NoPass}) <= 1
  /\ \E x \in Instances : inst[x].life = "free"
Scenarios == OnePlugin \/ OneReload

=============================================================================
