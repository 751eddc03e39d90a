--------------------------- MODULE MCRegistryCache ---------------------------
(* A small instance of RegistryCache for TLC. Each list holds every entry  *)
(* of some number of versions, in any order, valid or not, also with a     *)
(* minimum too many or too few.                                            *)
EXTENDS RegistryCache

Texts == 0..2
EntriesOf(n, m) == [versions : [1..n -> Texts], minVersions : [1..m -> Texts]]
MCCatalogue ==
  <<EntriesOf(1, 1) \cup EntriesOf(0, 0), EntriesOf(2, 2) \cup EntriesOf(1, 2),
    EntriesOf(1, 1), EntriesOf(3, 3) \cup EntriesOf(3, 2)>>

=============================================================================
