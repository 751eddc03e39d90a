------------------------- MODULE MCFolderController -------------------------
(* Small instances of FolderController for TLC.                            *)
EXTENDS FolderController, TLC

CONSTANTS s1, s2, r1, r2, w1, w2

OneRootEach == s1 :> r1 @@ s2 :> r2
OneTreeChanges == s1 :> {1, 2} @@ s2 :> {1}
EveryOne == [w \in Workers |-> Sources]
WorkerSymmetry == Permutations(Workers)

=============================================================================
