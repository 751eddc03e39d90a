-------------------------- MODULE MCPluginRuntime --------------------------
(* Small instances of PluginRuntime for TLC.                               *)
EXTENDS PluginRuntime, TLC

RuntimeSymmetry == Permutations(Hosts) \cup Permutations(Closers)

=============================================================================
