------------------------- MODULE MCPluginInstaller -------------------------
(* Small instances of PluginInstaller for TLC.                             *)
EXTENDS PluginInstaller, TLC

CONSTANTS u1, up

=============================================================================
