--------------------------- MODULE MCPluginDaemon ---------------------------
(* Model values for PluginDaemon.  No symmetry: both runs check liveness.  *)
EXTENDS PluginDaemon, TLC
=============================================================================
