------------------------- MODULE MCPluginLifecycle -------------------------
(* A small instance of PluginLifecycle. *)
EXTENDS PluginLifecycle
=============================================================================
