--------------------------- MODULE MCPluginReload ---------------------------
(* Small instances of PluginReload for TLC: two plugin files. *)
EXTENDS PluginReload

MCPlugins == {"auth", "authz"}
MCPipeline == <<"auth", "authz">>
=============================================================================
