--------------------------- MODULE MCPluginClient ---------------------------
(* PluginClient with a few requests.                                        *)
EXTENDS PluginClient

CONSTANTS r1, r2

=============================================================================
