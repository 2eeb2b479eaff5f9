---------------------------- MODULE MCPluginHost ----------------------------
EXTENDS PluginHost
CONSTANTS ctrl, new, node

(* A controller, the one a rolling update starts beside it, the node plugin. *)
Started == [p \in Procs |-> IF p = node THEN {"node"} ELSE {"controller"}]
=============================================================================
