---------------------------- MODULE MCHotReload -----------------------------
(* Small instances of HotReload: one service, two watchers.                *)
EXTENDS HotReload, TLC

CONSTANTS h1, h2

One == [s \in {"a"} |-> 1]
=============================================================================
