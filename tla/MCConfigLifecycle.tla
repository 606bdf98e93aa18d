------------------------- MODULE MCConfigLifecycle -------------------------
(* TLC instances of ConfigLifecycle; the cfg files choose who is running:   *)
(* management handlers, the file watcher, or both.                          *)
EXTENDS ConfigLifecycle
=============================================================================
