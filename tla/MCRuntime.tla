---- MODULE MCRuntime ----
(* Small instances of Runtime: all constants come from the cfg.             *)
EXTENDS Runtime
=============================================================================
