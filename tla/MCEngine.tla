---- MODULE MCEngine ----
(***************************************************************************)
(* Small instances of Engine.  The actions: MOVE and TUNE drive the        *)
(* machine, HEAT does after an operator's approval, JOG after an automatic *)
(* one; WAIT and HOLD are builtin WAIT_UNTILs, HOLD with nonfatal_timeout. *)
(***************************************************************************)
EXTENDS Engine, TLC

CONSTANTS p1, p2, i1, i2

MCRequiredLocks == [a \in Actions |->
    CASE a \in {"MOVE", "TUNE"} -> {"motion"}
      [] a = "HEAT"             -> {"heater"}
      [] a = "JOG"              -> {"motion", "heater"}
      [] OTHER                  -> {}]

(* The processes run the same code, and so does any choice of inodes.       *)
Symmetry == Permutations(Procs) \cup Permutations(Inodes)

=============================================================================
