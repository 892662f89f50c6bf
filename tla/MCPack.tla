---- MODULE MCPack ----
(* The pack with one family of rates and one around a baseline.             *)
EXTENDS Pack

(* The bound on a behaviour: one of the families is away from its default   *)
(* or cooling down at a time.                                               *)
OneFamilyTuned ==
    \E f \in Families : \A g \in Families \ {f} :
        val[g] = Default /\ g \notin cooldown \union big

=============================================================================
