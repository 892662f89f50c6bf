---- MODULE MCDriver ----
(* The driver with one tuned parameter per way of reading and verifying it. *)
EXTENDS Driver

MCFamilies == {"speed", "flow", "accel"}
MCSerialOnly == {"accel"}
MCSerialFirst == {"flow"}
MCRates == {"speed", "flow"}

=============================================================================
