---- MODULE MCNotebook ----
(* The notebook store and the section map of one file.  The map is built    *)
(* from the text alone, so a behaviour is of the one or of the other.       *)
EXTENDS Notebook, Sections

AtStart == uploads = <<>> /\ pc = "idle" /\ bound = None /\ faults = 0 /\ ~listFresh
InStore(A) == A /\ lines = <<>> /\ numbered = FALSE /\ UNCHANGED secVars
Init == NbInit /\ SecInit
Next == InStore(NbNext) \/ (SecNext /\ AtStart /\ UNCHANGED vars)

Spec == Init /\ [][Next]_<<vars, secVars>>
(* The runtime publishes again and again, a build goes on, a list gets old. *)
FairSpec ==
    /\ Spec
    /\ WF_vars(InStore(Publish)) /\ WF_vars(InStore(Generate \/ DownloadFails))
    /\ WF_vars(InStore(Persist)) /\ WF_vars(InStore(ListAges))

=============================================================================
