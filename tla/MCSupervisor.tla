---------------------------- MODULE MCSupervisor ----------------------------
(***************************************************************************)
(* Instances of Supervisor for TLC.                                        *)
(***************************************************************************)
EXTENDS Supervisor, TLC

\* Instance handles are interchangeable: no property or action tells them
\* apart.  Used by the runs that check safety only.
HandleSymmetry == Permutations(Insts)

=============================================================================
