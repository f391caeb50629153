---------------------------- MODULE MCSupervisor ----------------------------
(* Instances of Supervisor for TLC.                                        *)
EXTENDS Supervisor, TLC

One == {1}
Both == {1, 2}

\* Pids are interchangeable: the supervisor only compares them.
PidSymmetry == Permutations(Pids)
=============================================================================
